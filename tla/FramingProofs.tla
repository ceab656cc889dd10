---------------------------- MODULE FramingProofs ----------------------------
(***************************************************************************)
(* The reader of litemqtt::connection for every radix of a length digit,   *)
(* every traffic and any number of streams: type correctness, with the     *)
(* bound on the bytes of a length; that reading_depth_ says what it is for,*)
(* that one step of the reader is under way; and that well-formed frames   *)
(* come to the read handler as they were sent and raise no error.          *)
(***************************************************************************)
EXTENDS Framing, SequenceTheorems, TLAPS

ChainKinds == {"connect", "resolved", "connected", "written"}
Opening == {"connect", "resolved", "connected"}

\* A completed read step has brought the bytes it asked for.
Complete(h) ==
    /\ h.kind = "fixed" /\ h.ok => Len(h.bytes) = 2
    /\ h.kind = "length" /\ h.ok => Len(h.bytes) = 1
Completed == {h \in Handlers : Complete(h)}

\* A handler of a kind in K is queued; not two of them are.
Some(l, K) == \E i \in 1 .. Len(l) : l[i].kind \in K
Once(l, K) ==
    \A i, j \in 1 .. Len(l) : l[i].kind \in K /\ l[j].kind \in K => i = j

\* The reader is taken exactly while one of its steps is outstanding or its
\* completion is queued, never both and never twice.
OneReader ==
    /\ Once(loop, Steps)
    /\ depth = 1 <=> (op # NoOp \/ Some(loop, Steps))
    /\ op # NoOp => ~Some(loop, Steps)

\* What the step under way asked for, and the room there is for a length byte.
Asked ==
    /\ op.step = "fixed" => op.want = 2
    /\ op.step = "length" => op.want = 1
    /\ op.step = "length" \/ Some(loop, {"length"}) => length.bytesRead <= 4

\* One connect chain, and a stream for it while it has not opened one.
OneChain ==
    /\ Once(loop, ChainKinds)
    /\ dial = "queued" <=> Some(loop, ChainKinds)
    /\ stream <= Len(Traffic)
    /\ open => stream >= 1
    /\ dial \in {"resolving", "connecting"} \/ Some(loop, Opening)
          => stream < Len(Traffic)

IInv == TypeOK /\ loop \in Seq(Completed) /\ OneReader /\ Asked /\ OneChain
-----------------------------------------------------------------------------
(* Lemmas about the queue of the io_context *)

LEMMA AppendQueue ==
    ASSUME NEW l \in Seq(Completed), NEW h \in Completed
    PROVE  /\ Append(l, h) \in Seq(Completed)
           /\ \A K : Some(Append(l, h), K) <=> Some(l, K) \/ h.kind \in K
           /\ \A K : Once(l, K) /\ ~(h.kind \in K /\ Some(l, K))
                        => Once(Append(l, h), K)
<1>1. /\ Append(l, h) \in Seq(Completed)
      /\ Len(Append(l, h)) = Len(l) + 1 /\ Len(l) \in Nat
      /\ \A i \in 1 .. Len(l) : Append(l, h)[i] = l[i]
      /\ Append(l, h)[Len(l) + 1] = h
  BY AppendProperties, LenProperties
<1>2. ASSUME NEW K
      PROVE  Some(Append(l, h), K) <=> Some(l, K) \/ h.kind \in K
  BY <1>1 DEF Some
<1>3. ASSUME NEW K, Once(l, K), ~(h.kind \in K /\ Some(l, K))
      PROVE  Once(Append(l, h), K)
  BY <1>1, <1>3 DEF Once, Some
<1> QED BY <1>1, <1>2, <1>3

LEMMA TailQueue ==
    ASSUME NEW l \in Seq(Completed), l # <<>>
    PROVE  /\ Head(l) \in Completed /\ Tail(l) \in Seq(Completed)
           /\ \A K : Some(l, K) <=> Head(l).kind \in K \/ Some(Tail(l), K)
           /\ \A K : Once(l, K) => /\ Once(Tail(l), K)
                                   /\ Head(l).kind \in K => ~Some(Tail(l), K)
<1>1. /\ Tail(l) \in Seq(Completed) /\ Len(Tail(l)) = Len(l) - 1
      /\ \A i \in 1 .. Len(l) - 1 : Tail(l)[i] = l[i + 1]
      /\ Head(l) = l[1] /\ Head(l) \in Completed /\ Len(l) \in Nat \ {0}
  BY HeadTailProperties, EmptySeq, LenProperties
<1>2. ASSUME NEW K
      PROVE  Some(l, K) <=> Head(l).kind \in K \/ Some(Tail(l), K)
  <2>1. ASSUME NEW i \in 1 .. Len(l), l[i].kind \in K, i # 1
        PROVE  Some(Tail(l), K)
    <3>1. i - 1 \in 1 .. Len(l) - 1 /\ Tail(l)[i - 1] = l[i] BY <1>1, <2>1
    <3> QED BY <1>1, <2>1, <3>1 DEF Some
  <2>2. ASSUME NEW i \in 1 .. Len(l) - 1, Tail(l)[i].kind \in K
        PROVE  Some(l, K)
    <3>1. i + 1 \in 1 .. Len(l) BY <1>1
    <3> QED BY <1>1, <2>2, <3>1 DEF Some
  <2> QED BY <1>1, <2>1, <2>2 DEF Some
<1>3. ASSUME NEW K, Once(l, K)
      PROVE  Once(Tail(l), K)
  <2> SUFFICES ASSUME NEW i \in 1 .. Len(l) - 1, NEW j \in 1 .. Len(l) - 1,
                      Tail(l)[i].kind \in K, Tail(l)[j].kind \in K
               PROVE  i = j
    BY <1>1 DEF Once
  <2>1. i + 1 \in 1 .. Len(l) /\ j + 1 \in 1 .. Len(l) BY <1>1
  <2>2. i + 1 = j + 1 BY <1>1, <1>3, <2>1 DEF Once
  <2> QED BY <2>2
<1>4. ASSUME NEW K, Once(l, K), Head(l).kind \in K
      PROVE  ~Some(Tail(l), K)
  <2> SUFFICES ASSUME NEW i \in 1 .. Len(l) - 1, Tail(l)[i].kind \in K
               PROVE  FALSE
    BY <1>1 DEF Some
  <2>1. i + 1 \in 1 .. Len(l) /\ 1 \in 1 .. Len(l) BY <1>1
  <2>2. i + 1 = 1 BY <1>1, <1>4, <2>1 DEF Once
  <2> QED BY <2>2
<1> QED BY <1>1, <1>2, <1>3, <1>4

LEMMA SomeOfMore ==
    ASSUME NEW l, NEW K, NEW M, K \subseteq M, Some(l, K)
    PROVE  Some(l, M)
BY DEF Some

\* The handlers this module queues.
LEMMA NewHandlers ==
    ASSUME stream \in Nat
    PROVE  /\ Error \in Completed /\ Error.kind = "error"
           /\ \A b \in Seq(Nat) :
                 Packet(b) \in Completed /\ Packet(b).kind = "packet"
           /\ \A s \in Steps : Broken(s) \in Completed /\ Broken(s).kind = s
           /\ \A k \in ChainKinds : Chain(k) \in Completed /\ Chain(k).kind = k
           /\ \A s \in Steps, b \in Seq(Nat) :
                 /\ s = "fixed" => Len(b) = 2
                 /\ s = "length" => Len(b) = 1
                 => /\ Handler(s, TRUE, b) \in Completed
                    /\ Handler(s, TRUE, b).kind = s
<1>1. <<>> \in Seq(Nat) BY EmptySeq
<1> QED
  BY <1>1 DEF Error, Packet, Broken, Chain, Handler, Completed, Complete,
              Handlers, Steps, ChainKinds

\* What is known when the first handler runs.
LEMMA HeadFacts ==
    ASSUME IInv, loop # <<>>
    PROVE  /\ Head(loop) \in Completed /\ Tail(loop) \in Seq(Completed)
           /\ Once(Tail(loop), Steps) /\ Once(Tail(loop), ChainKinds)
           /\ \A K : Some(Tail(loop), K) => Some(loop, K)
           /\ \A K : Head(loop).kind \notin K
                        => (Some(loop, K) <=> Some(Tail(loop), K))
           /\ Head(loop).kind \in Steps =>
                 /\ depth = 1 /\ op = NoOp
                 /\ ~Some(Tail(loop), Steps) /\ ~Some(Tail(loop), {"length"})
           /\ Head(loop).kind \in ChainKinds =>
                 dial = "queued" /\ ~Some(Tail(loop), ChainKinds)
           /\ Head(loop).kind \in Opening => stream < Len(Traffic)
<1>1. loop \in Seq(Completed) BY DEF IInv
<1>2. /\ Head(loop) \in Completed /\ Tail(loop) \in Seq(Completed)
      /\ \A K : Some(loop, K) <=> Head(loop).kind \in K \/ Some(Tail(loop), K)
      /\ \A K : Once(loop, K) =>
                   /\ Once(Tail(loop), K)
                   /\ Head(loop).kind \in K => ~Some(Tail(loop), K)
  BY <1>1, TailQueue
<1>3. Some(Tail(loop), {"length"}) => Some(Tail(loop), Steps)
  BY SomeOfMore DEF Steps
<1>4. Once(loop, Steps) /\ Once(loop, ChainKinds) BY DEF IInv, OneReader, OneChain
<1>5. Head(loop).kind \in Steps => depth = 1 /\ op = NoOp
  BY <1>2 DEF IInv, OneReader
<1>6. Head(loop).kind \in ChainKinds => dial = "queued"
  BY <1>2 DEF IInv, OneChain
<1>7. Head(loop).kind \in Opening => stream < Len(Traffic)
  BY <1>2 DEF IInv, OneChain
<1> QED BY <1>2, <1>3, <1>4, <1>5, <1>6, <1>7
-----------------------------------------------------------------------------
(* The reader *)

LEMMA ReleaseStep ==
    ASSUME IInv, loop # <<>>, Head(loop).kind \in Steps,
           NEW h \in Completed, h.kind \in {"packet", "error"},
           Release(h), UNCHANGED Aside,
           header' \in Seq(Nat), length' \in Lengths
    PROVE  IInv'
<1> DEFINE l == Tail(loop)
<1>1. /\ l \in Seq(Completed) /\ ~Some(l, Steps) /\ ~Some(l, {"length"})
      /\ Once(l, Steps) /\ Once(l, ChainKinds)
      /\ Some(loop, ChainKinds) <=> Some(l, ChainKinds)
      /\ Some(loop, Opening) <=> Some(l, Opening)
  BY HeadFacts DEF Steps, ChainKinds, Opening
<1>2. /\ loop' = Append(l, h) /\ depth' = 0 /\ op' = NoOp
  BY DEF Release
<1>3. /\ loop' \in Seq(Completed)
      /\ \A K : Some(loop', K) <=> Some(l, K) \/ h.kind \in K
      /\ \A K : Once(l, K) /\ ~(h.kind \in K /\ Some(l, K)) => Once(loop', K)
  BY <1>1, <1>2, AppendQueue
<1>4. /\ h.kind \notin Steps /\ h.kind \notin {"length"}
      /\ h.kind \notin ChainKinds /\ h.kind \notin Opening
  BY DEF Steps, ChainKinds, Opening
<1>5. TypeOK'
  <2>1. loop' \in Seq(Handlers) BY <1>3 DEF Completed
  <2> QED BY <1>2, <2>1 DEF IInv, TypeOK, Aside, peer
<1>6. OneReader' BY <1>1, <1>2, <1>3, <1>4 DEF OneReader
<1>7. Asked'
  <2>1. op'.step = "none" BY <1>2 DEF NoOp
  <2> QED BY <1>1, <1>3, <1>4, <2>1 DEF Asked
<1>8. OneChain'
  BY <1>1, <1>3, <1>4 DEF IInv, OneChain, Aside
<1> QED BY <1>3, <1>5, <1>6, <1>7, <1>8 DEF IInv

LEMMA ReadOnStep ==
    ASSUME IInv, loop # <<>>, Head(loop).kind \in Steps,
           NEW step \in Steps, NEW n \in Nat \ {0},
           UNCHANGED depth, AsyncRead(step, n, Tail(loop), open),
           UNCHANGED Aside, header' \in Seq(Nat), length' \in Lengths,
           step = "fixed" => n = 2,
           step = "length" => n = 1 /\ length'.bytesRead <= 4
    PROVE  IInv'
<1> DEFINE l == Tail(loop)
<1>1. /\ l \in Seq(Completed) /\ ~Some(l, Steps) /\ ~Some(l, {"length"})
      /\ depth = 1
      /\ Once(l, Steps) /\ Once(l, ChainKinds)
      /\ Some(loop, ChainKinds) <=> Some(l, ChainKinds)
      /\ Some(loop, Opening) <=> Some(l, Opening)
  BY HeadFacts DEF Steps, ChainKinds, Opening
<1>2. /\ Broken(step) \in Completed /\ Broken(step).kind = step
      /\ step \notin ChainKinds /\ step \notin Opening
  BY NewHandlers DEF IInv, TypeOK, Steps, ChainKinds, Opening
<1>3. CASE open
  <2>1. op' = [step |-> step, want |-> n] /\ loop' = l
    BY <1>3 DEF AsyncRead
  <2>2. op' # NoOp /\ op'.step = step /\ op'.want = n
    BY <2>1 DEF NoOp, Steps
  <2>3. TypeOK'
    <3>1. loop' \in Seq(Handlers) BY <1>1, <2>1 DEF Completed
    <3> QED BY <2>1, <3>1 DEF IInv, TypeOK, Aside, peer
  <2>4. OneReader' BY <1>1, <2>1, <2>2 DEF OneReader
  <2>5. Asked' BY <1>1, <2>1, <2>2 DEF Asked
  <2>6. OneChain' BY <1>1, <2>1 DEF IInv, OneChain, Aside
  <2> QED BY <1>1, <2>1, <2>3, <2>4, <2>5, <2>6 DEF IInv
<1>4. CASE ~open
  <2>1. op' = NoOp /\ loop' = Append(l, Broken(step))
    BY <1>4 DEF AsyncRead
  <2> DEFINE h == Broken(step)
  <2> HIDE DEF h
  <2>2. /\ loop' \in Seq(Completed)
        /\ \A K : Some(loop', K) <=> Some(l, K) \/ step \in K
        /\ \A K : Once(l, K) /\ ~(step \in K /\ Some(l, K)) => Once(loop', K)
    <3>1. h \in Completed /\ h.kind = step BY <1>2 DEF h
    <3>2. loop' = Append(l, h) BY <2>1 DEF h
    <3> HIDE DEF l
    <3> QED BY <1>1, <3>1, <3>2, AppendQueue
  <2>3. TypeOK'
    <3>1. loop' \in Seq(Handlers) BY <2>2 DEF Completed
    <3> QED BY <2>1, <3>1 DEF IInv, TypeOK, Aside, peer
  <2>4. OneReader' BY <1>1, <2>1, <2>2 DEF OneReader
  <2>5. Asked'
    <3>1. op'.step = "none" BY <2>1 DEF NoOp
    <3> QED BY <1>1, <2>2, <3>1 DEF Asked
  <2>6. OneChain' BY <1>1, <1>2, <2>2 DEF IInv, OneChain, Aside
  <2> QED BY <2>2, <2>3, <2>4, <2>5, <2>6 DEF IInv
<1> QED BY <1>3, <1>4

\* The bytes of a completed step, and the values of a digit.
LEMMA ArgFacts ==
    ASSUME IInv, loop # <<>>
    PROVE  /\ Arg \in Seq(Nat)
           /\ Running("fixed") /\ Ok => Arg[1] \in Nat /\ Arg[2] \in Nat
           /\ Running("length") /\ Ok => Arg[1] \in Nat
<1>1. Head(loop) \in Handlers /\ Complete(Head(loop))
  BY HeadFacts DEF Completed
<1>2. Arg \in Seq(Nat) BY <1>1 DEF Arg, Handlers
<1>3. Running("fixed") /\ Ok => Len(Arg) = 2
  BY <1>1 DEF Running, Ok, Arg, Complete
<1>4. Running("length") /\ Ok => Len(Arg) = 1
  BY <1>1 DEF Running, Ok, Arg, Complete
<1> HIDE DEF Arg, Ok, Running
<1>5. \A i \in 1 .. Len(Arg) : Arg[i] \in Nat BY <1>2, ElementOfSeq
<1> QED BY <1>2, <1>3, <1>4, <1>5

LEMMA DigitFacts ==
    ASSUME NEW b \in Nat
    PROVE  Digit(b) \in Nat /\ NewLength(b) \in Lengths
                            /\ NewLength(b).bytesRead = 1
<1>1. Digit(b) \in Nat BY BytesAssumption DEF Digit
<1> QED BY <1>1, BytesAssumption DEF NewLength, Lengths

LEMMA RefuseStep ==
    ASSUME IInv, loop # <<>>, Head(loop).kind \in Steps, Refuse, UNCHANGED Aside
    PROVE  IInv'
<1>1. header' \in Seq(Nat) /\ length' \in Lengths
  BY DEF Refuse, IInv, TypeOK
<1>2. Error \in Completed /\ Error.kind = "error"
  BY NewHandlers DEF IInv, TypeOK
<1> QED BY <1>1, <1>2, ReleaseStep DEF Refuse

\* The body is asked for, or the packet is complete.
LEMMA BodyStep ==
    ASSUME IInv, loop # <<>>, Head(loop).kind \in Steps,
           NEW h \in Seq(Nat), NEW n \in Nat, ReadPacketBody(h, n),
           UNCHANGED Aside, header' \in Seq(Nat), length' \in Lengths
    PROVE  IInv'
<1>1. CASE n = 0
  <2>1. Release(Packet(h)) BY <1>1 DEF ReadPacketBody
  <2>2. Packet(h) \in Completed /\ Packet(h).kind = "packet"
    BY NewHandlers DEF IInv, TypeOK
  <2> QED BY <2>1, <2>2, ReleaseStep
<1>2. CASE n # 0
  <2>1. UNCHANGED depth /\ AsyncRead("body", n, Tail(loop), open)
    BY <1>2 DEF ReadPacketBody
  <2> QED BY <1>2, <2>1, ReadOnStep DEF Steps
<1> QED BY <1>1, <1>2

LEMMA RunFixedFailedStep == IInv /\ RunFixedFailed => IInv'
BY RefuseStep DEF RunFixedFailed, Running, Steps

LEMMA RunFixedRefusedStep == IInv /\ RunFixedRefused => IInv'
BY RefuseStep DEF RunFixedRefused, Running, Steps

LEMMA RunFixedStep == IInv /\ RunFixed => IInv'
<1> SUFFICES ASSUME IInv, RunFixed PROVE IInv'
  OBVIOUS
<1>1. loop # <<>> /\ Head(loop).kind \in Steps /\ UNCHANGED Aside
  BY DEF RunFixed, Running, Steps
<1>2. Arg \in Seq(Nat) /\ Arg[1] \in Nat /\ Arg[2] \in Nat
  BY <1>1, ArgFacts DEF RunFixed
<1>3. header' \in Seq(Nat) /\ length' \in Lengths /\ length'.bytesRead = 1
  BY <1>2, DigitFacts DEF RunFixed, HeaderOf
<1>4. CASE Continues(Arg[2])
  <2>1. UNCHANGED depth /\ AsyncRead("length", 1, Tail(loop), open)
    BY <1>4 DEF RunFixed
  <2> QED BY <1>1, <1>3, <2>1, ReadOnStep DEF Steps
<1>5. CASE ~Continues(Arg[2])
  <2>1. ReadPacketBody(Arg, Digit(Arg[2]))
    BY <1>5 DEF RunFixed, HeaderOf
  <2>2. Digit(Arg[2]) \in Nat BY <1>2, DigitFacts
  <2> QED BY <1>1, <1>2, <1>3, <2>1, <2>2, BodyStep
<1> QED BY <1>4, <1>5

LEMMA RunLengthFailedStep == IInv /\ RunLengthFailed => IInv'
BY RefuseStep DEF RunLengthFailed, Running, Steps

\* A length byte is only read where there is room for it.
LEMMA AssembledFacts ==
    ASSUME IInv, Running("length"), Ok
    PROVE  /\ Arg[1] \in Nat
           /\ Assembled(length, Arg[1]) \in Lengths
           /\ Assembled(length, Arg[1]).remaining \in Nat
<1>1. loop # <<>> /\ Head(loop).kind = "length" BY DEF Running
<1>2. Arg[1] \in Nat BY <1>1, ArgFacts
<1>3. Digit(Arg[1]) \in Nat BY <1>2, DigitFacts
<1>4. length \in Lengths /\ length.bytesRead <= 4
  <2>1. loop \in Seq(Completed) BY DEF IInv
  <2>2. Len(loop) \in Nat /\ Len(loop) # 0 /\ Head(loop) = loop[1]
    BY <1>1, <2>1, LenProperties, EmptySeq, HeadTailProperties
  <2>3. Some(loop, {"length"}) BY <1>1, <2>2 DEF Some
  <2> QED BY <2>3 DEF IInv, TypeOK, Asked
<1>5. /\ length.bytesRead \in 1 .. 4 /\ length.multiplier \in Nat
      /\ length.remaining \in Nat
  BY <1>4 DEF Lengths
<1>6. length.multiplier * Radix \in Nat BY <1>5, BytesAssumption
<1>7. length.remaining + (Digit(Arg[1]) * length.multiplier) \in Nat
  BY <1>3, <1>5
<1> HIDE DEF Arg
<1> QED BY <1>2, <1>5, <1>6, <1>7 DEF Assembled, Lengths

LEMMA RunLengthRefusedStep == IInv /\ RunLengthRefused => IInv'
<1> SUFFICES ASSUME IInv, RunLengthRefused PROVE IInv'
  OBVIOUS
<1>1. /\ loop # <<>> /\ Head(loop).kind \in Steps /\ UNCHANGED Aside
      /\ Release(Error)
  BY DEF RunLengthRefused, Running, Steps
<1>2. length' \in Lengths BY AssembledFacts DEF RunLengthRefused
<1>3. header' \in Seq(Nat) BY DEF RunLengthRefused, IInv, TypeOK
<1>4. Error \in Completed /\ Error.kind = "error"
  BY NewHandlers DEF IInv, TypeOK
<1> QED BY <1>1, <1>2, <1>3, <1>4, ReleaseStep

LEMMA RunLengthStep == IInv /\ RunLength => IInv'
<1> SUFFICES ASSUME IInv, RunLength PROVE IInv'
  OBVIOUS
<1>1. loop # <<>> /\ Head(loop).kind \in Steps /\ UNCHANGED Aside
  BY DEF RunLength, Running, Steps
<1>2. /\ Arg[1] \in Nat /\ length' \in Lengths /\ length'.remaining \in Nat
  BY AssembledFacts DEF RunLength
<1>3. length'.bytesRead <= 4 BY <1>2 DEF RunLength, TooLong, Lengths
<1>4. header' \in Seq(Nat)
  <2>1. header' = Append(header, Arg[1]) BY DEF RunLength, Keep
  <2> QED BY <1>2, <2>1, AppendProperties DEF IInv, TypeOK
<1>5. CASE Continues(Arg[1])
  <2>1. UNCHANGED depth /\ AsyncRead("length", 1, Tail(loop), open)
    BY <1>5 DEF RunLength
  <2> QED BY <1>1, <1>2, <1>3, <1>4, <2>1, ReadOnStep DEF Steps
<1>6. CASE ~Continues(Arg[1])
  <2>1. ReadPacketBody(header', length'.remaining) BY <1>6 DEF RunLength
  <2> QED BY <1>1, <1>2, <1>4, <2>1, BodyStep
<1> QED BY <1>5, <1>6

LEMMA RunBodyFailedStep == IInv /\ RunBodyFailed => IInv'
BY RefuseStep DEF RunBodyFailed, Running, Steps

LEMMA RunBodyStep == IInv /\ RunBody => IInv'
<1> SUFFICES ASSUME IInv, RunBody PROVE IInv'
  OBVIOUS
<1>1. loop # <<>> /\ Head(loop).kind \in Steps /\ UNCHANGED Aside
  BY DEF RunBody, Running, Steps
<1>2. header \in Seq(Nat) /\ length \in Lengths BY DEF IInv, TypeOK
<1>3. header \o Arg \in Seq(Nat) BY <1>1, <1>2, ArgFacts, ConcatProperties
<1>4. /\ Packet(header \o Arg) \in Completed
      /\ Packet(header \o Arg).kind = "packet"
  BY <1>3, NewHandlers DEF IInv, TypeOK
<1>5. /\ Release(Packet(header \o Arg)) /\ header' \in Seq(Nat)
      /\ length' \in Lengths
  BY <1>2 DEF RunBody
<1> QED BY <1>1, <1>4, <1>5, ReleaseStep
-----------------------------------------------------------------------------
(* The owner *)

\* The queue behind a handler that is neither of the reader nor of the chain.
LEMMA OtherHead ==
    ASSUME IInv, loop # <<>>, Head(loop).kind \in {"packet", "error"}
    PROVE  /\ Tail(loop) \in Seq(Completed)
           /\ Once(Tail(loop), Steps) /\ Once(Tail(loop), ChainKinds)
           /\ \A K \in {Steps, ChainKinds, Opening, {"length"}} :
                 Some(Tail(loop), K) <=> Some(loop, K)
BY HeadFacts DEF Steps, ChainKinds, Opening

LEMMA CloseStep ==
    ASSUME IInv, NEW rest \in Seq(Completed), Once(rest, Steps),
           Once(rest, ChainKinds),
           \A K \in {Steps, ChainKinds, Opening, {"length"}} :
               Some(rest, K) <=> Some(loop, K),
           CloseSocket(rest), closed' \in BOOLEAN
    PROVE  IInv'
<1>1. /\ op' = NoOp /\ op'.step = "none" /\ open' = FALSE /\ wire' = <<>>
      /\ UNCHANGED <<depth, header, length, dial, stream, ended, sent, got>>
  BY DEF CloseSocket, NoOp
<1>2. wire' \in Seq(Nat) BY <1>1, EmptySeq
<1>3. CASE op = NoOp
  <2>1. loop' = rest BY <1>3 DEF CloseSocket
  <2>2. loop' \in Seq(Handlers) BY <2>1 DEF Completed
  <2>3. TypeOK' BY <1>1, <1>2, <2>2 DEF IInv, TypeOK
  <2>4. OneReader' BY <1>1, <1>3, <2>1 DEF IInv, OneReader
  <2>5. Asked' BY <1>1, <2>1 DEF IInv, Asked
  <2>6. OneChain' BY <1>1, <2>1 DEF IInv, OneChain
  <2> QED BY <2>1, <2>3, <2>4, <2>5, <2>6 DEF IInv
<1>4. CASE op # NoOp
  <2> DEFINE h == Broken(op.step)
  <2>1. loop' = Append(rest, h) BY <1>4 DEF CloseSocket
  <2>2. op.step \in Steps BY <1>4 DEF IInv, TypeOK
  <2>3. h \in Completed /\ h.kind = op.step
    BY <2>2, NewHandlers DEF IInv, TypeOK
  <2> HIDE DEF h
  <2>4. /\ loop' \in Seq(Completed)
        /\ \A K : Some(loop', K) <=> Some(rest, K) \/ h.kind \in K
        /\ \A K : Once(rest, K) /\ ~(h.kind \in K /\ Some(rest, K))
                     => Once(loop', K)
    BY <2>1, <2>3, AppendQueue
  <2>5. h.kind \in Steps /\ h.kind \notin ChainKinds /\ h.kind \notin Opening
    BY <2>2, <2>3 DEF Steps, ChainKinds, Opening
  <2>6. loop' \in Seq(Handlers) BY <2>4 DEF Completed
  <2>7. TypeOK' BY <1>1, <1>2, <2>6 DEF IInv, TypeOK
  <2>8. depth = 1 /\ ~Some(rest, Steps) BY <1>4 DEF IInv, OneReader
  <2>9. OneReader' BY <1>1, <2>4, <2>5, <2>8 DEF OneReader
  <2>10. Asked'
    <3>1. Some(loop', {"length"}) => length.bytesRead <= 4
      BY <2>3, <2>4 DEF IInv, Asked
    <3> QED BY <1>1, <3>1 DEF Asked
  <2>11. OneChain' BY <1>1, <2>4, <2>5 DEF IInv, OneChain
  <2> QED BY <2>4, <2>7, <2>9, <2>10, <2>11 DEF IInv
<1> QED BY <1>3, <1>4

LEMMA RunErrorStep == IInv /\ RunError => IInv'
<1> SUFFICES ASSUME IInv, RunError PROVE IInv'
  OBVIOUS
<1>1. loop # <<>> /\ Head(loop).kind = "error" /\ CloseSocket(Tail(loop))
      /\ closed' = TRUE
  BY DEF RunError, Running
<1> QED BY <1>1, OtherHead, CloseStep

LEMMA OwnerCloseStep == IInv /\ (OwnerClose \/ OwnerAbandon) => IInv'
<1> SUFFICES ASSUME IInv, OwnerClose \/ OwnerAbandon PROVE IInv'
  OBVIOUS
<1>1. CloseSocket(loop) /\ closed' \in BOOLEAN
  BY DEF OwnerClose, OwnerAbandon
<1>2. loop \in Seq(Completed) /\ Once(loop, Steps) /\ Once(loop, ChainKinds)
  BY DEF IInv, OneReader, OneChain
<1> QED BY <1>1, <1>2, CloseStep

\* The handler that ran leaves the reader alone and queues none.
LEMMA QuietStep ==
    ASSUME IInv, NEW rest \in Seq(Completed), Once(rest, Steps),
           Some(rest, Steps) <=> Some(loop, Steps),
           Some(rest, {"length"}) <=> Some(loop, {"length"}),
           loop' = rest, UNCHANGED reader, TypeOK', OneChain'
    PROVE  IInv'
BY DEF IInv, OneReader, Asked, reader

LEMMA RunErrorIgnoredStep == IInv /\ RunErrorIgnored => IInv'
<1> SUFFICES ASSUME IInv, RunErrorIgnored PROVE IInv'
  OBVIOUS
<1>1. /\ loop # <<>> /\ Head(loop).kind = "error" /\ loop' = Tail(loop)
      /\ UNCHANGED <<reader, open, closed, dial, stream, peer, got>>
  BY DEF RunErrorIgnored, Running
<1>2. loop' \in Seq(Completed) BY <1>1, OtherHead
<1>3. TypeOK'
  <2>1. loop' \in Seq(Handlers) BY <1>2 DEF Completed
  <2> QED BY <1>1, <2>1 DEF IInv, TypeOK, reader, peer
<1>4. OneChain' BY <1>1, OtherHead DEF IInv, OneChain
<1> QED BY <1>1, <1>3, <1>4, OtherHead, QuietStep

\* The next packet is asked for behind the queue rest.
LEMMA AskStep ==
    ASSUME IInv, NEW rest \in Seq(Completed), Once(rest, Steps),
           Once(rest, ChainKinds),
           Some(rest, Steps) <=> Some(loop, Steps),
           Some(rest, {"length"}) <=> Some(loop, {"length"}),
           NEW isOpen \in BOOLEAN, AsyncReadPacket(rest, isOpen),
           UNCHANGED <<header, length>>
    PROVE  /\ loop' \in Seq(Completed) /\ depth' \in {0, 1}
           /\ op' \in {NoOp} \cup [step : Steps, want : Nat \ {0}]
           /\ OneReader' /\ Asked'
           /\ Once(loop', ChainKinds)
           /\ Some(loop', ChainKinds) <=> Some(rest, ChainKinds)
           /\ Some(loop', Opening) <=> Some(rest, Opening)
<1>1. CASE depth > 0
  <2>1. UNCHANGED <<depth, op>> /\ loop' = rest
    BY <1>1 DEF AsyncReadPacket
  <2> QED BY <2>1 DEF IInv, TypeOK, OneReader, Asked
<1>2. CASE ~(depth > 0)
  <2>1. depth = 0 /\ op = NoOp /\ ~Some(rest, Steps) /\ ~Some(rest, {"length"})
    <3>1. depth = 0 BY <1>2 DEF IInv, TypeOK
    <3>2. ~Some(rest, Steps) /\ op = NoOp BY <3>1 DEF IInv, OneReader
    <3>3. Some(rest, {"length"}) => Some(rest, Steps) BY SomeOfMore DEF Steps
    <3> QED BY <3>1, <3>2, <3>3
  <2>2. depth' = 1 /\ AsyncRead("fixed", 2, rest, isOpen)
    BY <1>2 DEF AsyncReadPacket
  <2>3. CASE isOpen
    <3>1. op' = [step |-> "fixed", want |-> 2] /\ loop' = rest
      BY <2>2, <2>3 DEF AsyncRead
    <3>2. op' # NoOp /\ op'.step = "fixed" /\ op'.want = 2
          /\ op' \in [step : Steps, want : Nat \ {0}]
      BY <3>1 DEF NoOp, Steps
    <3> QED BY <2>1, <2>2, <3>1, <3>2 DEF OneReader, Asked
  <2>4. CASE ~isOpen
    <3> DEFINE h == Broken("fixed")
    <3>1. op' = NoOp /\ loop' = Append(rest, h)
      BY <2>2, <2>4 DEF AsyncRead
    <3>2. h \in Completed /\ h.kind = "fixed"
      BY NewHandlers DEF IInv, TypeOK, Steps
    <3> HIDE DEF h
    <3>3. /\ loop' \in Seq(Completed)
          /\ \A K : Some(loop', K) <=> Some(rest, K) \/ h.kind \in K
          /\ \A K : Once(rest, K) /\ ~(h.kind \in K /\ Some(rest, K))
                       => Once(loop', K)
      BY <3>1, <3>2, AppendQueue
    <3>4. /\ h.kind \in Steps /\ h.kind \notin {"length"}
          /\ h.kind \notin ChainKinds /\ h.kind \notin Opening
      BY <3>2 DEF Steps, ChainKinds, Opening
    <3>5. op'.step = "none" BY <3>1 DEF NoOp
    <3>6. OneReader' BY <2>1, <2>2, <3>1, <3>3, <3>4 DEF OneReader
    <3>7. Asked' BY <2>1, <3>3, <3>4, <3>5 DEF Asked
    <3> QED BY <2>2, <3>1, <3>3, <3>4, <3>6, <3>7
  <2> QED BY <2>3, <2>4
<1> QED BY <1>1, <1>2

LEMMA RunPacketStep == IInv /\ RunPacket => IInv'
<1> SUFFICES ASSUME IInv, RunPacket PROVE IInv'
  OBVIOUS
<1>1. /\ loop # <<>> /\ Head(loop).kind = "packet"
      /\ got' = Append(got, Arg) /\ AsyncReadPacket(Tail(loop), open)
      /\ UNCHANGED <<header, length, open, closed, dial, stream, peer>>
  BY DEF RunPacket, Running
<1>2. open \in BOOLEAN BY DEF IInv, TypeOK
<1>3. /\ loop' \in Seq(Completed) /\ depth' \in {0, 1}
      /\ op' \in {NoOp} \cup [step : Steps, want : Nat \ {0}]
      /\ OneReader' /\ Asked'
      /\ Once(loop', ChainKinds)
      /\ Some(loop', ChainKinds) <=> Some(Tail(loop), ChainKinds)
      /\ Some(loop', Opening) <=> Some(Tail(loop), Opening)
  BY <1>1, <1>2, OtherHead, AskStep
<1>4. TypeOK'
  <2>1. got' \in Seq(Seq(Nat))
    BY <1>1, ArgFacts, AppendProperties DEF IInv, TypeOK
  <2>2. loop' \in Seq(Handlers) BY <1>3 DEF Completed
  <2> QED BY <1>1, <1>3, <2>1, <2>2 DEF IInv, TypeOK, peer
<1>5. OneChain' BY <1>1, <1>3, OtherHead DEF IInv, OneChain
<1> QED BY <1>3, <1>4, <1>5 DEF IInv
-----------------------------------------------------------------------------
(* The connect chain *)

\* The queue behind a handler of the chain.
LEMMA ChainHead ==
    ASSUME IInv, loop # <<>>, Head(loop).kind \in ChainKinds
    PROVE  /\ Tail(loop) \in Seq(Completed)
           /\ Once(Tail(loop), Steps) /\ Once(Tail(loop), ChainKinds)
           /\ Some(Tail(loop), Steps) <=> Some(loop, Steps)
           /\ Some(Tail(loop), {"length"}) <=> Some(loop, {"length"})
           /\ ~Some(Tail(loop), ChainKinds) /\ ~Some(Tail(loop), Opening)
           /\ dial = "queued"
           /\ Head(loop).kind \in Opening => stream < Len(Traffic)
<1>1. Some(Tail(loop), Opening) => Some(Tail(loop), ChainKinds)
  BY SomeOfMore DEF Opening, ChainKinds
<1> QED BY <1>1, HeadFacts DEF Steps, ChainKinds, Opening

\* A step of the chain that only moves it on.
LEMMA ChainStep ==
    ASSUME IInv, loop # <<>>, Head(loop).kind \in ChainKinds,
           loop' = Tail(loop), UNCHANGED reader, TypeOK',
           dial' # "queued", stream' <= Len(Traffic), open' => stream' >= 1,
           dial' \in {"resolving", "connecting"} => stream' < Len(Traffic)
    PROVE  IInv'
<1>1. OneChain' BY ChainHead DEF OneChain
<1> QED BY <1>1, ChainHead, QuietStep

LEMMA ChainType ==
    ASSUME IInv, loop # <<>>, Head(loop).kind \in ChainKinds, loop' = Tail(loop)
    PROVE  loop' \in Seq(Handlers)
BY ChainHead DEF Completed

LEMMA RunConnectStep == IInv /\ RunConnect => IInv'
<1> SUFFICES ASSUME IInv, RunConnect PROVE IInv'
  OBVIOUS
<1>1. /\ loop # <<>> /\ Head(loop).kind = "connect" /\ loop' = Tail(loop)
      /\ closed' = FALSE /\ dial' = "resolving"
      /\ UNCHANGED <<reader, open, stream, peer, got>>
  BY DEF RunConnect, Running
<1>2. Head(loop).kind \in ChainKinds /\ Head(loop).kind \in Opening
  BY <1>1 DEF ChainKinds, Opening
<1>3. TypeOK' BY <1>1, <1>2, ChainType DEF IInv, TypeOK, reader, peer
<1>4. stream < Len(Traffic) /\ stream <= Len(Traffic) /\ (open => stream >= 1)
  BY <1>1, <1>2, ChainHead DEF IInv, OneChain
<1> QED BY <1>1, <1>2, <1>3, <1>4, ChainStep

LEMMA RunResolvedStep == IInv /\ RunResolved => IInv'
<1> SUFFICES ASSUME IInv, RunResolved PROVE IInv'
  OBVIOUS
<1>1. /\ loop # <<>> /\ Head(loop).kind = "resolved" /\ loop' = Tail(loop)
      /\ dial' = "connecting"
      /\ UNCHANGED <<reader, open, closed, stream, peer, got>>
  BY DEF RunResolved, Running
<1>2. Head(loop).kind \in ChainKinds /\ Head(loop).kind \in Opening
  BY <1>1 DEF ChainKinds, Opening
<1>3. TypeOK' BY <1>1, <1>2, ChainType DEF IInv, TypeOK, reader, peer
<1>4. stream < Len(Traffic) /\ stream <= Len(Traffic) /\ (open => stream >= 1)
  BY <1>1, <1>2, ChainHead DEF IInv, OneChain
<1> QED BY <1>1, <1>2, <1>3, <1>4, ChainStep

LEMMA RunConnectedLateStep == IInv /\ RunConnectedLate => IInv'
<1> SUFFICES ASSUME IInv, RunConnectedLate PROVE IInv'
  OBVIOUS
<1>1. /\ loop # <<>> /\ Head(loop).kind = "connected" /\ loop' = Tail(loop)
      /\ dial' = "none"
      /\ UNCHANGED <<reader, open, closed, stream, peer, got>>
  BY DEF RunConnectedLate, Running
<1>2. Head(loop).kind \in ChainKinds BY <1>1 DEF ChainKinds
<1>3. TypeOK' BY <1>1, <1>2, ChainType DEF IInv, TypeOK, reader, peer
<1>4. stream <= Len(Traffic) /\ (open => stream >= 1)
  BY DEF IInv, OneChain
<1> QED BY <1>1, <1>2, <1>3, <1>4, ChainStep

LEMMA RunConnectedStep == IInv /\ RunConnected => IInv'
<1> SUFFICES ASSUME IInv, RunConnected PROVE IInv'
  OBVIOUS
<1>1. /\ loop # <<>> /\ Head(loop).kind = "connected" /\ loop' = Tail(loop)
      /\ dial' = "writing" /\ open' = TRUE /\ stream' = stream + 1
      /\ wire' = <<>> /\ ended' = FALSE /\ sent' = <<>> /\ got' = <<>>
      /\ UNCHANGED <<reader, closed>>
  BY DEF RunConnected, Running
<1>2. Head(loop).kind \in ChainKinds /\ Head(loop).kind \in Opening
  BY <1>1 DEF ChainKinds, Opening
<1>3. stream \in Nat /\ stream < Len(Traffic) /\ Len(Traffic) \in Nat
  BY <1>1, <1>2, ChainHead, FramingAssumption, LenProperties DEF IInv, TypeOK
<1>4. wire' \in Seq(Nat) /\ sent' \in Seq(Seq(Nat)) /\ got' \in Seq(Seq(Nat))
  BY <1>1, EmptySeq
<1>5. TypeOK'
  <2>1. loop' \in Seq(Handlers) BY <1>1, <1>2, ChainType
  <2>2. open' \in BOOLEAN /\ ended' \in BOOLEAN BY <1>1
  <2>3. /\ stream' \in Nat
        /\ dial' \in {"none", "queued", "resolving", "connecting", "writing"}
    BY <1>1, <1>3
  <2>4. /\ depth' \in {0, 1} /\ header' \in Seq(Nat) /\ length' \in Lengths
        /\ op' \in {NoOp} \cup [step : Steps, want : Nat \ {0}]
        /\ closed' \in BOOLEAN
    BY <1>1 DEF IInv, TypeOK, reader
  <2> QED BY <1>4, <2>1, <2>2, <2>3, <2>4 DEF TypeOK
<1>6. stream' <= Len(Traffic) /\ stream' >= 1 BY <1>1, <1>3
<1> QED BY <1>1, <1>2, <1>5, <1>6, ChainStep

LEMMA RunWrittenStep == IInv /\ RunWritten => IInv'
<1> SUFFICES ASSUME IInv, RunWritten PROVE IInv'
  OBVIOUS
<1>1. /\ loop # <<>> /\ Head(loop).kind \in ChainKinds /\ dial' = "none"
      /\ UNCHANGED <<header, length, open, closed, stream, peer, got>>
  BY DEF RunWritten, Running, ChainKinds
<1>2. stream <= Len(Traffic) /\ (open => stream >= 1)
  BY DEF IInv, OneChain
<1>3. CASE open
  <2>1. AsyncReadPacket(Tail(loop), TRUE) BY <1>3 DEF RunWritten
  <2>2. /\ loop' \in Seq(Completed) /\ depth' \in {0, 1}
        /\ op' \in {NoOp} \cup [step : Steps, want : Nat \ {0}]
        /\ OneReader' /\ Asked'
        /\ Once(loop', ChainKinds)
        /\ Some(loop', ChainKinds) <=> Some(Tail(loop), ChainKinds)
        /\ Some(loop', Opening) <=> Some(Tail(loop), Opening)
    BY <1>1, <2>1, ChainHead, AskStep
  <2>3. loop' \in Seq(Handlers) BY <2>2 DEF Completed
  <2>4. TypeOK' BY <1>1, <2>2, <2>3 DEF IInv, TypeOK, peer
  <2>5. OneChain' BY <1>1, <1>2, <2>2, ChainHead DEF OneChain
  <2> QED BY <2>2, <2>4, <2>5 DEF IInv
<1>4. CASE ~open
  <2>1. UNCHANGED reader /\ loop' = Tail(loop)
    BY <1>1, <1>4 DEF RunWritten, reader
  <2>2. TypeOK' BY <1>1, <2>1, ChainType DEF IInv, TypeOK, reader, peer
  <2> QED BY <1>1, <1>2, <2>1, <2>2, ChainStep
<1> QED BY <1>3, <1>4

\* A handler of the chain is queued when none is.
LEMMA ChainQueued ==
    ASSUME IInv, NEW k \in ChainKinds, dial # "queued", dial' = "queued",
           loop' = Append(loop, Chain(k)),
           UNCHANGED <<reader, open, stream, peer, got>>, closed' \in BOOLEAN,
           k \in Opening => stream < Len(Traffic)
    PROVE  IInv'
<1> DEFINE h == Chain(k)
<1>1. h \in Completed /\ h.kind = k BY NewHandlers DEF IInv, TypeOK
<1>2. loop' = Append(loop, h) /\ loop \in Seq(Completed) BY DEF IInv
<1> HIDE DEF h
<1>3. /\ loop' \in Seq(Completed)
      /\ \A K : Some(loop', K) <=> Some(loop, K) \/ h.kind \in K
      /\ \A K : Once(loop, K) /\ ~(h.kind \in K /\ Some(loop, K))
                   => Once(loop', K)
  BY <1>1, <1>2, AppendQueue
<1>4. h.kind \notin Steps /\ h.kind \notin {"length"} /\ h.kind \in ChainKinds
  BY <1>1 DEF Steps, ChainKinds
<1>5. ~Some(loop, ChainKinds) /\ ~Some(loop, Opening)
  <2>1. ~Some(loop, ChainKinds) BY DEF IInv, OneChain
  <2>2. Some(loop, Opening) => Some(loop, ChainKinds)
    BY SomeOfMore DEF Opening, ChainKinds
  <2> QED BY <2>1, <2>2
<1>6. loop' \in Seq(Handlers) BY <1>3 DEF Completed
<1>7. TypeOK' BY <1>6 DEF IInv, TypeOK, reader, peer
<1>8. OneReader' BY <1>3, <1>4 DEF IInv, OneReader, reader
<1>9. Asked' BY <1>3, <1>4 DEF IInv, Asked, reader
<1>10. OneChain' BY <1>1, <1>3, <1>4, <1>5 DEF IInv, OneChain
<1> QED BY <1>3, <1>7, <1>8, <1>9, <1>10 DEF IInv

LEMMA AppConnectStep == IInv /\ AppConnect => IInv'
<1> SUFFICES ASSUME IInv, AppConnect PROVE IInv'
  OBVIOUS
<1>1. /\ dial = "none" /\ dial' = "queued" /\ stream < Len(Traffic)
      /\ loop' = Append(loop, Chain("connect"))
      /\ UNCHANGED <<reader, open, closed, stream, peer, got>>
  BY DEF AppConnect
<1>2. closed' \in BOOLEAN BY <1>1 DEF IInv, TypeOK
<1> QED BY <1>1, <1>2, ChainQueued DEF ChainKinds

LEMMA DialledStep == IInv /\ Dialled => IInv'
<1> SUFFICES ASSUME IInv, Dialled PROVE IInv'
  OBVIOUS
<1> DEFINE k == CASE dial = "resolving"  -> "resolved"
                  [] dial = "connecting" -> "connected"
                  [] dial = "writing"    -> "written"
<1>1. /\ dial \in {"resolving", "connecting", "writing"} /\ dial' = "queued"
      /\ loop' = Append(loop, Chain(k))
      /\ UNCHANGED <<reader, open, closed, stream, peer, got>>
  BY DEF Dialled
<1>2. k \in ChainKinds /\ (k \in Opening => dial \in {"resolving", "connecting"})
  BY <1>1 DEF ChainKinds, Opening
<1>3. k \in Opening => stream < Len(Traffic) BY <1>2 DEF IInv, OneChain
<1>4. closed' \in BOOLEAN BY <1>1 DEF IInv, TypeOK
<1> HIDE DEF k
<1> QED BY <1>1, <1>2, <1>3, <1>4, ChainQueued
-----------------------------------------------------------------------------
(* The peer *)

LEMMA PeerStep ==
    ASSUME IInv, UNCHANGED <<reader, loop, open, closed, dial, stream, got>>,
           wire' \in Seq(Nat), sent' \in Seq(Seq(Nat)), ended' \in BOOLEAN
    PROVE  IInv'
BY DEF IInv, TypeOK, OneReader, Asked, OneChain, reader

LEMMA PeerSendsStep == IInv /\ PeerSends => IInv'
<1> SUFFICES ASSUME IInv, PeerSends PROVE IInv'
  OBVIOUS
<1>1. PICK t \in Traffic[stream] :
          /\ Len(sent) < Len(t)
          /\ sent' = Append(sent, t[Len(sent) + 1])
          /\ wire' = wire \o t[Len(sent) + 1]
  BY DEF PeerSends
<1>2. /\ UNCHANGED <<reader, loop, open, closed, dial, stream, ended, got>>
      /\ open
  BY DEF PeerSends
<1>3. stream \in Nat /\ stream >= 1 /\ stream <= Len(Traffic)
  BY <1>2 DEF IInv, TypeOK, OneChain
<1>4. t \in Seq(Seq(Nat))
  <2>1. stream \in 1 .. Len(Traffic) /\ Traffic \in Seq(SUBSET Seq(Seq(Nat)))
    BY <1>3, FramingAssumption, LenProperties
  <2>2. Traffic[stream] \in SUBSET Seq(Seq(Nat)) BY <2>1, ElementOfSeq
  <2> QED BY <2>2
<1>5. wire \in Seq(Nat) /\ sent \in Seq(Seq(Nat)) /\ ended \in BOOLEAN
  BY DEF IInv, TypeOK
<1>6. t[Len(sent) + 1] \in Seq(Nat)
  <2>1. Len(sent) \in Nat /\ Len(t) \in Nat BY <1>4, <1>5, LenProperties
  <2>2. Len(sent) + 1 \in 1 .. Len(t) BY <1>1, <2>1
  <2> QED BY <1>4, <2>2, ElementOfSeq
<1>7. wire' \in Seq(Nat) /\ sent' \in Seq(Seq(Nat))
  BY <1>1, <1>5, <1>6, ConcatProperties, AppendProperties
<1> QED BY <1>2, <1>5, <1>7, PeerStep

LEMMA PeerEndsStep == IInv /\ PeerEnds => IInv'
<1> SUFFICES ASSUME IInv, PeerEnds PROVE IInv'
  OBVIOUS
<1>1. PICK n \in 0 .. Len(wire) : wire' = SubSeq(wire, 1, n) BY DEF PeerEnds
<1>2. /\ UNCHANGED <<reader, loop, open, closed, dial, stream, sent, got>>
      /\ ended' = TRUE
  BY DEF PeerEnds
<1>3. wire \in Seq(Nat) /\ sent \in Seq(Seq(Nat)) BY DEF IInv, TypeOK
<1>4. wire' \in Seq(Nat)
  BY <1>1, <1>3, SubSeqProperties, LenProperties
<1> QED BY <1>2, <1>3, <1>4, PeerStep

LEMMA ReadDoneStep == IInv /\ ReadDone => IInv'
<1> SUFFICES ASSUME IInv, ReadDone PROVE IInv'
  OBVIOUS
<1>1. /\ op # NoOp /\ op' = NoOp
      /\ UNCHANGED <<depth, header, length, open, closed, dial, stream, ended,
                     sent, got>>
  BY DEF ReadDone
<1>2. /\ op.step \in Steps /\ op.want \in Nat \ {0} /\ wire \in Seq(Nat)
      /\ stream \in Nat /\ loop \in Seq(Completed)
  BY <1>1 DEF IInv, TypeOK
<1>3. PICK h \in Completed : /\ loop' = Append(loop, h) /\ h.kind = op.step
                             /\ wire' \in Seq(Nat)
  <2>1. CASE /\ Len(wire) >= op.want
             /\ wire' = SubSeq(wire, op.want + 1, Len(wire))
             /\ loop' = Append(loop, Handler(op.step, TRUE,
                                             SubSeq(wire, 1, op.want)))
    <3> DEFINE b == SubSeq(wire, 1, op.want)
    <3>1. Len(wire) \in Nat BY <1>2, LenProperties
    <3>2. b \in Seq(Nat) /\ Len(b) = op.want
      <4>1. op.want \in Int /\ 1 \in Int /\ 1 <= op.want
            /\ \A i \in 1 .. op.want : wire[i] \in Nat
        BY <1>2, <2>1, <3>1
      <4>2. /\ SubSeq(wire, 1, op.want) \in Seq(Nat)
            /\ Len(SubSeq(wire, 1, op.want)) = op.want - 1 + 1
        BY <4>1, SubSeqProperties
      <4> QED BY <4>1, <4>2
    <3>3. wire' \in Seq(Nat)
      <4>1. op.want + 1 \in Int /\ Len(wire) \in Int
            /\ \A i \in op.want + 1 .. Len(wire) : wire[i] \in Nat
        BY <1>2, <2>1, <3>1
      <4>2. SubSeq(wire, op.want + 1, Len(wire)) \in Seq(Nat)
        BY <4>1, SubSeqProperties
      <4> QED BY <2>1, <4>2
    <3>4. /\ op.step = "fixed" => Len(b) = 2
          /\ op.step = "length" => Len(b) = 1
      BY <3>2 DEF IInv, Asked
    <3> HIDE DEF b
    <3>5. /\ Handler(op.step, TRUE, b) \in Completed
          /\ Handler(op.step, TRUE, b).kind = op.step
      BY <1>2, <3>2, <3>4, NewHandlers
    <3> QED BY <2>1, <3>3, <3>5 DEF b
  <2>2. CASE /\ ended /\ Len(wire) < op.want
             /\ wire' = <<>>
             /\ loop' = Append(loop, Broken(op.step))
    <3>1. wire' \in Seq(Nat) BY <2>2, EmptySeq
    <3>2. Broken(op.step) \in Completed /\ Broken(op.step).kind = op.step
      BY <1>2, NewHandlers
    <3> QED BY <2>2, <3>1, <3>2
  <2> QED BY <2>1, <2>2 DEF ReadDone
<1>4. /\ loop' \in Seq(Completed)
      /\ \A K : Some(loop', K) <=> Some(loop, K) \/ h.kind \in K
      /\ \A K : Once(loop, K) /\ ~(h.kind \in K /\ Some(loop, K))
                   => Once(loop', K)
  BY <1>2, <1>3, AppendQueue
<1>5. h.kind \in Steps /\ h.kind \notin ChainKinds /\ h.kind \notin Opening
  BY <1>2, <1>3 DEF Steps, ChainKinds, Opening
<1>6. TypeOK'
  <2>1. loop' \in Seq(Handlers) BY <1>4 DEF Completed
  <2> QED BY <1>1, <1>3, <2>1 DEF IInv, TypeOK
<1>7. OneReader'
  <2>1. depth = 1 /\ ~Some(loop, Steps) /\ Once(loop, Steps)
    BY <1>1 DEF IInv, OneReader
  <2> QED BY <1>1, <1>4, <1>5, <2>1 DEF OneReader
<1>8. Asked'
  <2>1. op'.step = "none" BY <1>1 DEF NoOp
  <2>2. Some(loop', {"length"}) => length.bytesRead <= 4
    BY <1>3, <1>4 DEF IInv, Asked
  <2> QED BY <1>1, <2>1, <2>2 DEF Asked
<1>9. OneChain' BY <1>1, <1>4, <1>5 DEF IInv, OneChain
<1> QED BY <1>4, <1>6, <1>7, <1>8, <1>9 DEF IInv
-----------------------------------------------------------------------------
(* The theorems *)

LEMMA InitIInv == Init => IInv
<1> SUFFICES ASSUME Init PROVE IInv
  OBVIOUS
<1>1. /\ depth = 0 /\ header = <<>> /\ length = NewLength(0) /\ op = NoOp
      /\ loop = <<>> /\ open = FALSE /\ closed = TRUE /\ dial = "none"
      /\ stream = 0 /\ wire = <<>> /\ ended = FALSE /\ sent = <<>> /\ got = <<>>
  BY DEF Init
<1>2. /\ header \in Seq(Nat) /\ wire \in Seq(Nat) /\ sent \in Seq(Seq(Nat))
      /\ got \in Seq(Seq(Nat)) /\ loop \in Seq(Handlers)
      /\ loop \in Seq(Completed) /\ Len(loop) = 0
  BY <1>1, EmptySeq
<1>3. length \in Lengths BY <1>1, DigitFacts
<1>4. TypeOK BY <1>1, <1>2, <1>3 DEF TypeOK
<1>5. \A K : ~Some(loop, K) /\ Once(loop, K) BY <1>2 DEF Some, Once
<1>6. OneReader BY <1>1, <1>5 DEF OneReader
<1>7. Asked
  <2>1. op.step = "none" BY <1>1 DEF NoOp
  <2> QED BY <1>5, <2>1 DEF Asked
<1>8. OneChain
  <2>1. Len(Traffic) \in Nat BY FramingAssumption, LenProperties
  <2> QED BY <1>1, <1>5, <2>1 DEF OneChain
<1> QED BY <1>2, <1>4, <1>6, <1>7, <1>8 DEF IInv

LEMMA StutterStep == IInv /\ UNCHANGED vars => IInv'
BY DEF IInv, TypeOK, OneReader, Asked, OneChain, vars, reader, peer

LEMMA NextIInv == IInv /\ [Next]_vars => IInv'
<1> SUFFICES ASSUME IInv, [Next]_vars PROVE IInv'
  OBVIOUS
<1>1. CASE IoThread
  <2>1. CASE RunFixedFailed \/ RunFixedRefused \/ RunFixed
    BY <2>1, RunFixedFailedStep, RunFixedRefusedStep, RunFixedStep
  <2>2. CASE RunLengthFailed \/ RunLengthRefused \/ RunLength
    BY <2>2, RunLengthFailedStep, RunLengthRefusedStep, RunLengthStep
  <2>3. CASE RunBodyFailed \/ RunBody
    BY <2>3, RunBodyFailedStep, RunBodyStep
  <2>4. CASE RunPacket \/ RunErrorIgnored \/ RunError
    BY <2>4, RunPacketStep, RunErrorIgnoredStep, RunErrorStep
  <2>5. CASE RunConnect \/ RunResolved \/ RunConnectedLate \/ RunConnected
    BY <2>5, RunConnectStep, RunResolvedStep, RunConnectedLateStep,
       RunConnectedStep
  <2>6. CASE RunWritten BY <2>6, RunWrittenStep
  <2> QED BY <1>1, <2>1, <2>2, <2>3, <2>4, <2>5, <2>6 DEF IoThread
<1>2. CASE OwnerClose \/ OwnerAbandon BY <1>2, OwnerCloseStep
<1>3. CASE AppConnect \/ Dialled BY <1>3, AppConnectStep, DialledStep
<1>4. CASE PeerSends \/ PeerEnds \/ ReadDone
  BY <1>4, PeerSendsStep, PeerEndsStep, ReadDoneStep
<1>5. CASE UNCHANGED vars BY <1>5, StutterStep
<1> QED BY <1>1, <1>2, <1>3, <1>4, <1>5 DEF Next

\* The inductive invariant holds of every reachable state.
THEOREM Invariance == Spec => []IInv
BY InitIInv, NextIInv, PTL DEF Spec

\* Every variable stays in its type: whatever a peer sends, a length is refused
\* with its fifth byte (connection.hpp:211-215).
THEOREM TypeCorrect == Spec => []TypeOK
<1>1. IInv => TypeOK BY DEF IInv
<1> QED BY <1>1, Invariance, PTL

\* reading_depth_ is 1 exactly while one step of the reader is outstanding or has
\* its completion queued (connection.hpp:148): it is given back on every path, and
\* there are never two readers on the socket.
THEOREM ReaderIsOne == Spec => []OneReader
<1>1. IInv => OneReader BY DEF IInv
<1> QED BY <1>1, Invariance, PTL
-----------------------------------------------------------------------------
(* What well-formed frames become *)

Elements(l) == {l[i] : i \in 1 .. Len(l)}
Misses(l, S) == Elements(l) \cap S = {}
Behind(l, kind, S) ==
    \A i, j \in 1 .. Len(l) : i < j /\ l[i].kind = kind => l[j] \notin S

\* How far a handler is from the end of the reader: a step that has its bytes
\* leads to a packet, a packet to the next step, a failed step to an error.
Busy == Steps \cup {"packet"}
Working == {h \in Completed : h.kind \in Busy}
Given == {h \in Completed : h.kind = "packet" \/ (h.kind \in Steps /\ h.ok)}
Going == {h \in Completed : h.kind \in Steps /\ h.ok}

\* The reader of a stream that ended takes three handlers to come to rest, the
\* connect chain of the next takes three to open one.
Settling(l, d) ==
    /\ Behind(l, "connect", Going)
    /\ d = "resolving" \/ Some(l, {"resolved"}) => Misses(l, Going)
    /\ Behind(l, "resolved", Given)
    /\ d = "connecting" \/ Some(l, {"connected"}) => Misses(l, Given)
    /\ Behind(l, "connected", Working)

\* No stream is open for a session that ended, or before the chain opens it.
Dark ==
    /\ closed \/ dial \in {"resolving", "connecting"} \/ Some(loop, Opening)
          => ~open
    /\ ~open => op = NoOp /\ wire = <<>>

\* A packet is handled before the next step begins, the first of a stream begins
\* when the CONNECT is written.
Single ==
    /\ Once(loop, Busy)
    /\ op # NoOp => ~Some(loop, {"packet"})
    /\ (dial = "writing" \/ Some(loop, {"written"})) /\ open
          => depth = 0 /\ ~Some(loop, {"packet"})

\* On an open stream a step fails at its end only.
AtEnd ==
    /\ \A h \in Elements(loop) : h.stream <= stream
    /\ open => \A h \in Elements(loop) :
                  h.kind \in Steps /\ ~h.ok => ended /\ wire = <<>>

QInv == Settling(loop, dial) /\ Dark /\ Single /\ AtEnd

Sane == \A i \in 1 .. Len(sent) : sent[i] \in Junk \/ WellFormed(sent[i])
Clean == \A i \in DOMAIN sent : sent[i] \notin Junk

\* Packets that are complete, the handled ones and the queued one.
Done == Len(got) + (IF Some(loop, {"packet"}) THEN 1 ELSE 0)

\* What the read handler was given, and the packet that is queued for it.
Told ==
    /\ Done <= Len(sent)
    /\ \A i \in 1 .. Len(got) : got[i] = sent[i]
    /\ \A h \in Elements(loop) : h.kind = "packet" => h.bytes = sent[Done]

\* The frames s are sent and end where cut says.  From byte p on, w has them, all
\* of them if full, else up to where the stream was cut.
Cuts(cut, s) ==
    /\ \A i \in 1 .. Len(s) : cut[i] = cut[i - 1] + Len(s[i])
    /\ \A i \in 0 .. Len(s) : cut[i] <= cut[Len(s)]
Rest(cut, s, w, full, p) ==
    /\ p + Len(w) <= cut[Len(s)]
    /\ full => p + Len(w) = cut[Len(s)]
    /\ \A i \in 1 .. Len(s) : \A k \in 1 .. Len(s[i]) :
          \A j \in 1 .. Len(w) : cut[i - 1] + k = p + j => w[j] = s[i][k]

\* The first m frames of s are done and x bytes of the next one.
Fed(s, w, full, m, x) ==
    \E cut \in [0 .. Len(s) -> Nat] :
        Cuts(cut, s) /\ Rest(cut, s, w, full, cut[m] + x)

Starts(h, f) == Len(h) <= Len(f) /\ \A i \in 1 .. Len(h) : h[i] = f[i]
Consumed(step, h) == IF step = "fixed" THEN 0 ELSE Len(h)

\* The weight of the length digit behind the first k.
Weight(k) ==
    CASE k = 1 -> Radix
      [] k = 2 -> Radix * Radix
      [] k = 3 -> Radix * Radix * Radix
      [] k = 4 -> Radix * Radix * Radix * Radix

\* What read_header_ h and the length state n hold of a frame f when a step begins.
Knows(f, step, h, n) ==
    /\ step = "length" =>
          /\ Len(h) = n.bytesRead + 1 /\ Starts(h, f)
          /\ n.multiplier = Weight(n.bytesRead)
          /\ n.remaining = LengthOf(f, n.bytesRead)
          /\ \A i \in 2 .. Len(h) : Continues(f[i])
    /\ step = "body" => Starts(h, f) /\ Len(h) < Len(f)

\* A step o that is outstanding, a handler g of a step that is done.
Pending(o, s, w, full, m, h, n) ==
    /\ Fed(s, w, full, m, Consumed(o.step, h))
    /\ o.step # "fixed" => m < Len(s) /\ Knows(s[m + 1], o.step, h, n)
    /\ o.step = "body" => o.want = Len(s[m + 1]) - Len(h)

\* The bytes a step brought are those of f behind what was consumed.
Brings(g, f, h, n) ==
    /\ Knows(f, g.kind, h, n)
    /\ Consumed(g.kind, h) + Len(g.bytes) <= Len(f)
    /\ \A j \in 1 .. Len(g.bytes) : g.bytes[j] = f[Consumed(g.kind, h) + j]
    /\ g.kind = "body" => Len(g.bytes) = Len(f) - Len(h)

Fits(g, s, w, full, m, h, n) ==
    IF g.ok THEN /\ m < Len(s) /\ Brings(g, s[m + 1], h, n)
                 /\ Fed(s, w, full, m, Consumed(g.kind, h) + Len(g.bytes))
            ELSE Fed(s, w, full, m, 0)

Full == open /\ ~ended

\* The reader at rest, a read that is outstanding and one that is done: each
\* stands where the frames on the wire begin or go on.
Following ==
    /\ depth = 0 => Fed(sent, wire, Full, Done, 0)
    /\ op # NoOp => Pending(op, sent, wire, Full, Done, header, length)
    /\ \A g \in Elements(loop) :
          g.kind \in Steps => Fits(g, sent, wire, Full, Done, header, length)

\* Nobody has called a live stream broken.
Calm ==
    open /\ ~ended =>
        \A h \in Elements(loop) : ~(h.kind = "error" /\ h.stream = stream)

FInv == Clean => Told /\ Following /\ Calm

SInv == IInv /\ QInv /\ Sane /\ FInv
-----------------------------------------------------------------------------
(* The queue again *)

LEMMA AppendMore ==
    ASSUME NEW l \in Seq(Completed), NEW h \in Completed
    PROVE  /\ Elements(Append(l, h)) = Elements(l) \cup {h}
           /\ \A kind, S : Behind(l, kind, S) /\ (h \notin S \/ ~Some(l, {kind}))
                              => Behind(Append(l, h), kind, S)
<1> DEFINE c == Append(l, h)
<1>1. /\ Len(c) = Len(l) + 1 /\ Len(l) \in Nat
      /\ \A i \in 1 .. Len(l) : c[i] = l[i]
      /\ c[Len(l) + 1] = h
  BY AppendProperties, LenProperties
<1> HIDE DEF c
<1>2. Elements(c) = Elements(l) \cup {h}
  <2>1. \A i \in 1 .. Len(c) : i \in 1 .. Len(l) \/ i = Len(l) + 1 BY <1>1
  <2>2. \A i \in 1 .. Len(c) : c[i] \in Elements(l) \cup {h}
    BY <1>1, <2>1 DEF Elements
  <2>3. \A i \in 1 .. Len(l) : i \in 1 .. Len(c) BY <1>1
  <2>4. Len(l) + 1 \in 1 .. Len(c) BY <1>1
  <2> QED BY <1>1, <2>2, <2>3, <2>4 DEF Elements
<1>3. ASSUME NEW kind, NEW S, Behind(l, kind, S), h \notin S \/ ~Some(l, {kind}),
             NEW i \in 1 .. Len(c), NEW j \in 1 .. Len(c), i < j,
             c[i].kind = kind
      PROVE  c[j] \notin S
  <2>1. i \in 1 .. Len(l) /\ c[i] = l[i] BY <1>1, <1>3
  <2>2. CASE j = Len(l) + 1
    <3>1. Some(l, {kind}) BY <1>3, <2>1 DEF Some
    <3> QED BY <1>1, <1>3, <2>2, <3>1
  <2>3. CASE j # Len(l) + 1
    <3>1. j \in 1 .. Len(l) /\ c[j] = l[j] BY <1>1, <2>3
    <3> QED BY <1>3, <2>1, <3>1 DEF Behind
  <2> QED BY <2>2, <2>3
<1>4. \A kind, S : Behind(l, kind, S) /\ (h \notin S \/ ~Some(l, {kind}))
                     => Behind(c, kind, S)
  BY <1>3 DEF Behind
<1> QED BY <1>2, <1>4 DEF c

LEMMA TailMore ==
    ASSUME NEW l \in Seq(Completed), l # <<>>
    PROVE  /\ Elements(l) = {Head(l)} \cup Elements(Tail(l))
           /\ \A kind, S : Behind(l, kind, S) =>
                 /\ Behind(Tail(l), kind, S)
                 /\ Head(l).kind = kind => Misses(Tail(l), S)
<1> DEFINE t == Tail(l)
           h == Head(l)
<1>1. /\ t \in Seq(Completed) /\ Len(t) = Len(l) - 1
      /\ \A i \in 1 .. Len(l) - 1 : t[i] = l[i + 1]
      /\ h = l[1] /\ Len(l) \in Nat \ {0}
  BY HeadTailProperties, EmptySeq, LenProperties
<1> HIDE DEF t, h
<1>2. /\ \A i \in 1 .. Len(t) : i + 1 \in 1 .. Len(l) /\ t[i] = l[i + 1]
      /\ 1 \in 1 .. Len(l)
      /\ \A i \in 1 .. Len(l) : i = 1 \/ i - 1 \in 1 .. Len(t)
      /\ \A i \in 1 .. Len(t) : 1 < i + 1
  BY <1>1
<1>3. Elements(l) = {h} \cup Elements(t)
  <2>1. ASSUME NEW i \in 1 .. Len(l) PROVE l[i] \in {h} \cup Elements(t)
    <3>1. CASE i = 1 BY <1>1, <3>1
    <3>2. CASE i - 1 \in 1 .. Len(t)
      <4>1. t[i - 1] = l[i] BY <1>2, <3>2
      <4> QED BY <3>2, <4>1 DEF Elements
    <3> QED BY <1>2, <3>1, <3>2
  <2>2. \A i \in 1 .. Len(t) : t[i] \in Elements(l) BY <1>2 DEF Elements
  <2>3. h \in Elements(l) BY <1>1, <1>2 DEF Elements
  <2> QED BY <2>1, <2>2, <2>3 DEF Elements
<1>4. ASSUME NEW kind, NEW S, Behind(l, kind, S)
      PROVE  Behind(t, kind, S) /\ (h.kind = kind => Misses(t, S))
  <2>1. ASSUME NEW i \in 1 .. Len(t), NEW j \in 1 .. Len(t), i < j,
               t[i].kind = kind
        PROVE  t[j] \notin S
    <3>1. i + 1 < j + 1 BY <2>1
    <3> QED BY <1>2, <1>4, <2>1, <3>1 DEF Behind
  <2>2. ASSUME h.kind = kind, NEW j \in 1 .. Len(t) PROVE t[j] \notin S
    BY <1>1, <1>2, <1>4, <2>2 DEF Behind
  <2> QED BY <2>1, <2>2 DEF Behind, Misses, Elements
<1> QED BY <1>3, <1>4 DEF t, h

LEMMA SomeElement ==
    ASSUME NEW l, NEW K PROVE Some(l, K) <=> \E h \in Elements(l) : h.kind \in K
BY DEF Some, Elements

\* A handler was taken from the queue, or one was added to it.
LEMMA TailSettles ==
    ASSUME NEW l \in Seq(Completed), l # <<>>, NEW d, Settling(l, d)
    PROVE  Settling(Tail(l), d)
<1>1. \A S : Misses(l, S) => Misses(Tail(l), S) BY TailMore DEF Misses
<1>2. \A K : Some(Tail(l), K) => Some(l, K) BY TailQueue
<1> QED BY <1>1, <1>2, TailMore DEF Settling

LEMMA AppendSettles ==
    ASSUME NEW l \in Seq(Completed), NEW h \in Completed, NEW d,
           Settling(l, d), h.kind \notin Opening,
           h \in Working => ~Some(l, {"connected"}),
           h \in Given => d # "connecting" /\ ~Some(l, {"resolved", "connected"}),
           h \in Going => d # "resolving" /\ ~Some(l, Opening)
    PROVE  Settling(Append(l, h), d)
<1> DEFINE c == Append(l, h)
<1>1. /\ \A K : Some(c, K) <=> Some(l, K) \/ h.kind \in K
      /\ \A S : Misses(c, S) <=> Misses(l, S) /\ h \notin S
      /\ \A kind, S : Behind(l, kind, S) /\ (h \notin S \/ ~Some(l, {kind}))
                         => Behind(c, kind, S)
  <2>1. \A K : Some(c, K) <=> Some(l, K) \/ h.kind \in K BY AppendQueue
  <2> QED BY <2>1, AppendMore DEF Misses
<1> HIDE DEF c
<1>2. /\ Some(l, {"resolved"}) => Some(l, {"resolved", "connected"})
      /\ Some(l, {"connected"}) => Some(l, {"resolved", "connected"})
      /\ \A k \in Opening : Some(l, {k}) => Some(l, Opening)
      /\ h \in Going => h \in Given
  BY DEF Some, Opening, Going, Given
<1>3. Behind(c, "connect", Going) BY <1>1, <1>2 DEF Settling, Opening
<1>4. Behind(c, "resolved", Given) BY <1>1, <1>2 DEF Settling
<1>5. Behind(c, "connected", Working) BY <1>1 DEF Settling
<1>6. d = "resolving" \/ Some(c, {"resolved"}) => Misses(c, Going)
  BY <1>1, <1>2 DEF Settling, Opening
<1>7. d = "connecting" \/ Some(c, {"connected"}) => Misses(c, Given)
  BY <1>1, <1>2 DEF Settling, Opening
<1>8. Settling(c, d) BY <1>3, <1>4, <1>5, <1>6, <1>7 DEF Settling
<1> QED BY <1>8 DEF c
-----------------------------------------------------------------------------
(* Streams are opened with the reader at rest *)

\* The handler that runs, and what the reader and the chain may be doing then.
LEMMA HeadMore ==
    ASSUME IInv, QInv, loop # <<>>
    PROVE  /\ Head(loop) \in Completed /\ Tail(loop) \in Seq(Completed)
           /\ Elements(loop) = {Head(loop)} \cup Elements(Tail(loop))
           /\ \A K : Some(loop, K) <=> Head(loop).kind \in K
                                        \/ Some(Tail(loop), K)
           /\ Settling(Tail(loop), dial)
           /\ Once(Tail(loop), Busy)
           /\ Head(loop).kind \in Busy => ~Some(Tail(loop), Busy)
           /\ Head(loop) \in Going => /\ depth = 1
                                      /\ dial \notin {"resolving", "connecting"}
                                      /\ ~Some(loop, {"resolved", "connected"})
           /\ Head(loop) \in Given => /\ dial # "connecting"
                                      /\ ~Some(loop, {"connected"})
           /\ Head(loop).kind = "packet" => depth = 0 /\ op = NoOp
           /\ Head(loop).kind \in Steps => depth = 1 /\ op = NoOp
           /\ Head(loop).kind \in ChainKinds => ~Some(Tail(loop), ChainKinds)
<1> DEFINE h == Head(loop)
<1>1. loop \in Seq(Completed) /\ Once(loop, Busy) /\ Once(loop, ChainKinds)
  BY DEF IInv, QInv, Single, OneChain
<1>2. /\ h \in Completed /\ Tail(loop) \in Seq(Completed)
      /\ \A K : Some(loop, K) <=> h.kind \in K \/ Some(Tail(loop), K)
      /\ \A K : Once(loop, K) => /\ Once(Tail(loop), K)
                                 /\ h.kind \in K => ~Some(Tail(loop), K)
      /\ Elements(loop) = {h} \cup Elements(Tail(loop))
  BY <1>1, TailQueue, TailMore
<1>3. Settling(Tail(loop), dial) BY <1>1, TailSettles DEF QInv
<1>4. h.kind \in Steps => depth = 1 /\ op = NoOp BY HeadFacts
<1>5. \A S : h \in S => ~Misses(loop, S) BY <1>2 DEF Misses
<1>6. h \in Given => dial # "connecting" /\ ~Some(loop, {"connected"})
  BY <1>5 DEF QInv, Settling
<1>7. h \in Going => /\ dial # "resolving" /\ ~Some(loop, {"resolved"})
                     /\ h \in Given /\ h.kind \in Steps
  BY <1>5 DEF QInv, Settling, Going, Given
<1>8. Some(loop, {"resolved", "connected"})
         => Some(loop, {"resolved"}) \/ Some(loop, {"connected"})
  BY DEF Some
<1>9. ASSUME h.kind = "packet" PROVE depth = 0 /\ op = NoOp
  <2>1. Some(loop, {"packet"}) BY <1>2, <1>9
  <2>2. op = NoOp BY <2>1 DEF QInv, Single
  <2>3. ~Some(loop, Steps)
    <3>1. ~Some(Tail(loop), Busy) BY <1>1, <1>2, <1>9 DEF Busy
    <3>2. Some(Tail(loop), Steps) => Some(Tail(loop), Busy)
      BY SomeOfMore DEF Busy
    <3> QED BY <1>2, <1>9, <3>1, <3>2 DEF Steps
  <2> QED BY <2>2, <2>3 DEF IInv, OneReader, TypeOK
<1> QED BY <1>1, <1>2, <1>3, <1>4, <1>6, <1>7, <1>8, <1>9

LEMMA QRelease ==
    ASSUME IInv, QInv, loop # <<>>, Head(loop).kind \in Steps,
           NEW h \in Completed, h.kind \in {"packet", "error"},
           h.kind = "packet" => Head(loop).ok, h.stream = stream,
           Release(h), UNCHANGED Aside
    PROVE  QInv'
<1> DEFINE l == Tail(loop)
<1>1. /\ depth' = 0 /\ op' = NoOp /\ loop' = Append(l, h)
      /\ UNCHANGED <<open, closed, dial, stream, wire, ended>>
  BY DEF Release, Aside, peer
<1>2. /\ Head(loop) \in Completed /\ l \in Seq(Completed) /\ depth = 1
      /\ Head(loop) \in Going => Head(loop) \in Given
      /\ h.kind = "packet" => Head(loop) \in Going
      /\ ~Some(l, Busy) /\ Once(l, Busy) /\ Settling(l, dial)
  <2>1. Head(loop).kind \in Busy BY DEF Busy
  <2> QED BY <2>1, HeadMore DEF Going, Given
<1>3. /\ loop' \in Seq(Completed)
      /\ \A K : Some(loop', K) <=> Some(l, K) \/ h.kind \in K
      /\ Once(loop', Busy)
      /\ Elements(loop') = Elements(l) \cup {h}
  BY <1>1, <1>2, AppendQueue, AppendMore
<1>4. /\ h \notin Going /\ h.kind \notin Opening /\ h.kind \notin {"written"}
      /\ h.kind \notin Steps
      /\ h \in Working \/ h \in Given => h.kind = "packet"
  BY DEF Going, Given, Working, Opening, Steps, Busy
<1>5. /\ \A K : Some(l, K) => Some(loop, K)
      /\ Elements(l) \subseteq Elements(loop)
  BY HeadMore
<1>6. Settling(loop', dial)
  <2>1. Some(l, {"resolved", "connected"}) => Some(loop, {"resolved", "connected"})
    BY <1>5
  <2>2. h \in Working \/ h \in Given => /\ dial # "connecting"
                                        /\ ~Some(loop, {"connected"})
                                        /\ ~Some(loop, {"resolved", "connected"})
    BY <1>2, <1>4, HeadMore
  <2> QED BY <1>1, <1>2, <1>4, <1>5, <2>1, <2>2, AppendSettles
<1>7. Dark'
  BY <1>1, <1>3, <1>4, <1>5 DEF QInv, Dark
<1>8. Single'
  BY <1>1, <1>2, <1>3, <1>4, <1>5 DEF QInv, Single
<1>9. AtEnd'
  <2>1. stream \in Nat BY DEF IInv, TypeOK
  <2> QED BY <1>1, <1>3, <1>4, <1>5, <2>1 DEF QInv, AtEnd
<1> QED BY <1>1, <1>6, <1>7, <1>8, <1>9 DEF QInv

\* The reader asks for more, in the handler of a step or of a packet, or in that
\* of the CONNECT.
LEMMA QAsyncRead ==
    ASSUME IInv, QInv, loop # <<>>, NEW step \in Steps, NEW n \in Nat \ {0},
           Head(loop) \in Given \/ (Head(loop).kind = "written" /\ open),
           AsyncRead(step, n, Tail(loop), open),
           UNCHANGED <<open, closed, stream, wire, ended>>,
           IF Head(loop).kind = "written" THEN dial' = "none" ELSE dial' = dial
    PROVE  QInv'
<1> DEFINE l == Tail(loop)
           h == Head(loop)
<1>1. /\ h \in Completed /\ l \in Seq(Completed)
      /\ Elements(l) \subseteq Elements(loop)
      /\ \A K : Some(l, K) => Some(loop, K)
      /\ Once(l, Busy) /\ Settling(l, dial)
  BY HeadMore
<1>2. h \in Given => h.kind \in Busy /\ h.kind # "written"
  BY DEF Given, Busy, Steps
<1>3. ~Some(l, Busy) /\ ~Some(l, {"packet"})
  <2>1. CASE h \in Given
    <3>1. ~Some(l, Busy) BY <1>2, <2>1, HeadMore
    <3> QED BY <3>1, SomeOfMore DEF Busy
  <2>2. CASE h.kind = "written" /\ open
    <3>1. Some(loop, {"written"}) BY <2>2, HeadMore
    <3>2. depth = 0 /\ ~Some(loop, {"packet"})
      BY <2>2, <3>1 DEF QInv, Single
    <3>3. ~Some(loop, Steps) BY <3>2 DEF IInv, OneReader
    <3>4. ~Some(l, Steps) /\ ~Some(l, {"packet"}) BY <1>1, <3>2, <3>3
    <3> QED BY <3>4 DEF Some, Busy
  <2> QED BY <2>1, <2>2
<1>4. ~Some(l, Steps) BY <1>3, SomeOfMore DEF Busy
<1>5. /\ Settling(l, dial')
      /\ ~((dial' = "writing" \/ Some(l, {"written"})) /\ open)
      /\ dial' \in {"resolving", "connecting"}
            => dial \in {"resolving", "connecting"}
  <2>1. CASE h \in Given
    <3>1. Some(loop, {"packet"}) \/ depth = 1
      BY <2>1, HeadMore DEF Given
    <3>2. dial' = dial BY <1>2, <2>1
    <3>3. ~((dial = "writing" \/ Some(loop, {"written"})) /\ open)
      BY <3>1 DEF QInv, Single
    <3> QED BY <1>1, <3>2, <3>3
  <2>2. CASE h.kind = "written" /\ open
    <3>1. ~Some(l, ChainKinds) /\ dial' = "none"
      BY <2>2, HeadMore DEF ChainKinds
    <3>2. ~Some(l, {"written"}) BY <3>1, SomeOfMore DEF ChainKinds
    <3>3. /\ ~Some(l, {"resolved"}) /\ ~Some(l, {"connected"})
      BY <3>1, SomeOfMore DEF ChainKinds
    <3>4. Settling(l, dial') BY <1>1, <3>1, <3>3 DEF Settling
    <3> QED BY <3>1, <3>2, <3>4
  <2> QED BY <2>1, <2>2
<1>6. CASE open
  <2>1. loop' = l /\ op' # NoOp
    BY <1>6 DEF AsyncRead, NoOp, Steps
  <2>2. Dark' BY <1>1, <1>5, <1>6, <2>1 DEF QInv, Dark
  <2>3. Single' BY <1>1, <1>3, <1>5, <2>1 DEF Single
  <2>4. AtEnd' BY <1>1, <2>1 DEF QInv, AtEnd
  <2> QED BY <1>5, <2>1, <2>2, <2>3, <2>4 DEF QInv
<1>7. CASE ~open
  <2> DEFINE b == Broken(step)
  <2>1. h \in Given /\ dial' = dial BY <1>2, <1>7
  <2>2. op' = NoOp /\ loop' = Append(l, b) BY <1>7 DEF AsyncRead
  <2>3. b \in Completed /\ b.kind = step /\ ~b.ok /\ b.stream = stream
    <3>1. b \in Completed /\ b.kind = step BY NewHandlers DEF IInv, TypeOK
    <3> QED BY <3>1 DEF Broken, Handler
  <2> HIDE DEF b
  <2>4. /\ loop' \in Seq(Completed)
        /\ \A K : Some(loop', K) <=> Some(l, K) \/ b.kind \in K
        /\ Once(loop', Busy)
        /\ Elements(loop') = Elements(l) \cup {b}
    BY <1>1, <1>3, <2>2, <2>3, AppendQueue, AppendMore
  <2>5. /\ b \notin Going /\ b \notin Given /\ b.kind \notin Opening
        /\ b.kind \notin {"packet"} /\ b.kind \notin {"written"}
    BY <2>3 DEF Going, Given, Opening, Steps
  <2>6. Settling(loop', dial')
    <3>1. ~Some(l, {"connected"}) BY <1>1, <2>1, HeadMore
    <3> QED BY <1>1, <2>1, <2>2, <2>3, <2>5, <3>1, AppendSettles
  <2>7. Dark'
    BY <1>1, <1>7, <2>1, <2>2, <2>4, <2>5 DEF QInv, Dark
  <2>8. Single' BY <1>7, <2>2, <2>4 DEF Single
  <2>9. AtEnd'
    <3>1. stream \in Nat BY DEF IInv, TypeOK
    <3> QED BY <1>1, <1>7, <2>3, <2>4, <3>1 DEF QInv, AtEnd
  <2> QED BY <2>6, <2>7, <2>8, <2>9 DEF QInv
<1> QED BY <1>6, <1>7

\* A handler is taken from the queue and nothing else happens to the reader.
LEMMA QTail ==
    ASSUME IInv, QInv, loop # <<>>, loop' = Tail(loop),
           UNCHANGED <<depth, op, open, closed, dial, stream, wire, ended>>
    PROVE  QInv'
<1>1. /\ Elements(Tail(loop)) \subseteq Elements(loop)
      /\ \A K : Some(Tail(loop), K) => Some(loop, K)
      /\ Once(Tail(loop), Busy) /\ Settling(Tail(loop), dial)
  BY HeadMore
<1>2. Dark' BY <1>1 DEF QInv, Dark
<1>3. Single' BY <1>1 DEF QInv, Single
<1>4. AtEnd' BY <1>1 DEF QInv, AtEnd
<1> QED BY <1>1, <1>2, <1>3, <1>4 DEF QInv

\* While a step is outstanding the socket is open: no chain is about to open one.
LEMMA Outstanding ==
    ASSUME IInv, QInv, op # NoOp
    PROVE  /\ open /\ depth = 1 /\ op.step \in Steps
           /\ dial \notin {"resolving", "connecting"} /\ ~closed
           /\ ~Some(loop, Opening)
           /\ ~Some(loop, {"connected"}) /\ ~Some(loop, {"resolved", "connected"})
           /\ ~Some(loop, Busy) /\ ~Some(loop, {"packet"}) /\ ~Some(loop, Steps)
           /\ ~(dial = "writing" \/ Some(loop, {"written"}))
<1>1. open BY DEF QInv, Dark
<1>2. /\ dial \notin {"resolving", "connecting"} /\ ~closed
      /\ ~Some(loop, Opening)
  BY <1>1 DEF QInv, Dark
<1>3. ~Some(loop, {"connected"}) /\ ~Some(loop, {"resolved", "connected"})
  BY <1>2, SomeOfMore DEF Opening
<1>4. depth = 1 /\ ~Some(loop, Steps) /\ op.step \in Steps
  BY DEF IInv, TypeOK, OneReader
<1>5. ~Some(loop, {"packet"}) BY DEF QInv, Single
<1>6. ~Some(loop, Busy) BY <1>4, <1>5 DEF Some, Busy
<1>7. ~(dial = "writing" \/ Some(loop, {"written"}))
  BY <1>1, <1>4 DEF QInv, Single
<1> QED BY <1>1, <1>2, <1>3, <1>4, <1>5, <1>6, <1>7

LEMMA QClose ==
    ASSUME IInv, QInv, NEW rest \in Seq(Completed), Settling(rest, dial),
           Once(rest, Busy), Elements(rest) \subseteq Elements(loop),
           CloseSocket(rest)
    PROVE  QInv'
<1>1. /\ open' = FALSE /\ op' = NoOp /\ wire' = <<>>
      /\ UNCHANGED <<depth, dial, stream, ended>>
  BY DEF CloseSocket
<1>2. Dark' BY <1>1 DEF Dark
<1>3. \A K : Some(rest, K) => Some(loop, K) BY SomeElement
<1>4. CASE op = NoOp
  <2>1. loop' = rest BY <1>4 DEF CloseSocket
  <2>2. Single' BY <1>1, <2>1 DEF Single
  <2>3. AtEnd' BY <1>1, <2>1 DEF QInv, AtEnd
  <2> QED BY <1>1, <1>2, <2>1, <2>2, <2>3 DEF QInv
<1>5. CASE op # NoOp
  <2> DEFINE b == Broken(op.step)
  <2>1. loop' = Append(rest, b) BY <1>5 DEF CloseSocket
  <2>2. op.step \in Steps BY <1>5, Outstanding
  <2>3. b \in Completed /\ b.kind \in Steps /\ ~b.ok /\ b.stream = stream
    <3>1. b \in Completed /\ b.kind = op.step
      BY <2>2, NewHandlers DEF IInv, TypeOK
    <3> QED BY <2>2, <3>1 DEF Broken, Handler
  <2> HIDE DEF b
  <2>4. ~Some(rest, {"connected"}) /\ ~Some(rest, Busy)
    BY <1>3, <1>5, Outstanding
  <2>5. /\ Once(loop', Busy)
        /\ Elements(loop') = Elements(rest) \cup {b}
    BY <2>1, <2>3, <2>4, AppendQueue, AppendMore
  <2>6. b \notin Going /\ b \notin Given /\ b.kind \notin Opening
    BY <2>3 DEF Going, Given, Opening, Steps
  <2>7. Settling(loop', dial')
    BY <1>1, <2>1, <2>3, <2>4, <2>6, AppendSettles
  <2>8. Single' BY <1>1, <2>5 DEF Single
  <2>9. AtEnd'
    <3>1. stream \in Nat BY DEF IInv, TypeOK
    <3> QED BY <1>1, <2>3, <2>5, <3>1 DEF QInv, AtEnd
  <2> QED BY <1>2, <2>7, <2>8, <2>9 DEF QInv
<1> QED BY <1>4, <1>5

\* The chain moves on: a handler of it is queued.
LEMMA QChain ==
    ASSUME IInv, QInv, NEW k \in ChainKinds, dial # "queued", dial' = "queued",
           loop' = Append(loop, Chain(k)),
           UNCHANGED <<reader, open, closed, stream, wire, ended>>,
           k = "connect" => closed, k = "resolved" => dial = "resolving",
           k = "connected" => dial = "connecting",
           k = "written" => dial = "writing"
    PROVE  QInv'
<1> DEFINE h == Chain(k)
<1>1. h \in Completed /\ h.kind = k BY NewHandlers DEF IInv, TypeOK
<1>2. h.stream = stream BY DEF Chain, Handler
<1>3. loop' = Append(loop, h) /\ loop \in Seq(Completed) BY DEF IInv
<1> HIDE DEF h
<1>4. /\ \A K : Some(loop', K) <=> Some(loop, K) \/ k \in K
      /\ \A K : Once(loop, K) /\ k \notin K => Once(loop', K)
      /\ Elements(loop') = Elements(loop) \cup {h}
      /\ \A kind, S : Behind(loop, kind, S) /\ h \notin S
                        => Behind(loop', kind, S)
  <2>1. /\ \A K : Some(loop', K) <=> Some(loop, K) \/ k \in K
        /\ \A K : Once(loop, K) /\ k \notin K => Once(loop', K)
    BY <1>1, <1>3, AppendQueue
  <2>2. /\ Elements(loop') = Elements(loop) \cup {h}
        /\ \A kind, S : Behind(loop, kind, S)
                          /\ (h \notin S \/ ~Some(loop, {kind}))
                          => Behind(loop', kind, S)
    BY <1>1, <1>3, AppendMore
  <2> QED BY <2>1, <2>2
<1>5. /\ h \notin Going /\ h \notin Given /\ h \notin Working
      /\ k \notin Busy /\ k \notin Steps /\ k \notin {"packet"}
  BY <1>1 DEF Going, Given, Working, Busy, Steps, ChainKinds
<1>6. ~Some(loop, ChainKinds) BY DEF IInv, OneChain
<1>7. ~Some(loop, {"resolved"}) /\ ~Some(loop, {"connected"})
  BY <1>6, SomeOfMore DEF ChainKinds
<1>8. \A S : h \notin S /\ Misses(loop, S) => Misses(loop', S)
  BY <1>4 DEF Misses
<1>9. Settling(loop', dial')
  <2>1. k = "resolved" => Misses(loop', Going)
    BY <1>5, <1>8 DEF QInv, Settling
  <2>2. k = "connected" => Misses(loop', Given)
    BY <1>5, <1>8 DEF QInv, Settling
  <2>3. /\ Behind(loop', "connect", Going)
        /\ Behind(loop', "resolved", Given)
        /\ Behind(loop', "connected", Working)
    BY <1>4, <1>5 DEF QInv, Settling
  <2> QED BY <1>4, <1>7, <2>1, <2>2, <2>3 DEF Settling
<1>10. Dark'
  <2>1. k \in Opening => ~open
    BY DEF QInv, Dark, Opening
  <2> QED BY <1>4, <2>1 DEF QInv, Dark, reader
<1>11. Single'
  <2>1. Once(loop', Busy) /\ (Some(loop', {"packet"}) => Some(loop, {"packet"}))
    BY <1>4, <1>5 DEF QInv, Single
  <2>2. Some(loop', {"written"}) => k = "written" \/ Some(loop, {"written"})
    BY <1>4
  <2> QED BY <2>1, <2>2 DEF QInv, Single, reader
<1>12. AtEnd'
  <2>1. stream \in Nat BY DEF IInv, TypeOK
  <2> QED BY <1>1, <1>2, <1>4, <1>5, <2>1 DEF QInv, AtEnd
<1> QED BY <1>9, <1>10, <1>11, <1>12 DEF QInv

\* What asio::async_read() completes with.
LEMMA ReadDoneHandler ==
    ASSUME IInv, ReadDone
    PROVE  \E h \in Completed :
               /\ loop' = Append(loop, h) /\ h.kind = op.step /\ h.stream = stream
               /\ h.ok => /\ Len(wire) >= op.want
                          /\ h.bytes = SubSeq(wire, 1, op.want)
                          /\ h.bytes \in Seq(Nat) /\ Len(h.bytes) = op.want
                          /\ wire' = SubSeq(wire, op.want + 1, Len(wire))
               /\ ~h.ok => ended /\ wire' = <<>> /\ h.bytes = <<>>
<1>1. op # NoOp BY DEF ReadDone
<1>2. /\ op.step \in Steps /\ op.want \in Nat \ {0} /\ wire \in Seq(Nat)
      /\ stream \in Nat /\ loop \in Seq(Completed) /\ Len(wire) \in Nat
  BY <1>1, LenProperties DEF IInv, TypeOK
<1>3. CASE /\ Len(wire) >= op.want
           /\ wire' = SubSeq(wire, op.want + 1, Len(wire))
           /\ loop' = Append(loop, Handler(op.step, TRUE,
                                           SubSeq(wire, 1, op.want)))
  <2> DEFINE b == SubSeq(wire, 1, op.want)
             h == Handler(op.step, TRUE, b)
  <2>1. b \in Seq(Nat) /\ Len(b) = op.want
    <3>1. op.want \in Int /\ 1 \in Int /\ 1 <= op.want
          /\ \A i \in 1 .. op.want : wire[i] \in Nat
      BY <1>2, <1>3
    <3>2. /\ SubSeq(wire, 1, op.want) \in Seq(Nat)
          /\ Len(SubSeq(wire, 1, op.want)) = op.want - 1 + 1
      BY <3>1, SubSeqProperties
    <3> QED BY <1>2, <3>2
  <2>2. /\ op.step = "fixed" => Len(b) = 2
        /\ op.step = "length" => Len(b) = 1
    BY <2>1 DEF IInv, Asked
  <2>3. h \in Completed BY <1>2, <2>1, <2>2, NewHandlers
  <2>4. h.kind = op.step /\ h.stream = stream /\ h.ok /\ h.bytes = b
    BY DEF Handler
  <2> QED BY <1>3, <2>1, <2>3, <2>4
<1>4. CASE /\ ended /\ Len(wire) < op.want
           /\ wire' = <<>>
           /\ loop' = Append(loop, Broken(op.step))
  <2> DEFINE h == Broken(op.step)
  <2>1. h \in Completed BY <1>2, NewHandlers
  <2>2. h.kind = op.step /\ h.stream = stream /\ ~h.ok /\ h.bytes = <<>>
    BY DEF Broken, Handler
  <2> QED BY <1>4, <2>1, <2>2
<1> QED BY <1>3, <1>4 DEF ReadDone

LEMMA QRefuse ==
    ASSUME IInv, QInv, loop # <<>>, Head(loop).kind \in Steps, Release(Error),
           UNCHANGED Aside
    PROVE  QInv'
<1>1. /\ Error \in Completed /\ Error.kind = "error" /\ Error.stream = stream
  BY NewHandlers DEF IInv, TypeOK, Error, Handler
<1> QED BY <1>1, QRelease

LEMMA QBody ==
    ASSUME IInv, QInv, loop # <<>>, Head(loop).kind \in Steps, Head(loop).ok,
           NEW h \in Seq(Nat), NEW n \in Nat, ReadPacketBody(h, n),
           UNCHANGED Aside
    PROVE  QInv'
<1>1. CASE n = 0
  <2>1. Release(Packet(h)) BY <1>1 DEF ReadPacketBody
  <2>2. /\ Packet(h) \in Completed /\ Packet(h).kind = "packet"
        /\ Packet(h).stream = stream
    BY NewHandlers DEF IInv, TypeOK, Packet, Handler
  <2> QED BY <2>1, <2>2, QRelease
<1>2. CASE n # 0
  <2>1. AsyncRead("body", n, Tail(loop), open)
    BY <1>2 DEF ReadPacketBody
  <2>2. Head(loop) \in Given /\ Head(loop).kind # "written"
    BY HeadMore DEF Given, Steps
  <2> QED BY <1>2, <2>1, <2>2, QAsyncRead DEF Steps, Aside, peer
<1> QED BY <1>1, <1>2

LEMMA QReader ==
    ASSUME IInv, QInv,
           \/ RunFixedFailed \/ RunFixedRefused \/ RunFixed
           \/ RunLengthFailed \/ RunLengthRefused \/ RunLength
           \/ RunBodyFailed \/ RunBody
    PROVE  QInv'
<1>1. CASE RunFixedFailed \/ RunFixedRefused \/ RunLengthFailed \/ RunBodyFailed
  BY <1>1, QRefuse DEF RunFixedFailed, RunFixedRefused, RunLengthFailed,
     RunBodyFailed, Refuse, Running, Steps
<1>2. CASE RunLengthRefused
  BY <1>2, QRefuse DEF RunLengthRefused, Running, Steps
<1>3. CASE RunFixed
  <2>1. /\ loop # <<>> /\ Head(loop).kind \in Steps /\ Head(loop).ok
        /\ UNCHANGED Aside
    BY <1>3 DEF RunFixed, Running, Ok, Steps
  <2>2. Arg \in Seq(Nat) /\ Digit(Arg[2]) \in Nat
    BY <1>3, <2>1, ArgFacts, DigitFacts DEF RunFixed
  <2>3. CASE Continues(Arg[2])
    <3>1. AsyncRead("length", 1, Tail(loop), open)
      BY <1>3, <2>3 DEF RunFixed
    <3>2. Head(loop) \in Given /\ Head(loop).kind # "written"
      BY <2>1, HeadMore DEF Given, Steps
    <3> QED BY <2>1, <3>1, <3>2, QAsyncRead DEF Steps, Aside, peer
  <2>4. CASE ~Continues(Arg[2])
    <3>1. ReadPacketBody(Arg, Digit(Arg[2]))
      BY <1>3, <2>4 DEF RunFixed, HeaderOf
    <3> QED BY <2>1, <2>2, <3>1, QBody
  <2> QED BY <2>3, <2>4
<1>4. CASE RunLength
  <2>1. /\ loop # <<>> /\ Head(loop).kind \in Steps /\ Head(loop).ok
        /\ UNCHANGED Aside
    BY <1>4 DEF RunLength, Running, Ok, Steps
  <2>2. header' \in Seq(Nat) /\ length'.remaining \in Nat
    <3>1. Arg[1] \in Nat /\ length'.remaining \in Nat
      BY <1>4, AssembledFacts DEF RunLength
    <3>2. header' = Append(header, Arg[1]) BY <1>4 DEF RunLength, Keep
    <3> QED BY <3>1, <3>2, AppendProperties DEF IInv, TypeOK
  <2>3. CASE Continues(Arg[1])
    <3>1. AsyncRead("length", 1, Tail(loop), open)
      BY <1>4, <2>3 DEF RunLength
    <3>2. Head(loop) \in Given /\ Head(loop).kind # "written"
      BY <2>1, HeadMore DEF Given, Steps
    <3> QED BY <2>1, <3>1, <3>2, QAsyncRead DEF Steps, Aside, peer
  <2>4. CASE ~Continues(Arg[1])
    <3>1. ReadPacketBody(header', length'.remaining)
      BY <1>4, <2>4 DEF RunLength
    <3> QED BY <2>1, <2>2, <3>1, QBody
  <2> QED BY <2>3, <2>4
<1>5. CASE RunBody
  <2>1. /\ loop # <<>> /\ Head(loop).kind \in Steps /\ Head(loop).ok
        /\ UNCHANGED Aside /\ Release(Packet(header \o Arg))
    BY <1>5 DEF RunBody, Running, Ok, Steps
  <2>2. header \o Arg \in Seq(Nat)
    BY <2>1, ArgFacts, ConcatProperties DEF IInv, TypeOK
  <2>3. /\ Packet(header \o Arg) \in Completed
        /\ Packet(header \o Arg).kind = "packet"
        /\ Packet(header \o Arg).stream = stream
    BY <2>2, NewHandlers DEF IInv, TypeOK, Packet, Handler
  <2> QED BY <2>1, <2>3, QRelease
<1> QED BY <1>1, <1>2, <1>3, <1>4, <1>5

LEMMA QOwner ==
    ASSUME IInv, QInv,
           \/ RunPacket \/ RunErrorIgnored \/ RunError
           \/ OwnerClose \/ OwnerAbandon
    PROVE  QInv'
<1>1. CASE RunPacket
  <2>1. /\ loop # <<>> /\ Head(loop).kind = "packet"
        /\ AsyncReadPacket(Tail(loop), open)
        /\ UNCHANGED <<open, closed, dial, stream, wire, ended>>
    BY <1>1 DEF RunPacket, Running, peer
  <2>2. Head(loop) \in Given BY <2>1, HeadMore DEF Given
  <2>3. AsyncRead("fixed", 2, Tail(loop), open)
    BY <2>1, HeadMore DEF AsyncReadPacket
  <2> QED BY <2>1, <2>2, <2>3, QAsyncRead DEF Steps
<1>2. CASE RunErrorIgnored
  BY <1>2, QTail DEF RunErrorIgnored, Running, reader, peer
<1>3. CASE RunError
  <2>1. loop # <<>> /\ CloseSocket(Tail(loop))
    BY <1>3 DEF RunError, Running
  <2> QED BY <2>1, HeadMore, QClose
<1>4. CASE OwnerClose \/ OwnerAbandon
  <2>1. CloseSocket(loop) BY <1>4 DEF OwnerClose, OwnerAbandon
  <2> QED BY <2>1, QClose DEF IInv, QInv, Single
<1> QED BY <1>1, <1>2, <1>3, <1>4

LEMMA QConnect ==
    ASSUME IInv, QInv,
           \/ RunConnect \/ RunResolved \/ RunConnectedLate \/ RunConnected
           \/ RunWritten
    PROVE  QInv'
<1> DEFINE l == Tail(loop)
<1>1. loop # <<>> /\ Head(loop).kind \in ChainKinds
  BY DEF RunConnect, RunResolved, RunConnectedLate, RunConnected, RunWritten,
         Running, ChainKinds
<1>2. /\ l \in Seq(Completed) /\ Elements(l) \subseteq Elements(loop)
      /\ \A K : Some(l, K) => Some(loop, K)
      /\ Once(l, Busy) /\ Settling(l, dial) /\ ~Some(l, ChainKinds)
  BY <1>1, HeadMore
<1>3. /\ ~Some(l, {"resolved"}) /\ ~Some(l, {"connected"})
      /\ ~Some(l, {"written"}) /\ ~Some(l, Opening)
  BY <1>2, SomeOfMore DEF ChainKinds, Opening
<1>4. loop \in Seq(Completed) /\ Settling(loop, dial) BY DEF IInv, QInv
<1>5. Head(loop).kind \in Opening => ~open
  <2>1. Head(loop).kind \in Opening => Some(loop, Opening) BY <1>1, HeadMore
  <2> QED BY <2>1 DEF QInv, Dark
<1> HIDE DEF l
<1>6. CASE RunConnect
  <2>1. /\ Head(loop).kind = "connect" /\ dial' = "resolving" /\ loop' = l
        /\ closed' = FALSE
        /\ UNCHANGED <<depth, op, open, stream, wire, ended>>
    BY <1>6 DEF RunConnect, Running, reader, peer, l
  <2>2. Misses(l, Going) BY <1>1, <1>4, <2>1, TailMore DEF Settling, l
  <2>3. Settling(loop', dial') BY <1>2, <1>3, <2>1, <2>2 DEF Settling
  <2>4. Dark' BY <1>5, <2>1 DEF QInv, Dark, Opening
  <2>5. Single' BY <1>2, <1>3, <2>1 DEF QInv, Single
  <2>6. AtEnd' BY <1>2, <2>1 DEF QInv, AtEnd
  <2> QED BY <2>3, <2>4, <2>5, <2>6 DEF QInv
<1>7. CASE RunResolved
  <2>1. /\ Head(loop).kind = "resolved" /\ dial' = "connecting" /\ loop' = l
        /\ UNCHANGED <<depth, op, open, closed, stream, wire, ended>>
    BY <1>7 DEF RunResolved, Running, reader, peer, l
  <2>2. Misses(l, Given) BY <1>1, <1>4, <2>1, TailMore DEF Settling, l
  <2>3. Settling(loop', dial') BY <1>2, <1>3, <2>1, <2>2 DEF Settling
  <2>4. Dark' BY <1>5, <2>1 DEF QInv, Dark, Opening
  <2>5. Single' BY <1>2, <1>3, <2>1 DEF QInv, Single
  <2>6. AtEnd' BY <1>2, <2>1 DEF QInv, AtEnd
  <2> QED BY <2>3, <2>4, <2>5, <2>6 DEF QInv
<1>8. CASE RunConnectedLate
  <2>1. /\ dial' = "none" /\ loop' = l
        /\ UNCHANGED <<depth, op, open, closed, stream, wire, ended>>
    BY <1>8 DEF RunConnectedLate, reader, peer, l
  <2>2. Settling(loop', dial') BY <1>2, <1>3, <2>1 DEF Settling
  <2>3. Dark' BY <1>2, <2>1 DEF QInv, Dark
  <2>4. Single' BY <1>2, <1>3, <2>1 DEF QInv, Single
  <2>5. AtEnd' BY <1>2, <2>1 DEF QInv, AtEnd
  <2> QED BY <2>2, <2>3, <2>4, <2>5 DEF QInv
<1>9. CASE RunConnected
  <2>1. /\ Head(loop).kind = "connected" /\ dial' = "writing" /\ loop' = l
        /\ ~closed /\ open' = TRUE /\ stream' = stream + 1
        /\ wire' = <<>> /\ ended' = FALSE /\ UNCHANGED <<depth, op, closed>>
    BY <1>9 DEF RunConnected, Running, reader, l
  <2>2. Misses(l, Working) BY <1>1, <1>4, <2>1, TailMore DEF Settling, l
  <2>3. \A h \in Elements(l) : h.kind \notin Busy
    <3>1. \A h \in Elements(l) : h \in Completed
      BY <1>2, ElementOfSeq DEF Elements
    <3> QED BY <2>2, <3>1 DEF Misses, Working
  <2>4. ~Some(l, Busy) /\ ~Some(l, Steps) /\ ~Some(l, {"packet"})
    <3>1. ~Some(l, Busy) BY <2>3, SomeElement
    <3> QED BY <3>1, SomeOfMore DEF Busy
  <2>5. op = NoOp /\ depth = 0
    <3>1. ~open BY <1>5, <2>1 DEF Opening
    <3>2. op = NoOp BY <3>1 DEF QInv, Dark
    <3>3. ~Some(loop, Steps)
      BY <1>1, <2>1, <2>4, HeadMore DEF Steps, l
    <3> QED BY <3>2, <3>3 DEF IInv, OneReader, TypeOK
  <2>6. Settling(loop', dial') BY <1>2, <1>3, <2>1 DEF Settling
  <2>7. Dark' BY <1>3, <2>1, <2>5 DEF Dark
  <2>8. Single' BY <1>2, <2>1, <2>4, <2>5 DEF Single
  <2>9. AtEnd'
    <3>1. \A h \in Elements(l) : h.stream \in Nat /\ h.stream <= stream
      <4>1. \A h \in Elements(l) : h \in Completed
        BY <1>2, ElementOfSeq DEF Elements
      <4> QED BY <1>2, <4>1 DEF QInv, AtEnd, Completed, Handlers
    <3>2. \A h \in Elements(l) : h.kind \notin Steps BY <2>3 DEF Busy
    <3>3. stream \in Nat BY DEF IInv, TypeOK
    <3> QED BY <2>1, <3>1, <3>2, <3>3 DEF AtEnd
  <2> QED BY <2>6, <2>7, <2>8, <2>9 DEF QInv
<1>10. CASE RunWritten
  <2>1. /\ Head(loop).kind = "written" /\ dial' = "none"
        /\ UNCHANGED <<open, closed, stream, wire, ended>>
    BY <1>10 DEF RunWritten, Running, peer
  <2>2. CASE open
    <3>1. Some(loop, {"written"}) BY <1>1, <2>1, HeadMore
    <3>2. depth = 0 BY <2>2, <3>1 DEF QInv, Single
    <3>3. AsyncRead("fixed", 2, Tail(loop), open)
      BY <1>10, <2>2, <3>2 DEF RunWritten, AsyncReadPacket, AsyncRead
    <3>4. IF Head(loop).kind = "written" THEN dial' = "none" ELSE dial' = dial
      BY <2>1
    <3>5. /\ "fixed" \in Steps /\ 2 \in Nat \ {0} /\ loop # <<>>
          /\ UNCHANGED <<open, closed, stream, wire, ended>>
          /\ Head(loop) \in Given \/ (Head(loop).kind = "written" /\ open)
      BY <1>1, <2>1, <2>2 DEF Steps
    <3> QED BY <3>3, <3>4, <3>5, QAsyncRead
  <2>3. CASE ~open
    <3>1. loop' = l /\ UNCHANGED <<depth, op>>
      BY <1>10, <2>3 DEF RunWritten, l
    <3>2. Settling(loop', dial') BY <1>2, <1>3, <2>1, <3>1 DEF Settling
    <3>3. Dark' BY <2>1, <2>3, <3>1 DEF QInv, Dark
    <3>4. Single' BY <1>2, <2>1, <2>3, <3>1 DEF QInv, Single
    <3>5. AtEnd' BY <1>2, <2>1, <3>1 DEF QInv, AtEnd
    <3> QED BY <3>2, <3>3, <3>4, <3>5 DEF QInv
  <2> QED BY <2>2, <2>3
<1> QED BY <1>6, <1>7, <1>8, <1>9, <1>10

LEMMA QDial == ASSUME IInv, QInv, AppConnect \/ Dialled PROVE QInv'
<1>1. CASE AppConnect
  BY <1>1, QChain DEF AppConnect, ChainKinds, peer
<1>2. CASE Dialled
  <2> DEFINE k == CASE dial = "resolving"  -> "resolved"
                    [] dial = "connecting" -> "connected"
                    [] dial = "writing"    -> "written"
  <2>1. /\ dial \in {"resolving", "connecting", "writing"} /\ dial' = "queued"
        /\ loop' = Append(loop, Chain(k))
        /\ UNCHANGED <<reader, open, closed, stream, wire, ended>>
    BY <1>2 DEF Dialled, peer
  <2>2. /\ k \in ChainKinds /\ k # "connect"
        /\ k = "resolved" => dial = "resolving"
        /\ k = "connected" => dial = "connecting"
        /\ k = "written" => dial = "writing"
    BY <2>1 DEF ChainKinds
  <2> HIDE DEF k
  <2> QED BY <2>1, <2>2, QChain
<1> QED BY <1>1, <1>2

LEMMA QPeer == ASSUME IInv, QInv, PeerSends \/ PeerEnds PROVE QInv'
<1>1. /\ open /\ ~ended
      /\ UNCHANGED <<reader, loop, open, closed, dial, stream>>
  BY DEF PeerSends, PeerEnds
<1>2. Dark' BY <1>1 DEF QInv, Dark, reader
<1>3. Single' BY <1>1 DEF QInv, Single, reader
<1>4. AtEnd' BY <1>1 DEF QInv, AtEnd
<1> QED BY <1>1, <1>2, <1>3, <1>4 DEF QInv

LEMMA QReadDone == ASSUME IInv, QInv, ReadDone PROVE QInv'
<1>1. /\ op # NoOp /\ op' = NoOp
      /\ UNCHANGED <<depth, open, closed, dial, stream, ended>>
  BY DEF ReadDone
<1>2. PICK h \in Completed : /\ loop' = Append(loop, h) /\ h.kind = op.step
                             /\ h.stream = stream
                             /\ ~h.ok => ended /\ wire' = <<>>
  BY ReadDoneHandler
<1>3. /\ open /\ depth = 1 /\ op.step \in Steps
      /\ dial \notin {"resolving", "connecting"} /\ ~closed
      /\ ~Some(loop, Opening)
      /\ ~Some(loop, {"connected"}) /\ ~Some(loop, {"resolved", "connected"})
      /\ ~Some(loop, Busy) /\ ~Some(loop, Steps)
      /\ ~(dial = "writing" \/ Some(loop, {"written"}))
  BY <1>1, Outstanding
<1>4. loop \in Seq(Completed) /\ Settling(loop, dial) /\ Once(loop, Busy)
  BY DEF IInv, QInv, Single
<1>5. /\ \A K : Some(loop', K) <=> Some(loop, K) \/ h.kind \in K
      /\ Once(loop', Busy)
  BY <1>2, <1>3, <1>4, AppendQueue
<1>6. Elements(loop') = Elements(loop) \cup {h}
  BY <1>2, <1>4, AppendMore
<1>7. h.kind \notin Opening /\ h.kind \notin {"written"}
  BY <1>2, <1>3 DEF Steps, Opening
<1>8. Settling(loop', dial') BY <1>1, <1>2, <1>3, <1>4, <1>7, AppendSettles
<1>9. Dark' BY <1>1, <1>3, <1>5, <1>7 DEF QInv, Dark
<1>10. Single' BY <1>1, <1>3, <1>5, <1>7 DEF Single
<1>11. AtEnd'
  <2>1. \A g \in Elements(loop) : g.kind \notin Steps BY <1>3, SomeElement
  <2>2. stream \in Nat BY DEF IInv, TypeOK
  <2> QED BY <1>1, <1>2, <1>6, <2>1, <2>2 DEF QInv, AtEnd
<1> QED BY <1>8, <1>9, <1>10, <1>11 DEF QInv

LEMMA NextQInv == IInv /\ QInv /\ [Next]_vars => QInv'
<1> SUFFICES ASSUME IInv, QInv, [Next]_vars PROVE QInv'
  OBVIOUS
<1>1. CASE UNCHANGED vars
  BY <1>1 DEF QInv, Settling, Dark, Single, AtEnd, vars, reader, peer
<1> QED BY <1>1, QReader, QOwner, QConnect, QDial, QPeer, QReadDone
        DEF Next, IoThread
-----------------------------------------------------------------------------
(* The bytes that are on their way *)

\* The bytes of w are those of the frames from p on.
LEMMA RestFacts ==
    ASSUME NEW s \in Seq(Seq(Nat)), NEW w \in Seq(Nat), NEW full \in BOOLEAN,
           NEW cut \in [0 .. Len(s) -> Nat], NEW p \in Nat,
           Rest(cut, s, w, full, p)
    PROVE  /\ \A n \in 0 .. Len(w) :
                 /\ Rest(cut, s, SubSeq(w, n + 1, Len(w)), full, p + n)
                 /\ Rest(cut, s, SubSeq(w, 1, n), FALSE, p)
           /\ \A q \in Nat : q <= p => Rest(cut, s, <<>>, FALSE, q)
<1>1. Len(s) \in Nat /\ Len(w) \in Nat /\ \A i \in 1 .. Len(w) : w[i] \in Nat
  BY LenProperties, ElementOfSeq
<1>2. cut[Len(s)] \in Nat BY <1>1
<1>3. ASSUME NEW n \in 0 .. Len(w)
      PROVE  Rest(cut, s, SubSeq(w, n + 1, Len(w)), full, p + n)
  <2> DEFINE v == SubSeq(w, n + 1, Len(w))
  <2>1. /\ n + 1 \in Int /\ Len(w) \in Int
        /\ \A i \in n + 1 .. Len(w) : w[i] \in Nat
    BY <1>1
  <2>2. /\ Len(v) = IF n + 1 <= Len(w) THEN Len(w) - (n + 1) + 1 ELSE 0
        /\ \A i \in 1 .. Len(w) - (n + 1) + 1 : v[i] = w[n + 1 + i - 1]
    BY <2>1, SubSeqProperties
  <2> HIDE DEF v
  <2>3. Len(v) = Len(w) - n BY <1>1, <2>2
  <2>4. ASSUME NEW j \in 1 .. Len(v) PROVE n + j \in 1 .. Len(w) /\ v[j] = w[n + j]
    <3>1. j \in 1 .. Len(w) - (n + 1) + 1 /\ n + 1 + j - 1 = n + j
      BY <1>1, <2>3
    <3>2. n + j \in 1 .. Len(w) BY <1>1, <2>3
    <3> QED BY <2>2, <3>1, <3>2
  <2>5. (p + n) + Len(v) = p + Len(w) BY <1>1, <2>3
  <2>6. ASSUME NEW i \in 1 .. Len(s), NEW k \in 1 .. Len(s[i]),
               NEW j \in 1 .. Len(v), cut[i - 1] + k = (p + n) + j
        PROVE  v[j] = s[i][k]
    <3>1. cut[i - 1] + k = p + (n + j) BY <1>1, <2>3, <2>6
    <3> QED BY <2>4, <3>1 DEF Rest
  <2> QED BY <2>5, <2>6 DEF Rest, v
<1>4. ASSUME NEW n \in 0 .. Len(w) PROVE Rest(cut, s, SubSeq(w, 1, n), FALSE, p)
  <2> DEFINE v == SubSeq(w, 1, n)
  <2>1. n \in Int /\ 1 \in Int /\ \A i \in 1 .. n : w[i] \in Nat BY <1>1
  <2>2. /\ Len(v) = IF 1 <= n THEN n - 1 + 1 ELSE 0
        /\ \A i \in 1 .. n - 1 + 1 : v[i] = w[1 + i - 1]
    BY <2>1, SubSeqProperties
  <2> HIDE DEF v
  <2>3. Len(v) = n BY <1>1, <2>2
  <2>4. ASSUME NEW j \in 1 .. Len(v) PROVE j \in 1 .. Len(w) /\ v[j] = w[j]
    <3>1. j \in 1 .. n - 1 + 1 /\ 1 + j - 1 = j BY <1>1, <2>3
    <3>2. j \in 1 .. Len(w) BY <1>1, <2>3
    <3> QED BY <2>2, <3>1, <3>2
  <2>5. p + Len(v) <= cut[Len(s)]
    <3>1. p + Len(w) <= cut[Len(s)] BY DEF Rest
    <3> QED BY <1>1, <1>2, <2>3, <3>1
  <2>6. ASSUME NEW i \in 1 .. Len(s), NEW k \in 1 .. Len(s[i]),
               NEW j \in 1 .. Len(v), cut[i - 1] + k = p + j
        PROVE  v[j] = s[i][k]
    BY <2>4, <2>6 DEF Rest
  <2> QED BY <2>5, <2>6 DEF Rest, v
<1>5. ASSUME NEW q \in Nat, q <= p PROVE Rest(cut, s, <<>>, FALSE, q)
  <2>1. Len(<<>>) = 0 OBVIOUS
  <2>2. p + Len(w) <= cut[Len(s)] BY DEF Rest
  <2>3. q + 0 <= cut[Len(s)] BY <1>1, <1>2, <1>5, <2>2
  <2> QED BY <2>1, <2>3 DEF Rest
<1> QED BY <1>3, <1>4, <1>5

LEMMA Position ==
    ASSUME NEW s \in Seq(Seq(Nat)), NEW cut \in [0 .. Len(s) -> Nat],
           NEW m \in 0 .. Len(s), NEW x \in Nat
    PROVE  cut[m] \in Nat /\ cut[m] + x \in Nat
<1>1. Len(s) \in Nat BY LenProperties
<1>2. m \in 0 .. Len(s) BY <1>1
<1>3. cut[m] \in Nat BY <1>2
<1> QED BY <1>3

\* Bytes that are on their way are those of a next frame.
LEMMA FedMore ==
    ASSUME NEW s \in Seq(Seq(Nat)), NEW w \in Seq(Nat), NEW full \in BOOLEAN,
           NEW m \in 0 .. Len(s), NEW x \in Nat, Fed(s, w, full, m, x)
    PROVE  Len(w) > 0 => m < Len(s)
<1>0. PICK cut \in [0 .. Len(s) -> Nat] :
        Cuts(cut, s) /\ Rest(cut, s, w, full, cut[m] + x)
  BY DEF Fed
<1> DEFINE p == cut[m] + x
<1>1. /\ Cuts(cut, s) /\ Rest(cut, s, w, full, p)
      /\ p = cut[m] + x /\ cut[m] \in Nat /\ p \in Nat
  BY <1>0, Position
<1> HIDE DEF p
<1>2. Len(s) \in Nat /\ Len(w) \in Nat /\ m <= Len(s) /\ m \in Nat
  <2>1. Len(s) \in Nat BY LenProperties
  <2> QED BY <2>1, LenProperties
<1>3. CASE m = Len(s)
  <2>1. p + Len(w) <= cut[m] BY <1>1, <1>3 DEF Rest
  <2> QED BY <1>1, <1>2, <2>1
<1>4. CASE m # Len(s) BY <1>2, <1>4
<1> QED BY <1>3, <1>4

LEMMA FedTakes ==
    ASSUME NEW s \in Seq(Seq(Nat)), NEW w \in Seq(Nat), NEW full \in BOOLEAN,
           NEW m \in 0 .. Len(s), NEW x \in Nat, Fed(s, w, full, m, x),
           NEW n \in 1 .. Len(w), x + n <= Len(s[m + 1])
    PROVE  /\ \A j \in 1 .. n : w[j] = s[m + 1][x + j]
           /\ Fed(s, SubSeq(w, n + 1, Len(w)), full, m, x + n)
<1>0. PICK cut \in [0 .. Len(s) -> Nat] :
        Cuts(cut, s) /\ Rest(cut, s, w, full, cut[m] + x)
  BY DEF Fed
<1> DEFINE p == cut[m] + x
<1>1. /\ Cuts(cut, s) /\ Rest(cut, s, w, full, p)
      /\ p = cut[m] + x /\ cut[m] \in Nat /\ p \in Nat
  BY <1>0, Position
<1> HIDE DEF p
<1>2. Len(s) \in Nat /\ Len(w) \in Nat /\ m <= Len(s) /\ m \in Nat
  <2>1. Len(s) \in Nat BY LenProperties
  <2> QED BY <2>1, LenProperties
<1>3. n \in Nat /\ 1 <= n /\ n <= Len(w) /\ n \in 0 .. Len(w) BY <1>2
<1>4. m + 1 \in 1 .. Len(s) /\ (m + 1) - 1 = m
  <2>1. Len(w) > 0 BY <1>2, <1>3
  <2>2. m < Len(s) BY <2>1, FedMore
  <2> QED BY <1>2, <2>2
<1>5. Len(s[m + 1]) \in Nat BY <1>4, ElementOfSeq, LenProperties
<1>6. ASSUME NEW j \in 1 .. n PROVE w[j] = s[m + 1][x + j]
  <2>1. x + j \in 1 .. Len(s[m + 1]) BY <1>3, <1>5
  <2>2. j \in 1 .. Len(w) BY <1>2, <1>3
  <2>3. cut[(m + 1) - 1] + (x + j) = p + j BY <1>1, <1>3, <1>4
  <2> QED BY <1>1, <1>4, <2>1, <2>2, <2>3 DEF Rest
<1>7. Rest(cut, s, SubSeq(w, n + 1, Len(w)), full, p + n)
  BY <1>1, <1>3, RestFacts
<1>8. p + n = cut[m] + (x + n) BY <1>1, <1>3
<1> QED BY <1>1, <1>6, <1>7, <1>8 DEF Fed

LEMMA FedNext ==
    ASSUME NEW s \in Seq(Seq(Nat)), NEW w \in Seq(Nat), NEW full \in BOOLEAN,
           NEW m \in 0 .. Len(s), NEW x \in Nat, Fed(s, w, full, m, x),
           m < Len(s), x = Len(s[m + 1])
    PROVE  Fed(s, w, full, m + 1, 0)
<1>0. PICK cut \in [0 .. Len(s) -> Nat] :
        Cuts(cut, s) /\ Rest(cut, s, w, full, cut[m] + x)
  BY DEF Fed
<1> DEFINE p == cut[m] + x
<1>1. /\ Cuts(cut, s) /\ Rest(cut, s, w, full, p)
      /\ p = cut[m] + x /\ cut[m] \in Nat /\ p \in Nat
  BY <1>0, Position
<1> HIDE DEF p
<1>2. m + 1 \in 1 .. Len(s) /\ (m + 1) - 1 = m
  <2>1. Len(s) \in Nat BY LenProperties
  <2> QED BY <2>1
<1>3. cut[m + 1] = p BY <1>1, <1>2 DEF Cuts
<1>4. cut[m + 1] + 0 = p BY <1>1, <1>3
<1> QED BY <1>1, <1>4 DEF Fed

\* The stream is cut, or ends here.
LEMMA FedCut ==
    ASSUME NEW s \in Seq(Seq(Nat)), NEW w \in Seq(Nat), NEW full \in BOOLEAN,
           NEW m \in 0 .. Len(s), NEW x \in Nat, Fed(s, w, full, m, x)
    PROVE  /\ \A n \in 0 .. Len(w) : Fed(s, SubSeq(w, 1, n), FALSE, m, x)
           /\ Fed(s, <<>>, FALSE, m, x)
           /\ Fed(s, <<>>, FALSE, m, 0)
<1>0. PICK cut \in [0 .. Len(s) -> Nat] :
        Cuts(cut, s) /\ Rest(cut, s, w, full, cut[m] + x)
  BY DEF Fed
<1> DEFINE p == cut[m] + x
<1>1. /\ Cuts(cut, s) /\ Rest(cut, s, w, full, p)
      /\ p = cut[m] + x /\ cut[m] \in Nat /\ p \in Nat
  BY <1>0, Position
<1> HIDE DEF p
<1>2. /\ \A n \in 0 .. Len(w) : Rest(cut, s, SubSeq(w, 1, n), FALSE, p)
      /\ \A q \in Nat : q <= p => Rest(cut, s, <<>>, FALSE, q)
  BY <1>1, RestFacts
<1>3. p <= p /\ cut[m] + 0 <= p /\ cut[m] + 0 \in Nat BY <1>1
<1>4. Rest(cut, s, <<>>, FALSE, p) /\ Rest(cut, s, <<>>, FALSE, cut[m] + 0)
  BY <1>1, <1>2, <1>3
<1>5. \A n \in 0 .. Len(w) : Fed(s, SubSeq(w, 1, n), FALSE, m, x)
  BY <1>1, <1>2 DEF Fed
<1>6. Fed(s, <<>>, FALSE, m, x) BY <1>1, <1>4 DEF Fed
<1>7. Fed(s, <<>>, FALSE, m, 0) BY <1>1, <1>4 DEF Fed
<1> QED BY <1>5, <1>6, <1>7

LEMMA FedStart == ASSUME NEW full \in BOOLEAN PROVE Fed(<<>>, <<>>, full, 0, 0)
<1>1. Len(<<>>) = 0 OBVIOUS
<1> DEFINE cut == [i \in 0 .. 0 |-> 0]
<1>2. cut \in [0 .. 0 -> Nat] /\ cut[0] = 0 OBVIOUS
<1> HIDE DEF cut
<1>3. Cuts(cut, <<>>) /\ Rest(cut, <<>>, <<>>, full, cut[0] + 0)
  BY <1>1, <1>2 DEF Cuts, Rest
<1> QED BY <1>1, <1>2, <1>3 DEF Fed

LEMMA FedGrows ==
    ASSUME NEW s \in Seq(Seq(Nat)), NEW w \in Seq(Nat), NEW m \in 0 .. Len(s),
           NEW x \in Nat, NEW f \in Seq(Nat), Fed(s, w, TRUE, m, x)
    PROVE  Fed(Append(s, f), w \o f, TRUE, m, x)
<1> DEFINE c == Append(s, f)
           v == w \o f
           l == Len(s)
           a == Len(w)
           b == Len(f)
<1>1. PICK cut \in [0 .. Len(s) -> Nat] :
        Cuts(cut, s) /\ Rest(cut, s, w, TRUE, cut[m] + x)
  BY DEF Fed
<1> DEFINE p == cut[m] + x
<1>2. /\ l \in Nat /\ a \in Nat /\ b \in Nat /\ m \in Nat /\ m <= l
      /\ p \in Nat
      /\ \A i \in 0 .. l : cut[i] \in Nat
  <2>1. l \in Nat /\ a \in Nat /\ b \in Nat BY LenProperties
  <2>2. m \in 0 .. l /\ m \in Nat /\ m <= l BY <2>1
  <2>3. \A i \in 0 .. l : cut[i] \in Nat OBVIOUS
  <2> QED BY <2>1, <2>2, <2>3
<1>3. \A i \in 1 .. l : Len(s[i]) \in Nat BY ElementOfSeq, LenProperties
<1>4. /\ p + a = cut[l]
      /\ \A i \in 1 .. l : cut[i] = cut[i - 1] + Len(s[i])
      /\ \A i \in 0 .. l : cut[i] <= cut[l]
  BY <1>1 DEF Cuts, Rest
<1>5. /\ Len(c) = l + 1 /\ c[l + 1] = f
      /\ \A i \in 1 .. l : c[i] = s[i]
  BY AppendProperties
<1>6. /\ Len(v) = a + b
      /\ \A j \in 1 .. a : v[j] = w[j]
      /\ \A k \in 1 .. b : v[a + k] = f[k]
  <2>1. \A i \in 1 .. a + b : v[i] = IF i <= a THEN w[i] ELSE f[i - a]
    BY ConcatProperties
  <2>2. Len(v) = a + b BY ConcatProperties
  <2> HIDE DEF v, a, b
  <2>3. ASSUME NEW k \in 1 .. b PROVE v[a + k] = f[k]
    <3>1. a + k \in 1 .. a + b /\ ~(a + k <= a) /\ (a + k) - a = k BY <1>2
    <3> QED BY <2>1, <3>1
  <2>4. ASSUME NEW j \in 1 .. a PROVE v[j] = w[j]
    <3>1. j \in 1 .. a + b /\ j <= a BY <1>2
    <3> QED BY <2>1, <3>1
  <2> QED BY <2>2, <2>3, <2>4
<1> DEFINE new == [i \in 0 .. l + 1 |-> IF i <= l THEN cut[i] ELSE cut[l] + b]
<1>7. /\ new \in [0 .. l + 1 -> Nat]
      /\ \A i \in 0 .. l : new[i] = cut[i]
      /\ new[l + 1] = cut[l] + b
      /\ cut[l] \in Nat /\ new[m] + x = p /\ l \in 0 .. l
  BY <1>2
<1>8. \A i \in 1 .. l : i \in 0 .. l /\ i - 1 \in 0 .. l BY <1>2
<1>9. \A i \in 1 .. l + 1 : i \in 1 .. l \/ (i = l + 1 /\ i - 1 = l) BY <1>2
<1>10. \A i \in 1 .. l : \A k \in 1 .. Len(s[i]) : \A j \in 1 .. a :
          cut[i - 1] + k = p + j => w[j] = s[i][k]
  BY <1>1 DEF Rest
<1> HIDE DEF new, c, v, l, a, b, p
<1>11. Cuts(new, c)
  <2>1. ASSUME NEW i \in 1 .. l + 1 PROVE new[i] = new[i - 1] + Len(c[i])
    <3>1. CASE i \in 1 .. l BY <1>4, <1>5, <1>7, <1>8, <3>1
    <3>2. CASE i = l + 1 /\ i - 1 = l BY <1>5, <1>7, <3>2 DEF b
    <3> QED BY <1>9, <3>1, <3>2
  <2>2. ASSUME NEW i \in 0 .. l + 1 PROVE new[i] <= new[l + 1]
    <3>1. CASE i \in 0 .. l
      <4>1. new[i] <= cut[l] /\ new[i] \in Nat BY <1>2, <1>4, <1>7, <3>1
      <4>2. cut[l] \in Nat /\ new[l + 1] = cut[l] + b /\ b \in Nat
        BY <1>2, <1>7
      <4> QED BY <4>1, <4>2
    <3>2. CASE i = l + 1 BY <1>2, <1>7, <3>2
    <3> QED BY <1>2, <3>1, <3>2
  <2> QED BY <1>5, <2>1, <2>2 DEF Cuts
<1>12. ASSUME NEW i \in 1 .. l + 1, NEW k \in 1 .. Len(c[i]),
              NEW j \in 1 .. a + b, new[i - 1] + k = p + j
       PROVE  v[j] = c[i][k]
  <2>1. CASE i = l + 1 /\ i - 1 = l
    <3>1. cut[l] + k = p + j /\ k \in 1 .. b
      BY <1>5, <1>7, <1>12, <2>1 DEF b
    <3>2. j = a + k BY <1>2, <1>4, <3>1
    <3> QED BY <1>5, <1>6, <2>1, <3>1, <3>2
  <2>2. CASE i \in 1 .. l
    <3>1. /\ cut[i - 1] \in Nat /\ Len(s[i]) \in Nat /\ k \in 1 .. Len(s[i])
          /\ cut[i - 1] + k = p + j /\ c[i] = s[i]
      BY <1>2, <1>3, <1>5, <1>7, <1>8, <1>12, <2>2
    <3>2. cut[i - 1] + Len(s[i]) <= cut[l] BY <1>4, <1>8, <2>2
    <3>3. j \in 1 .. a
      <4>1. /\ cut[l] \in Nat /\ k \in Nat /\ k <= Len(s[i])
            /\ cut[i - 1] \in Nat /\ Len(s[i]) \in Nat
        BY <1>7, <3>1
      <4>2. \A d, e, g, h \in Nat : d + e <= h /\ g <= e => d + g <= h
        OBVIOUS
      <4>3. cut[i - 1] + k <= cut[l] BY <3>2, <4>1, <4>2
      <4>4. p + j <= p + a BY <1>4, <3>1, <4>3
      <4> QED BY <1>2, <4>4
    <3>4. w[j] = s[i][k] BY <1>10, <2>2, <3>1, <3>3
    <3> QED BY <1>6, <3>1, <3>3, <3>4
  <2> QED BY <1>9, <2>1, <2>2
<1>13. Rest(new, c, v, TRUE, p)
  <2>0. /\ Len(v) = a + b /\ p + a = cut[l] /\ new[l + 1] = cut[l] + b
        /\ p \in Nat /\ a \in Nat /\ b \in Nat
    BY <1>2, <1>4, <1>6, <1>7
  <2>1. p + Len(v) = new[l + 1] BY <2>0
  <2>2. p + Len(v) <= new[l + 1] BY <2>0
  <2> QED BY <1>5, <1>6, <1>12, <2>1, <2>2 DEF Rest
<1>14. Fed(c, v, TRUE, m, x) BY <1>5, <1>7, <1>11, <1>13 DEF Fed
<1> QED BY <1>14 DEF c, v
-----------------------------------------------------------------------------
(* The length of a well-formed frame *)

LEMMA Digits ==
    ASSUME NEW f \in Seq(Nat), NEW k \in 1 .. 3
    PROVE  /\ LengthOf(f, k + 1)
                 = LengthOf(f, k) + (Digit(f[k + 2]) * Weight(k))
           /\ Weight(k + 1) = Weight(k) * Radix
<1>1. CASE k = 1
  <2>1. k + 1 = 2 /\ k + 2 = 3 BY <1>1
  <2>2. /\ LengthOf(f, 2) = Digit(f[2]) + (Digit(f[3]) * Radix)
        /\ LengthOf(f, 1) = Digit(f[2])
        /\ Weight(1) = Radix /\ Weight(2) = Radix * Radix
    BY DEF LengthOf, Weight
  <2> QED BY <1>1, <2>1, <2>2
<1>2. CASE k = 2
  <2>1. k + 1 = 3 /\ k + 2 = 4 BY <1>2
  <2>2. /\ LengthOf(f, 3) = Digit(f[2]) + (Digit(f[3]) * Radix)
                               + (Digit(f[4]) * (Radix * Radix))
        /\ LengthOf(f, 2) = Digit(f[2]) + (Digit(f[3]) * Radix)
        /\ Weight(2) = Radix * Radix /\ Weight(3) = Radix * Radix * Radix
    BY DEF LengthOf, Weight
  <2> QED BY <1>2, <2>1, <2>2
<1>3. CASE k = 3
  <2>1. k + 1 = 4 /\ k + 2 = 5 BY <1>3
  <2>2. /\ LengthOf(f, 4) = Digit(f[2]) + (Digit(f[3]) * Radix)
                               + (Digit(f[4]) * (Radix * Radix))
                               + (Digit(f[5]) * (Radix * Radix * Radix))
        /\ LengthOf(f, 3) = Digit(f[2]) + (Digit(f[3]) * Radix)
                               + (Digit(f[4]) * (Radix * Radix))
        /\ Weight(3) = Radix * Radix * Radix
        /\ Weight(4) = Radix * Radix * Radix * Radix
    BY DEF LengthOf, Weight
  <2> QED BY <1>3, <2>1, <2>2
<1> QED BY <1>1, <1>2, <1>3

\* The first two bytes of a frame.
LEMMA FixedFrame ==
    ASSUME NEW f \in Seq(Nat), WellFormed(f), NEW b \in Seq(Nat), Len(b) = 2,
           \A j \in 1 .. 2 : b[j] = f[j]
    PROVE  /\ ValidType(b[1])
           /\ Continues(b[2]) => Knows(f, "length", b, NewLength(b[2]))
           /\ ~Continues(b[2]) => /\ Len(f) = 2 + Digit(b[2])
                                  /\ Starts(b, f)
<1>1. PICK w \in 1 .. 4 :
          /\ Len(f) >= w + 1
          /\ ValidType(f[1])
          /\ \A i \in 2 .. w : Continues(f[i])
          /\ ~Continues(f[w + 1])
          /\ Len(f) = w + 1 + LengthOf(f, w)
  BY DEF WellFormed
<1>2. /\ b[1] = f[1] /\ b[2] = f[2] /\ Len(f) \in Nat
      /\ 1 \in 1 .. 2 /\ 2 \in 1 .. 2
  BY LenProperties
<1>3. Starts(b, f)
  <2>1. Len(b) <= Len(f) BY <1>1, <1>2
  <2> QED BY <2>1 DEF Starts
<1>4. /\ LengthOf(f, 1) = Digit(f[2]) /\ Weight(1) = Radix
  BY DEF LengthOf, Weight
<1>5. ASSUME Continues(b[2]) PROVE Knows(f, "length", b, NewLength(b[2]))
  <2>1. \A i \in 2 .. Len(b) : Continues(f[i])
    <3>1. \A i \in 2 .. Len(b) : i = 2 OBVIOUS
    <3> QED BY <1>2, <1>5, <3>1
  <2> QED BY <1>2, <1>3, <1>4, <2>1 DEF Knows, NewLength
<1>6. ASSUME ~Continues(b[2]) PROVE Len(f) = 2 + Digit(b[2])
  <2>1. w = 1
    <3>1. CASE w > 1
      <4>1. 2 \in 2 .. w BY <3>1
      <4> QED BY <1>1, <1>2, <1>6, <4>1
    <3> QED BY <3>1
  <2> QED BY <1>1, <1>2, <1>4, <2>1
<1> QED BY <1>1, <1>2, <1>3, <1>5, <1>6

\* One more byte of the length.
LEMMA LengthFrame ==
    ASSUME NEW f \in Seq(Nat), WellFormed(f), NEW h \in Seq(Nat),
           NEW n \in Lengths, n.bytesRead <= 4, Knows(f, "length", h, n)
    PROVE  LET b == f[Len(h) + 1]
               k == Assembled(n, b)
           IN  /\ Len(h) + 1 <= Len(f) /\ ~TooLong(k)
               /\ Continues(b) => Knows(f, "length", Append(h, b), k)
               /\ ~Continues(b) => /\ Len(f) = Len(h) + 1 + k.remaining
                                   /\ Starts(Append(h, b), f)
<1>1. PICK w \in 1 .. 4 :
          /\ Len(f) >= w + 1
          /\ ValidType(f[1])
          /\ \A i \in 2 .. w : Continues(f[i])
          /\ ~Continues(f[w + 1])
          /\ Len(f) = w + 1 + LengthOf(f, w)
  BY DEF WellFormed
<1> DEFINE r == n.bytesRead
           b == f[Len(h) + 1]
           k == Assembled(n, b)
           g == Append(h, b)
<1>2. /\ Len(h) = r + 1 /\ Starts(h, f)
      /\ n.multiplier = Weight(r) /\ n.remaining = LengthOf(f, r)
      /\ \A i \in 2 .. r + 1 : Continues(f[i])
      /\ r \in 1 .. 4
  BY DEF Knows, Lengths
<1>3. r < w
  <2>1. CASE w <= r
    <3>1. w + 1 \in 2 .. r + 1 BY <1>2, <2>1
    <3> QED BY <1>1, <1>2, <3>1
  <2> QED BY <1>2, <2>1
<1>4. r \in 1 .. 3 /\ Len(f) \in Nat /\ Len(h) + 1 <= Len(f)
  <2>1. Len(f) \in Nat BY LenProperties
  <2>2. r \in 1 .. 3 BY <1>2, <1>3
  <2> QED BY <1>1, <1>2, <1>3, <2>1, <2>2
<1>5. /\ k.bytesRead = r + 1 /\ k.multiplier = n.multiplier * Radix
      /\ k.remaining = n.remaining + (Digit(b) * n.multiplier)
  BY DEF Assembled
<1>6. ~TooLong(k) BY <1>4, <1>5 DEF TooLong
<1>7. k.multiplier = Weight(r + 1) /\ k.remaining = LengthOf(f, r + 1)
  <2>1. b = f[r + 2]
    <3>1. Len(h) + 1 = r + 2 BY <1>2
    <3> QED BY <3>1
  <2> HIDE DEF b, r, k
  <2> QED BY <1>2, <1>4, <1>5, <2>1, Digits
<1>8. Len(g) = r + 2 /\ Starts(g, f)
  <2>1. b \in Nat
    <3>1. Len(h) + 1 \in 1 .. Len(f) BY <1>2, <1>4
    <3> QED BY <3>1, ElementOfSeq
  <2>2. /\ Len(g) = Len(h) + 1 /\ g[Len(h) + 1] = b
        /\ \A i \in 1 .. Len(h) : g[i] = h[i]
    <3> HIDE DEF b
    <3> QED BY <2>1, AppendProperties
  <2>3. \A i \in 1 .. Len(g) : i \in 1 .. Len(h) \/ i = Len(h) + 1
    BY <1>2, <2>2
  <2>4. \A i \in 1 .. Len(h) : h[i] = f[i] BY <1>2 DEF Starts
  <2>5. \A i \in 1 .. Len(g) : g[i] = f[i] BY <2>2, <2>3, <2>4
  <2>6. Len(g) <= Len(f) /\ Len(g) = r + 2
    <3>1. Len(g) = Len(h) + 1 BY <2>2
    <3> HIDE DEF g, r
    <3> QED BY <1>2, <1>4, <3>1
  <2> QED BY <2>5, <2>6 DEF Starts
<1>9. ASSUME Continues(b) PROVE Knows(f, "length", g, k)
  <2>1. ASSUME NEW i \in 2 .. Len(g) PROVE Continues(f[i])
    <3>1. i \in 2 .. r + 1 \/ i = Len(h) + 1 BY <1>2, <1>8
    <3> QED BY <1>2, <1>9, <3>1
  <2>2. Len(g) = k.bytesRead + 1 BY <1>2, <1>5, <1>8
  <2> HIDE DEF g, k, b
  <2>3. k.multiplier = Weight(k.bytesRead) /\ k.remaining = LengthOf(f, k.bytesRead)
    BY <1>5, <1>7
  <2> QED BY <1>8, <2>1, <2>2, <2>3 DEF Knows
<1>10. ASSUME ~Continues(b) PROVE Len(f) = Len(h) + 1 + k.remaining
  <2>1. w = r + 1
    <3>1. CASE w > r + 1
      <4>1. Len(h) + 1 \in 2 .. w BY <1>2, <3>1
      <4> QED BY <1>1, <1>10, <4>1
    <3> QED BY <1>2, <1>3, <3>1
  <2>2. Len(h) + 1 = w + 1 BY <1>2, <2>1
  <2> HIDE DEF k
  <2> QED BY <1>1, <1>7, <2>1, <2>2
<1> QED BY <1>4, <1>6, <1>8, <1>9, <1>10

\* The whole of it.
LEMMA WholeFrame ==
    ASSUME NEW f \in Seq(Nat), NEW h \in Seq(Nat), Starts(h, f)
    PROVE  /\ Len(h) = Len(f) => h = f
           /\ \A b \in Seq(Nat) :
                 /\ Len(b) = Len(f) - Len(h)
                 /\ \A j \in 1 .. Len(b) : b[j] = f[Len(h) + j]
                 => h \o b = f
<1>1. /\ Len(h) \in Nat /\ Len(f) \in Nat /\ Len(h) <= Len(f)
      /\ \A i \in 1 .. Len(h) : h[i] = f[i]
  BY LenProperties DEF Starts
<1>2. ASSUME Len(h) = Len(f) PROVE h = f
  <2>1. \A i \in 1 .. Len(h) : h[i] = f[i] BY <1>1
  <2> QED BY <1>2, <2>1, SeqEqual
<1>3. ASSUME NEW b \in Seq(Nat), Len(b) = Len(f) - Len(h),
             \A j \in 1 .. Len(b) : b[j] = f[Len(h) + j]
      PROVE  h \o b = f
  <2> DEFINE c == h \o b
  <2>1. /\ c \in Seq(Nat) /\ Len(c) = Len(h) + Len(b)
        /\ \A i \in 1 .. Len(h) + Len(b) :
              c[i] = IF i <= Len(h) THEN h[i] ELSE b[i - Len(h)]
    BY ConcatProperties
  <2> HIDE DEF c
  <2>2. Len(b) \in Nat /\ Len(c) = Len(f) BY <1>1, <1>3, <2>1, LenProperties
  <2>3. ASSUME NEW i \in 1 .. Len(c) PROVE c[i] = f[i]
    <3>1. CASE i <= Len(h)
      <4>1. i \in 1 .. Len(h) /\ i \in 1 .. Len(h) + Len(b)
        BY <1>1, <2>1, <2>2, <3>1
      <4> QED BY <1>1, <2>1, <3>1, <4>1
    <3>2. CASE ~(i <= Len(h))
      <4>1. /\ i \in 1 .. Len(h) + Len(b) /\ i - Len(h) \in 1 .. Len(b)
            /\ Len(h) + (i - Len(h)) = i
        BY <1>1, <2>1, <2>2, <3>2
      <4> QED BY <1>3, <2>1, <3>2, <4>1
    <3> QED BY <3>1, <3>2
  <2>4. c = f BY <2>1, <2>2, <2>3, SeqEqual
  <2> QED BY <2>4 DEF c
<1> QED BY <1>2, <1>3
-----------------------------------------------------------------------------
(* The stream under the reader *)

LEMMA FitsFed ==
    ASSUME NEW s \in Seq(Seq(Nat)), NEW w \in Seq(Nat), NEW full \in BOOLEAN,
           NEW m \in 0 .. Len(s), NEW h \in Seq(Nat), NEW n
    PROVE  /\ \A o : Pending(o, s, w, full, m, h, n) =>
                 /\ Fed(s, <<>>, FALSE, m, 0)
                 /\ \A k \in 0 .. Len(w) :
                       Pending(o, s, SubSeq(w, 1, k), FALSE, m, h, n)
           /\ \A g \in Completed : Fits(g, s, w, full, m, h, n) =>
                 /\ Fits(g, s, <<>>, FALSE, m, h, n)
                 /\ \A k \in 0 .. Len(w) :
                       Fits(g, s, SubSeq(w, 1, k), FALSE, m, h, n)
<1>1. \A step : Consumed(step, h) \in Nat BY LenProperties DEF Consumed
<1>2. \A x \in Nat : Fed(s, w, full, m, x) =>
         /\ Fed(s, <<>>, FALSE, m, 0) /\ Fed(s, <<>>, FALSE, m, x)
         /\ \A k \in 0 .. Len(w) : Fed(s, SubSeq(w, 1, k), FALSE, m, x)
  <2>1. ASSUME NEW x \in Nat, Fed(s, w, full, m, x)
        PROVE  /\ Fed(s, <<>>, FALSE, m, 0) /\ Fed(s, <<>>, FALSE, m, x)
               /\ \A k \in 0 .. Len(w) : Fed(s, SubSeq(w, 1, k), FALSE, m, x)
    BY <2>1, FedCut
  <2> QED BY <2>1
<1>3. ASSUME NEW o, Pending(o, s, w, full, m, h, n)
      PROVE  /\ Fed(s, <<>>, FALSE, m, 0)
             /\ \A k \in 0 .. Len(w) :
                   Pending(o, s, SubSeq(w, 1, k), FALSE, m, h, n)
  BY <1>1, <1>2, <1>3 DEF Pending
<1>4. ASSUME NEW g \in Completed, Fits(g, s, w, full, m, h, n)
      PROVE  /\ Fits(g, s, <<>>, FALSE, m, h, n)
             /\ \A k \in 0 .. Len(w) :
                   Fits(g, s, SubSeq(w, 1, k), FALSE, m, h, n)
  <2>1. Len(g.bytes) \in Nat
    <3>1. g.bytes \in Seq(Nat) BY DEF Completed, Handlers
    <3> QED BY <3>1, LenProperties
  <2>2. Consumed(g.kind, h) + Len(g.bytes) \in Nat BY <1>1, <2>1
  <2> QED BY <1>2, <1>4, <2>2 DEF Fits
<1> QED BY <1>3, <1>4

LEMMA FitsGrow ==
    ASSUME NEW s \in Seq(Seq(Nat)), NEW w \in Seq(Nat),
           NEW m \in 0 .. Len(s), NEW h \in Seq(Nat), NEW n, NEW f \in Seq(Nat)
    PROVE  /\ Fed(s, w, TRUE, m, 0) => Fed(Append(s, f), w \o f, TRUE, m, 0)
           /\ \A o : Pending(o, s, w, TRUE, m, h, n) =>
                 Pending(o, Append(s, f), w \o f, TRUE, m, h, n)
           /\ \A g \in Completed : Fits(g, s, w, TRUE, m, h, n) =>
                 Fits(g, Append(s, f), w \o f, TRUE, m, h, n)
<1> DEFINE c == Append(s, f)
           v == w \o f
<1>1. \A step : Consumed(step, h) \in Nat BY LenProperties DEF Consumed
<1>2. \A x \in Nat : Fed(s, w, TRUE, m, x) => Fed(c, v, TRUE, m, x)
  BY FedGrows
<1>3. m < Len(s) => m < Len(c) /\ c[m + 1] = s[m + 1]
  <2>1. Len(s) \in Nat BY LenProperties
  <2>2. m < Len(s) => m + 1 \in 1 .. Len(s) BY <2>1
  <2>3. Len(c) = Len(s) + 1 /\ \A i \in 1 .. Len(s) : c[i] = s[i]
    BY AppendProperties
  <2> HIDE DEF c
  <2> QED BY <2>1, <2>2, <2>3
<1> HIDE DEF c, v
<1>4. ASSUME NEW o, Pending(o, s, w, TRUE, m, h, n)
      PROVE  Pending(o, c, v, TRUE, m, h, n)
  <2>1. o.step = "body" => o.step # "fixed" OBVIOUS
  <2>2. Fed(c, v, TRUE, m, Consumed(o.step, h))
    BY <1>1, <1>2, <1>4 DEF Pending
  <2>3. o.step # "fixed" => m < Len(c) /\ Knows(c[m + 1], o.step, h, n)
    BY <1>3, <1>4 DEF Pending
  <2>4. o.step = "body" => o.want = Len(c[m + 1]) - Len(h)
    BY <1>3, <1>4, <2>1 DEF Pending
  <2> QED BY <2>2, <2>3, <2>4 DEF Pending
<1>5. ASSUME NEW g \in Completed, Fits(g, s, w, TRUE, m, h, n)
      PROVE  Fits(g, c, v, TRUE, m, h, n)
  <2>1. Len(g.bytes) \in Nat
    <3>1. g.bytes \in Seq(Nat) BY DEF Completed, Handlers
    <3> QED BY <3>1, LenProperties
  <2>2. Consumed(g.kind, h) + Len(g.bytes) \in Nat BY <1>1, <2>1
  <2> QED BY <1>2, <1>3, <1>5, <2>2 DEF Fits
<1> QED BY <1>2, <1>4, <1>5 DEF c, v

\* An outstanding step gets its bytes, which are those of the frame.
LEMMA PendingFits ==
    ASSUME NEW s \in Seq(Seq(Nat)), NEW w \in Seq(Nat), NEW full \in BOOLEAN,
           NEW m \in 0 .. Len(s), NEW h \in Seq(Nat), NEW n \in Lengths,
           m < Len(s) => WellFormed(s[m + 1]),
           NEW o \in [step : Steps, want : Nat \ {0}],
           Pending(o, s, w, full, m, h, n), Len(w) >= o.want,
           o.step = "fixed" => o.want = 2,
           o.step = "length" => o.want = 1 /\ n.bytesRead <= 4,
           NEW g \in Completed, g.kind = o.step, g.ok,
           Len(g.bytes) = o.want, g.bytes = SubSeq(w, 1, o.want)
    PROVE  Fits(g, s, SubSeq(w, o.want + 1, Len(w)), full, m, h, n)
<1> DEFINE a == o.want
           x == Consumed(o.step, h)
           f == s[m + 1]
<1>1. /\ a \in Nat /\ a >= 1 /\ Len(w) \in Nat /\ a \in 1 .. Len(w)
      /\ Len(h) \in Nat /\ x \in Nat
  BY LenProperties DEF Consumed
<1>2. Fed(s, w, full, m, x) BY DEF Pending
<1>3. m < Len(s)
  <2>1. Len(w) > 0 BY <1>1
  <2>2. x \in Nat BY <1>1
  <2> HIDE DEF x
  <2>3. Fed(s, w, full, m, x) BY <1>2
  <2> QED BY <2>1, <2>2, <2>3, FedMore
<1>4. f \in Seq(Nat) /\ WellFormed(f) /\ Len(f) \in Nat
  <2>1. m + 1 \in 1 .. Len(s)
    <3>1. Len(s) \in Nat BY LenProperties
    <3> QED BY <1>3, <3>1
  <2>2. f \in Seq(Nat) BY <2>1, ElementOfSeq
  <2> QED BY <1>3, <2>2, LenProperties
<1>5. /\ Knows(f, o.step, h, n) /\ x + a <= Len(f)
      /\ o.step = "body" => a = Len(f) - Len(h)
  <2>1. CASE o.step = "fixed"
    <3>1. a = 2 /\ x = 0 BY <2>1 DEF Consumed
    <3>2. Len(f) >= 2
      <4>1. WellFormed(f) /\ Len(f) \in Nat BY <1>4
      <4> HIDE DEF f
      <4>2. PICK k \in 1 .. 4 : Len(f) >= k + 1 BY <4>1 DEF WellFormed
      <4> QED BY <4>1, <4>2
    <3> HIDE DEF f
    <3> QED BY <2>1, <3>1, <3>2 DEF Knows
  <2>2. CASE o.step = "length"
    <3>1. Knows(f, "length", h, n) /\ a = 1 /\ x = Len(h)
      BY <2>2 DEF Pending, Consumed
    <3>2. Len(h) + 1 <= Len(f)
      <4> HIDE DEF f
      <4> QED BY <1>4, <2>2, <3>1, LengthFrame
    <3> QED BY <2>2, <3>1, <3>2
  <2>3. CASE o.step = "body"
    <3>1. Knows(f, "body", h, n) /\ a = Len(f) - Len(h) /\ x = Len(h)
      BY <2>3 DEF Pending, Consumed
    <3>2. x + a <= Len(f) BY <1>1, <1>4, <3>1
    <3> QED BY <2>3, <3>1, <3>2
  <2> QED BY <2>1, <2>2, <2>3 DEF Steps
<1>6. /\ \A j \in 1 .. a : w[j] = f[x + j]
      /\ Fed(s, SubSeq(w, a + 1, Len(w)), full, m, x + a)
  <2>1. x \in Nat /\ a \in 1 .. Len(w) /\ x + a <= Len(s[m + 1])
    BY <1>1, <1>5
  <2> HIDE DEF x, a
  <2>2. Fed(s, w, full, m, x) BY <1>2
  <2> QED BY <2>1, <2>2, FedTakes
<1>7. \A j \in 1 .. Len(g.bytes) : g.bytes[j] = f[x + j]
  <2>1. \A i \in 1 .. a : w[i] \in Nat BY <1>1, ElementOfSeq
  <2>2. \A i \in 1 .. a - 1 + 1 : SubSeq(w, 1, a)[i] = w[1 + i - 1]
    BY <1>1, <2>1, SubSeqProperties
  <2>3. ASSUME NEW j \in 1 .. a PROVE SubSeq(w, 1, a)[j] = w[j]
    <3>1. j \in 1 .. a - 1 + 1 /\ 1 + j - 1 = j BY <1>1
    <3> QED BY <2>2, <3>1
  <2> HIDE DEF f, x
  <2> QED BY <1>6, <2>3
<1>8. Brings(g, f, h, n)
  <2> HIDE DEF f
  <2> QED BY <1>5, <1>7 DEF Brings
<1> QED BY <1>3, <1>6, <1>8 DEF Fits
-----------------------------------------------------------------------------
(* The reader follows the stream *)

LEMMA FollowFacts ==
    ASSUME IInv
    PROVE  /\ sent \in Seq(Seq(Nat)) /\ wire \in Seq(Nat) /\ got \in Seq(Seq(Nat))
           /\ header \in Seq(Nat) /\ length \in Lengths /\ Full \in BOOLEAN
           /\ loop \in Seq(Completed)
           /\ Elements(loop) \subseteq Completed
           /\ Len(sent) \in Nat /\ Len(got) \in Nat /\ Done \in Nat
           /\ Told => Done \in 0 .. Len(sent)
           /\ Clean /\ Sane =>
                 \A i \in 1 .. Len(sent) : sent[i] \in Seq(Nat)
                                           /\ WellFormed(sent[i])
<1>1. /\ sent \in Seq(Seq(Nat)) /\ wire \in Seq(Nat) /\ got \in Seq(Seq(Nat))
      /\ header \in Seq(Nat) /\ length \in Lengths
      /\ loop \in Seq(Completed)
  BY DEF IInv, TypeOK
<1>2. Full \in BOOLEAN BY DEF Full
<1>3. Elements(loop) \subseteq Completed BY <1>1, ElementOfSeq DEF Elements
<1>4. Len(sent) \in Nat /\ Len(got) \in Nat BY <1>1, LenProperties
<1>5. Done \in Nat BY <1>4 DEF Done
<1>6. Told => Done \in 0 .. Len(sent) BY <1>4, <1>5 DEF Told
<1>7. Clean /\ Sane => \A i \in 1 .. Len(sent) : sent[i] \in Seq(Nat)
                                                 /\ WellFormed(sent[i])
  BY <1>1, ElementOfSeq DEF Clean, Sane
<1> QED BY <1>1, <1>2, <1>3, <1>4, <1>5, <1>6, <1>7

\* The packets are those of the state before.
LEMMA ToldSame ==
    ASSUME Told, UNCHANGED <<sent, got>>,
           Some(loop', {"packet"}) <=> Some(loop, {"packet"}),
           \A g \in Elements(loop') : g.kind = "packet" => g \in Elements(loop)
    PROVE  Told' /\ Done' = Done
<1>1. Done' = Done BY DEF Done
<1> QED BY <1>1 DEF Told

\* A step that leaves the reader and the stream alone.
LEMMA FKeep ==
    ASSUME IInv, FInv, UNCHANGED <<reader, open, stream, peer, got>>,
           Some(loop', {"packet"}) <=> Some(loop, {"packet"}),
           \A g \in Elements(loop') : g.kind \in ChainKinds \/ g \in Elements(loop)
    PROVE  FInv'
<1> SUFFICES ASSUME Clean' PROVE Told' /\ Following' /\ Calm'
  BY DEF FInv
<1>1. /\ UNCHANGED <<depth, header, length, op, open, stream, wire, ended, sent,
                     got>>
  BY DEF reader, peer
<1>2. Told /\ Following /\ Calm BY <1>1 DEF FInv, Clean
<1>3. \A g \in Elements(loop') :
         g.kind \in Steps \cup {"packet", "error"} => g \in Elements(loop)
  BY DEF ChainKinds, Steps
<1>4. Told' /\ Done' = Done
  <2>1. \A g \in Elements(loop') : g.kind = "packet" => g \in Elements(loop)
    BY <1>3
  <2> QED BY <1>1, <1>2, <2>1, ToldSame
<1>5. Full' = Full BY <1>1 DEF Full
<1>6. Following' BY <1>1, <1>2, <1>3, <1>4, <1>5 DEF Following
<1>7. Calm' BY <1>1, <1>2, <1>3 DEF Calm
<1> QED BY <1>4, <1>6, <1>7

\* The socket is closed.
LEMMA FClose ==
    ASSUME IInv, FInv, NEW rest \in Seq(Completed),
           Elements(rest) \subseteq Elements(loop),
           Some(rest, {"packet"}) <=> Some(loop, {"packet"}),
           CloseSocket(rest)
    PROVE  FInv'
<1> SUFFICES ASSUME Clean' PROVE Told' /\ Following' /\ Calm'
  BY DEF FInv
<1>1. /\ open' = FALSE /\ op' = NoOp /\ wire' = <<>> /\ Full' = FALSE
      /\ UNCHANGED <<depth, header, length, sent, got>>
  BY DEF CloseSocket, Full
<1>2. Told /\ Following BY <1>1 DEF FInv, Clean
<1>3. /\ Some(loop', {"packet"}) <=> Some(loop, {"packet"})
      /\ \A g \in Elements(loop') :
            \/ g \in Elements(loop)
            \/ op # NoOp /\ g.kind \in Steps /\ ~g.ok
  <2>1. CASE op = NoOp
    <3>1. loop' = rest BY <2>1 DEF CloseSocket
    <3> QED BY <3>1
  <2>2. CASE op # NoOp
    <3> DEFINE b == Broken(op.step)
    <3>1. op.step \in Steps BY <2>2 DEF IInv, TypeOK
    <3>2. b \in Completed /\ b.kind = op.step
      BY <3>1, NewHandlers DEF IInv, TypeOK
    <3>3. ~b.ok BY DEF Broken, Handler
    <3>4. loop' = Append(rest, b) BY <2>2 DEF CloseSocket
    <3> HIDE DEF b
    <3>5. /\ Some(loop', {"packet"}) <=> Some(rest, {"packet"})
                                         \/ b.kind \in {"packet"}
          /\ Elements(loop') = Elements(rest) \cup {b}
      BY <3>2, <3>4, AppendQueue, AppendMore
    <3>6. b.kind \notin {"packet"} BY <3>1, <3>2 DEF Steps
    <3> QED BY <2>2, <3>1, <3>2, <3>3, <3>5, <3>6
  <2> QED BY <2>1, <2>2
<1>4. Told' /\ Done' = Done
  <2>1. \A g \in Elements(loop') : g.kind = "packet" => g \in Elements(loop)
    BY <1>3 DEF Steps
  <2> QED BY <1>1, <1>2, <1>3, <2>1, ToldSame
<1>5. Following'
  <2>1. /\ sent \in Seq(Seq(Nat)) /\ wire \in Seq(Nat) /\ header \in Seq(Nat)
        /\ Full \in BOOLEAN /\ Done \in 0 .. Len(sent)
        /\ Elements(loop) \subseteq Completed
    BY <1>2, FollowFacts
  <2>2. depth = 0 => Fed(sent, <<>>, FALSE, Done, 0)
    BY <1>2, <2>1, FedCut DEF Following
  <2>3. op # NoOp => Fed(sent, <<>>, FALSE, Done, 0)
    BY <1>2, <2>1, FitsFed DEF Following
  <2>4. \A g \in Elements(loop) : g.kind \in Steps =>
           Fits(g, sent, <<>>, FALSE, Done, header, length)
    BY <1>2, <2>1, FitsFed DEF Following
  <2>5. \A g \in Elements(loop') : g.kind \in Steps =>
           Fits(g, sent, <<>>, FALSE, Done, header, length)
    BY <1>3, <2>3, <2>4 DEF Fits
  <2> QED BY <1>1, <1>4, <2>2, <2>5 DEF Following
<1>6. Calm' BY <1>1 DEF Calm
<1> QED BY <1>4, <1>5, <1>6

\* The frames of the traffic are well formed or junk.
LEMMA NextFrame ==
    ASSUME IInv, PeerSends
    PROVE  \E f \in Seq(Nat) :
               /\ sent' = Append(sent, f) /\ wire' = wire \o f
               /\ f \in Junk \/ WellFormed(f)
<1>1. PICK t \in Traffic[stream] :
          /\ Len(sent) < Len(t)
          /\ sent' = Append(sent, t[Len(sent) + 1])
          /\ wire' = wire \o t[Len(sent) + 1]
  BY DEF PeerSends
<1>2. stream \in Nat /\ stream >= 1 /\ stream <= Len(Traffic)
  BY DEF PeerSends, IInv, TypeOK, OneChain
<1>3. stream \in 1 .. Len(Traffic) /\ DOMAIN Traffic = 1 .. Len(Traffic)
      /\ Traffic \in Seq(SUBSET Seq(Seq(Nat)))
  BY <1>2, FramingAssumption, LenProperties
<1>4. t \in Seq(Seq(Nat))
  <2>1. Traffic[stream] \in SUBSET Seq(Seq(Nat)) BY <1>3, ElementOfSeq
  <2> QED BY <2>1
<1>5. Len(sent) + 1 \in 1 .. Len(t) /\ DOMAIN t = 1 .. Len(t)
  <2>1. Len(sent) \in Nat /\ Len(t) \in Nat /\ DOMAIN t = 1 .. Len(t)
    BY <1>4, LenProperties DEF IInv, TypeOK
  <2> QED BY <1>1, <2>1
<1>6. t[Len(sent) + 1] \in Seq(Nat) BY <1>4, <1>5, ElementOfSeq
<1>7. t[Len(sent) + 1] \in Junk \/ WellFormed(t[Len(sent) + 1])
  BY <1>3, <1>5, TrafficAssumption
<1> QED BY <1>1, <1>6, <1>7

LEMMA NextSane == IInv /\ Sane /\ [Next]_vars => Sane'
<1> SUFFICES ASSUME IInv, Sane, [Next]_vars PROVE Sane'
  OBVIOUS
<1>1. CASE PeerSends
  <2>1. PICK f \in Seq(Nat) : /\ sent' = Append(sent, f)
                              /\ f \in Junk \/ WellFormed(f)
    BY <1>1, NextFrame
  <2>2. sent \in Seq(Seq(Nat)) /\ Len(sent) \in Nat BY FollowFacts
  <2>3. /\ Len(sent') = Len(sent) + 1 /\ sent'[Len(sent) + 1] = f
        /\ \A i \in 1 .. Len(sent) : sent'[i] = sent[i]
    BY <2>1, <2>2, AppendProperties
  <2>4. \A i \in 1 .. Len(sent') : i \in 1 .. Len(sent) \/ i = Len(sent) + 1
    BY <2>2, <2>3
  <2> QED BY <2>1, <2>3, <2>4 DEF Sane
<1>2. CASE RunConnected
  <2>1. sent' = <<>> /\ Len(<<>>) = 0 BY <1>2 DEF RunConnected
  <2> QED BY <2>1 DEF Sane
<1>3. CASE ~PeerSends /\ ~RunConnected
  <2>1. UNCHANGED sent
    BY <1>3 DEF Next, vars, IoThread, peer, Aside, CloseSocket,
       RunFixedFailed, RunFixedRefused, RunFixed, RunLengthFailed,
       RunLengthRefused, RunLength, RunBodyFailed, RunBody, RunPacket,
       RunErrorIgnored, RunError, RunConnect, RunResolved, RunConnectedLate,
       RunWritten, OwnerClose, OwnerAbandon, AppConnect, Dialled, PeerEnds,
       ReadDone
  <2> QED BY <2>1 DEF Sane
<1> QED BY <1>1, <1>2, <1>3

LEMMA FSends == ASSUME IInv, FInv, PeerSends PROVE FInv'
<1> SUFFICES ASSUME Clean' PROVE Told' /\ Following' /\ Calm'
  BY DEF FInv
<1>1. PICK f \in Seq(Nat) : sent' = Append(sent, f) /\ wire' = wire \o f
  BY NextFrame
<1>2. /\ UNCHANGED <<depth, header, length, op, loop, open, stream, ended, got>>
      /\ Full = TRUE /\ Full' = Full /\ open /\ ~ended
  BY DEF PeerSends, reader, Full, IInv, TypeOK
<1>3. /\ sent \in Seq(Seq(Nat)) /\ wire \in Seq(Nat) /\ header \in Seq(Nat)
      /\ Elements(loop) \subseteq Completed /\ Len(sent) \in Nat
      /\ Len(got) \in Nat /\ Done \in Nat
      /\ Told => Done \in 0 .. Len(sent)
  BY FollowFacts
<1>4. /\ Len(sent') = Len(sent) + 1
      /\ \A i \in 1 .. Len(sent) : sent'[i] = sent[i]
  BY <1>1, <1>3, AppendProperties
<1>5. Clean
  <2>1. DOMAIN sent = 1 .. Len(sent) /\ DOMAIN sent' = 1 .. Len(sent')
    <3>1. sent' \in Seq(Seq(Nat)) BY <1>1, <1>3, AppendProperties
    <3> QED BY <1>3, <3>1, LenProperties
  <2>2. \A i \in 1 .. Len(sent) : i \in 1 .. Len(sent') BY <1>3, <1>4
  <2> QED BY <1>4, <2>1, <2>2 DEF Clean
<1>6. Told /\ Following /\ Calm BY <1>5 DEF FInv
<1>7. Done' = Done BY <1>2 DEF Done
<1>8. Told'
  <2>1. Done <= Len(sent') BY <1>3, <1>4, <1>6 DEF Told
  <2>2. Len(got) <= Len(sent)
    <3>1. Len(got) <= Done BY <1>3 DEF Done
    <3> QED BY <1>3, <1>6, <3>1
  <2>3. \A i \in 1 .. Len(got) : got[i] = sent'[i]
    <3>1. \A i \in 1 .. Len(got) : i \in 1 .. Len(sent) BY <1>3, <2>2
    <3> QED BY <1>4, <1>6, <3>1 DEF Told
  <2>4. ASSUME NEW g \in Elements(loop), g.kind = "packet"
        PROVE  g.bytes = sent'[Done]
    <3>1. Some(loop, {"packet"}) BY <2>4, SomeElement
    <3>2. Done \in 1 .. Len(sent)
      <4>1. Done = Len(got) + 1 BY <3>1 DEF Done
      <4> QED BY <1>3, <1>6, <4>1
    <3> QED BY <1>4, <1>6, <2>4, <3>2 DEF Told
  <2> QED BY <1>2, <1>7, <2>1, <2>3, <2>4 DEF Told
<1>9. Following'
  <2>1. Done \in 0 .. Len(sent) BY <1>3, <1>6
  <2>2. depth = 0 => Fed(sent', wire', TRUE, Done, 0)
    BY <1>1, <1>2, <1>3, <1>6, <2>1, FitsGrow DEF Following
  <2>3. op # NoOp => Pending(op, sent', wire', TRUE, Done, header, length)
    BY <1>1, <1>2, <1>3, <1>6, <2>1, FitsGrow DEF Following
  <2>4. \A g \in Elements(loop) : g.kind \in Steps =>
           Fits(g, sent', wire', TRUE, Done, header, length)
    BY <1>1, <1>2, <1>3, <1>6, <2>1, FitsGrow DEF Following
  <2> QED BY <1>2, <1>7, <2>2, <2>3, <2>4 DEF Following
<1>10. Calm' BY <1>2, <1>6 DEF Calm
<1> QED BY <1>8, <1>9, <1>10

LEMMA FEnds == ASSUME IInv, FInv, PeerEnds PROVE FInv'
<1> SUFFICES ASSUME Clean' PROVE Told' /\ Following' /\ Calm'
  BY DEF FInv
<1>1. PICK n \in 0 .. Len(wire) : wire' = SubSeq(wire, 1, n)
  BY DEF PeerEnds
<1>2. /\ UNCHANGED <<depth, header, length, op, loop, open, stream, sent, got>>
      /\ Full' = FALSE /\ ended'
  BY DEF PeerEnds, reader, Full
<1>3. Told /\ Following BY <1>2 DEF FInv, Clean
<1>4. /\ sent \in Seq(Seq(Nat)) /\ wire \in Seq(Nat) /\ header \in Seq(Nat)
      /\ Full \in BOOLEAN /\ Done \in 0 .. Len(sent)
      /\ Elements(loop) \subseteq Completed
  BY <1>3, FollowFacts
<1>5. Told' /\ Done' = Done BY <1>2, <1>3, ToldSame
<1>6. Following'
  <2>1. depth = 0 => Fed(sent, wire', FALSE, Done, 0)
    BY <1>1, <1>3, <1>4, FedCut DEF Following
  <2>2. op # NoOp => Pending(op, sent, wire', FALSE, Done, header, length)
    BY <1>1, <1>3, <1>4, FitsFed DEF Following
  <2>3. \A g \in Elements(loop) : g.kind \in Steps =>
           Fits(g, sent, wire', FALSE, Done, header, length)
    BY <1>1, <1>3, <1>4, FitsFed DEF Following
  <2> QED BY <1>2, <1>5, <2>1, <2>2, <2>3 DEF Following
<1>7. Calm' BY <1>2 DEF Calm
<1> QED BY <1>5, <1>6, <1>7

LEMMA FReadDone == ASSUME IInv, QInv, Sane, FInv, ReadDone PROVE FInv'
<1> SUFFICES ASSUME Clean' PROVE Told' /\ Following' /\ Calm'
  BY DEF FInv
<1>1. /\ op # NoOp /\ op' = NoOp
      /\ UNCHANGED <<depth, header, length, open, stream, ended, sent, got>>
      /\ Full' = Full
  BY DEF ReadDone, Full
<1>2. Clean /\ Told /\ Following /\ Calm BY <1>1 DEF FInv, Clean
<1>3. /\ sent \in Seq(Seq(Nat)) /\ wire \in Seq(Nat) /\ header \in Seq(Nat)
      /\ length \in Lengths /\ Full \in BOOLEAN /\ Done \in 0 .. Len(sent)
      /\ Len(sent) \in Nat /\ loop \in Seq(Completed)
      /\ \A i \in 1 .. Len(sent) : WellFormed(sent[i])
  BY <1>2, FollowFacts
<1>4. PICK g \in Completed :
         /\ loop' = Append(loop, g) /\ g.kind = op.step
         /\ g.ok => /\ Len(wire) >= op.want
                    /\ g.bytes = SubSeq(wire, 1, op.want)
                    /\ Len(g.bytes) = op.want
                    /\ wire' = SubSeq(wire, op.want + 1, Len(wire))
         /\ ~g.ok => ended /\ wire' = <<>>
  BY ReadDoneHandler
<1>5. /\ op.step \in Steps /\ depth = 1 /\ ~Some(loop, Steps)
      /\ op \in [step : Steps, want : Nat \ {0}]
      /\ op.step = "fixed" => op.want = 2
      /\ op.step = "length" => op.want = 1 /\ length.bytesRead <= 4
  BY <1>1, Outstanding DEF IInv, TypeOK, Asked
<1>6. /\ Some(loop', {"packet"}) <=> Some(loop, {"packet"})
      /\ Elements(loop') = Elements(loop) \cup {g}
  <2>1. g.kind \notin {"packet"} BY <1>4, <1>5 DEF Steps
  <2> QED BY <1>3, <1>4, <2>1, AppendQueue, AppendMore
<1>7. Told' /\ Done' = Done
  <2>1. \A e \in Elements(loop') : e.kind = "packet" => e \in Elements(loop)
    BY <1>4, <1>5, <1>6 DEF Steps
  <2> QED BY <1>1, <1>2, <1>6, <2>1, ToldSame
<1>8. Fits(g, sent, wire', Full, Done, header, length)
  <2>1. Pending(op, sent, wire, Full, Done, header, length)
    BY <1>1, <1>2 DEF Following
  <2>2. CASE g.ok
    <3>1. Done < Len(sent) => WellFormed(sent[Done + 1])
      <4>1. Done < Len(sent) => Done + 1 \in 1 .. Len(sent) BY <1>3
      <4> QED BY <1>3, <4>1
    <3>2. /\ Len(wire) >= op.want /\ Len(g.bytes) = op.want
          /\ g.bytes = SubSeq(wire, 1, op.want)
          /\ wire' = SubSeq(wire, op.want + 1, Len(wire))
      BY <1>4, <2>2
    <3>3. g \in Completed /\ g.kind = op.step BY <1>4
    <3>4. Fits(g, sent, SubSeq(wire, op.want + 1, Len(wire)), Full, Done, header,
               length)
      BY <1>3, <1>5, <2>1, <2>2, <3>1, <3>2, <3>3, PendingFits
    <3> QED BY <3>2, <3>4
  <2>3. CASE ~g.ok
    <3>1. ~Full /\ wire' = <<>> BY <1>4, <2>3 DEF Full
    <3>2. Fed(sent, <<>>, FALSE, Done, 0) BY <1>3, <2>1, FitsFed
    <3> QED BY <1>3, <2>3, <3>1, <3>2 DEF Fits
  <2> QED BY <2>2, <2>3
<1>9. Following'
  <2>1. \A e \in Elements(loop) : e.kind \notin Steps BY <1>5, SomeElement
  <2>2. \A e \in Elements(loop') : e.kind \in Steps => e = g BY <1>6, <2>1
  <2> QED BY <1>1, <1>5, <1>7, <1>8, <2>2 DEF Following
<1>10. Calm'
  <2>1. g.kind # "error" BY <1>4, <1>5 DEF Steps
  <2> QED BY <1>1, <1>2, <1>6, <2>1 DEF Calm
<1> QED BY <1>7, <1>9, <1>10

\* A stream is opened: the reader is at rest and knows nothing of it.
LEMMA FConnected == ASSUME IInv, QInv, RunConnected PROVE FInv'
<1>1. /\ loop # <<>> /\ Head(loop).kind = "connected" /\ loop' = Tail(loop)
      /\ stream' = stream + 1 /\ wire' = <<>> /\ sent' = <<>> /\ got' = <<>>
      /\ UNCHANGED <<depth, op>>
  BY DEF RunConnected, Running, reader
<1>2. /\ loop \in Seq(Completed) /\ Settling(loop, dial) /\ stream \in Nat
  BY DEF IInv, TypeOK, QInv
<1>3. Misses(loop', Working) /\ loop' \in Seq(Completed)
  BY <1>1, <1>2, TailMore, TailQueue DEF Settling
<1>4. \A g \in Elements(loop') :
         /\ g.kind \notin Steps /\ g.kind # "packet"
         /\ g.stream \in Nat /\ g.stream <= stream
  <2>1. \A g \in Elements(loop') : g \in Completed
    BY <1>3, ElementOfSeq DEF Elements
  <2>2. \A g \in Elements(loop') : g \notin Working BY <1>3 DEF Misses
  <2>3. \A g \in Elements(loop') : g \in Elements(loop)
    BY <1>1, HeadMore
  <2>4. \A g \in Elements(loop') : g.stream <= stream
    BY <2>3 DEF QInv, AtEnd
  <2> QED BY <2>1, <2>2, <2>4 DEF Working, Busy, Completed, Handlers
<1>5. op = NoOp
  <2>1. Some(loop, Opening) BY <1>1, HeadMore DEF Opening
  <2>2. ~open BY <2>1 DEF QInv, Dark
  <2> QED BY <2>2 DEF QInv, Dark
<1>6. Done' = 0 /\ Len(sent') = 0 /\ Len(got') = 0
  <2>1. ~Some(loop', {"packet"}) BY <1>4, SomeElement
  <2>2. Len(<<>>) = 0 OBVIOUS
  <2> QED BY <1>1, <2>1, <2>2 DEF Done
<1>7. Told' BY <1>4, <1>6 DEF Told
<1>8. Following'
  <2>1. Fed(<<>>, <<>>, Full', 0, 0) BY FedStart DEF Full
  <2> QED BY <1>1, <1>4, <1>5, <1>6, <2>1 DEF Following
<1>9. Calm'
  <2>1. \A g \in Elements(loop') : g.stream # stream' BY <1>1, <1>2, <1>4
  <2> QED BY <2>1 DEF Calm
<1> QED BY <1>7, <1>8, <1>9 DEF FInv

\* A step begins where the stream stands, or fails on a socket that is closed.
LEMMA FBegins ==
    ASSUME IInv, QInv, NEW rest \in Seq(Completed), ~Some(rest, Steps),
           Elements(rest) \subseteq Elements(loop), Calm,
           NEW step \in Steps, NEW n \in Nat \ {0}, AsyncRead(step, n, rest, open),
           depth' = 1, UNCHANGED <<open, stream, wire, ended, sent>>,
           NEW m \in 0 .. Len(sent), header' \in Seq(Nat),
           Done' = m, Told',
           Pending([step |-> step, want |-> n], sent, wire, Full, m, header',
                   length')
    PROVE  Following' /\ Calm'
<1>1. Full' = Full BY DEF Full
<1>2. \A g \in Elements(rest) : g.kind \notin Steps BY SomeElement
<1>3. CASE open
  <2>1. op' = [step |-> step, want |-> n] /\ loop' = rest
    BY <1>3 DEF AsyncRead
  <2>2. Following' BY <1>1, <1>2, <2>1 DEF Following
  <2>3. Calm' BY <2>1 DEF Calm
  <2> QED BY <2>2, <2>3
<1>4. CASE ~open
  <2> DEFINE b == Broken(step)
  <2>1. op' = NoOp /\ loop' = Append(rest, b) BY <1>4 DEF AsyncRead
  <2>2. b \in Completed /\ ~b.ok
    <3>1. b \in Completed BY NewHandlers DEF IInv, TypeOK
    <3> QED BY <3>1 DEF Broken, Handler
  <2> HIDE DEF b
  <2>3. Elements(loop') = Elements(rest) \cup {b} BY <2>1, <2>2, AppendMore
  <2>4. wire = <<>> /\ Full' = FALSE /\ sent' = sent /\ wire' = wire
    BY <1>4 DEF QInv, Dark, Full
  <2>5. Fed(sent, <<>>, FALSE, m, 0)
    <3>1. sent \in Seq(Seq(Nat)) /\ wire \in Seq(Nat) /\ Full \in BOOLEAN
      BY FollowFacts
    <3> QED BY <3>1, FitsFed
  <2>6. Fits(b, sent', wire', Full', m, header', length')
    BY <2>2, <2>4, <2>5 DEF Fits
  <2>7. Following' BY <1>2, <2>1, <2>3, <2>6 DEF Following
  <2>8. Calm' BY <1>4 DEF Calm
  <2> QED BY <2>7, <2>8
<1> QED BY <1>3, <1>4

\* The first step of the next packet.
LEMMA FAsk ==
    ASSUME IInv, QInv, FInv, loop # <<>>, depth = 0,
           AsyncReadPacket(Tail(loop), open),
           UNCHANGED <<header, length, open, stream, wire, ended, sent>>,
           Clean => Told' /\ Done' = Done
    PROVE  FInv'
<1> SUFFICES ASSUME Clean' PROVE Told' /\ Following' /\ Calm'
  BY DEF FInv
<1>1. Told /\ Following /\ Calm /\ Told' /\ Done' = Done
  BY DEF FInv, Clean
<1>2. depth' = 1 /\ AsyncRead("fixed", 2, Tail(loop), open)
  BY DEF AsyncReadPacket
<1>3. /\ Tail(loop) \in Seq(Completed) /\ ~Some(Tail(loop), Steps)
      /\ Elements(Tail(loop)) \subseteq Elements(loop)
  <2>1. ~Some(loop, Steps) BY DEF IInv, OneReader
  <2> QED BY <2>1, HeadMore
<1>4. /\ header \in Seq(Nat) /\ Done \in 0 .. Len(sent) BY <1>1, FollowFacts
<1>5. Pending([step |-> "fixed", want |-> 2], sent, wire, Full, Done, header',
              length')
  <2>1. Fed(sent, wire, Full, Done, 0) BY <1>1 DEF Following
  <2> QED BY <2>1 DEF Pending, Consumed
<1>6. "fixed" \in Steps /\ 2 \in Nat \ {0} BY DEF Steps
<1>7. header' \in Seq(Nat) /\ UNCHANGED <<open, stream, wire, ended, sent>>
  BY <1>4
<1> QED BY <1>1, <1>2, <1>3, <1>4, <1>5, <1>6, <1>7, FBegins

LEMMA FPacket == ASSUME IInv, QInv, FInv, RunPacket PROVE FInv'
<1>1. /\ loop # <<>> /\ Head(loop).kind = "packet" /\ got' = Append(got, Arg)
      /\ AsyncReadPacket(Tail(loop), open)
      /\ UNCHANGED <<header, length, open, closed, dial, stream, wire, ended,
                     sent>>
  BY DEF RunPacket, Running, peer
<1>2. /\ depth = 0 /\ Head(loop) \in Elements(loop) /\ Some(loop, {"packet"})
      /\ ~Some(Tail(loop), {"packet"}) /\ Tail(loop) \in Seq(Completed)
      /\ Elements(Tail(loop)) \subseteq Elements(loop)
  <2>1. ~Some(Tail(loop), Busy) BY <1>1, HeadMore DEF Busy
  <2>2. ~Some(Tail(loop), {"packet"}) BY <2>1, SomeOfMore DEF Busy
  <2> QED BY <1>1, <2>2, HeadMore
<1>3. ~Some(loop', {"packet"})
  <2>1. AsyncRead("fixed", 2, Tail(loop), open)
    BY <1>1, <1>2 DEF AsyncReadPacket
  <2>2. CASE open BY <1>2, <2>1, <2>2 DEF AsyncRead
  <2>3. CASE ~open
    <3> DEFINE b == Broken("fixed")
    <3>1. loop' = Append(Tail(loop), b) BY <2>1, <2>3 DEF AsyncRead
    <3>2. b \in Completed /\ b.kind = "fixed"
      BY NewHandlers DEF IInv, TypeOK, Steps
    <3> HIDE DEF b
    <3> QED BY <1>2, <3>1, <3>2, AppendQueue
  <2> QED BY <2>2, <2>3
<1>4. ASSUME Clean PROVE Told' /\ Done' = Done
  <2>1. Told BY <1>4 DEF FInv
  <2>2. /\ got \in Seq(Seq(Nat)) /\ Len(got) \in Nat /\ Len(sent) \in Nat
        /\ Arg \in Seq(Nat)
    BY <1>1, FollowFacts, ArgFacts
  <2>3. /\ Len(got') = Len(got) + 1 /\ got'[Len(got) + 1] = Arg
        /\ \A i \in 1 .. Len(got) : got'[i] = got[i]
    BY <1>1, <2>2, AppendProperties
  <2>4. Done = Len(got) + 1 /\ Done' = Len(got) + 1
    BY <1>2, <1>3, <2>2, <2>3 DEF Done
  <2>5. Arg = sent[Len(got) + 1] BY <1>1, <1>2, <2>1, <2>4 DEF Told, Arg
  <2>6. \A i \in 1 .. Len(got') : i \in 1 .. Len(got) \/ i = Len(got) + 1
    BY <2>2, <2>3
  <2>7. \A i \in 1 .. Len(got') : got'[i] = sent[i]
    BY <2>1, <2>3, <2>5, <2>6 DEF Told
  <2>8. \A g \in Elements(loop') : g.kind # "packet" BY <1>3, SomeElement
  <2> QED BY <1>1, <2>1, <2>4, <2>7, <2>8 DEF Told
<1> QED BY <1>1, <1>2, <1>4, FAsk

LEMMA FWritten == ASSUME IInv, QInv, FInv, RunWritten PROVE FInv'
<1>1. /\ loop # <<>> /\ Head(loop).kind = "written"
      /\ UNCHANGED <<header, length, open, stream, peer, got>>
      /\ UNCHANGED <<wire, ended, sent>>
  BY DEF RunWritten, Running, peer
<1>2. /\ Some(loop, {"written"}) /\ Tail(loop) \in Seq(Completed)
      /\ Elements(Tail(loop)) \subseteq Elements(loop)
      /\ Some(Tail(loop), {"packet"}) <=> Some(loop, {"packet"})
  BY <1>1, HeadMore
<1>3. CASE open
  <2>1. depth = 0 BY <1>2, <1>3 DEF QInv, Single
  <2>2. AsyncReadPacket(Tail(loop), open)
    BY <1>3 DEF RunWritten, AsyncReadPacket, AsyncRead
  <2>3. loop' = Tail(loop)
    BY <1>3, <2>1, <2>2 DEF AsyncReadPacket, AsyncRead
  <2>4. Clean => Told' /\ Done' = Done
    BY <1>1, <1>2, <2>3, ToldSame DEF FInv
  <2> QED BY <1>1, <2>1, <2>2, <2>4, FAsk
<1>4. CASE ~open
  <2>1. UNCHANGED reader /\ loop' = Tail(loop)
    BY <1>1, <1>4 DEF RunWritten, reader
  <2> QED BY <1>1, <1>2, <2>1, FKeep
<1> QED BY <1>3, <1>4

\* A failed step ends the reading; it fails at the end of the stream.
LEMMA FFailed ==
    ASSUME IInv, QInv, FInv, RunFixedFailed \/ RunLengthFailed \/ RunBodyFailed
    PROVE  FInv'
<1> SUFFICES ASSUME Clean' PROVE Told' /\ Following' /\ Calm'
  BY DEF FInv
<1>1. /\ loop # <<>> /\ Head(loop).kind \in Steps /\ ~Head(loop).ok
      /\ depth' = 0 /\ op' = NoOp /\ loop' = Append(Tail(loop), Error)
      /\ UNCHANGED <<header, length, open, stream, wire, ended, sent, got>>
  BY DEF RunFixedFailed, RunLengthFailed, RunBodyFailed, Running, Ok, Steps,
     Refuse, Release, Aside, peer
<1>2. Told /\ Following /\ Calm BY <1>1 DEF FInv, Clean
<1>3. /\ Tail(loop) \in Seq(Completed)
      /\ Elements(loop) = {Head(loop)} \cup Elements(Tail(loop))
      /\ ~Some(Tail(loop), Steps)
      /\ Some(Tail(loop), {"packet"}) <=> Some(loop, {"packet"})
  <2>1. Head(loop).kind \notin {"packet"} BY <1>1 DEF Steps
  <2> QED BY <1>1, <2>1, HeadMore, HeadFacts
<1>4. Error \in Completed /\ Error.kind = "error"
  BY NewHandlers DEF IInv, TypeOK
<1>5. /\ Some(loop', {"packet"}) <=> Some(loop, {"packet"})
      /\ Elements(loop') = Elements(Tail(loop)) \cup {Error}
  BY <1>1, <1>3, <1>4, AppendQueue, AppendMore
<1>6. Told' /\ Done' = Done
  <2>1. \A g \in Elements(loop') : g.kind = "packet" => g \in Elements(loop)
    BY <1>3, <1>4, <1>5
  <2> QED BY <1>1, <1>2, <1>5, <2>1, ToldSame
<1>7. Following'
  <2>1. Fed(sent, wire, Full, Done, 0)
    BY <1>1, <1>2, <1>3 DEF Following, Fits
  <2>2. \A g \in Elements(loop') : g.kind \notin Steps
    <3>1. \A g \in Elements(Tail(loop)) : g.kind \notin Steps
      BY <1>3, SomeElement
    <3> QED BY <1>4, <1>5, <3>1 DEF Steps
  <2>3. Full' = Full BY <1>1 DEF Full
  <2> QED BY <1>1, <1>6, <2>1, <2>2, <2>3 DEF Following
<1>8. Calm'
  <2>1. open => ended BY <1>1, <1>3 DEF QInv, AtEnd
  <2> QED BY <1>1, <2>1 DEF Calm
<1> QED BY <1>6, <1>7, <1>8

\* What a completed step has brought.
LEMMA GivenFacts ==
    ASSUME IInv, QInv, Sane, FInv, Clean, loop # <<>>, Head(loop).kind \in Steps,
           Head(loop).ok
    PROVE  LET f == sent[Done + 1]
           IN  /\ Told /\ Following /\ Calm
               /\ Done \in 0 .. Len(sent) /\ Done < Len(sent)
               /\ f \in Seq(Nat) /\ WellFormed(f)
               /\ Brings(Head(loop), f, header, length)
               /\ Fed(sent, wire, Full, Done,
                      Consumed(Head(loop).kind, header) + Len(Arg))
<1> DEFINE f == sent[Done + 1]
<1>1. Told /\ Following /\ Calm BY DEF FInv
<1>2. Head(loop) \in Elements(loop) BY HeadMore
<1>3. Fits(Head(loop), sent, wire, Full, Done, header, length)
  BY <1>1, <1>2 DEF Following
<1>4. /\ Done < Len(sent) /\ Brings(Head(loop), f, header, length)
      /\ Fed(sent, wire, Full, Done,
             Consumed(Head(loop).kind, header) + Len(Arg))
  BY <1>3 DEF Fits, Arg
<1>5. /\ Done \in 0 .. Len(sent) /\ Len(sent) \in Nat
      /\ \A i \in 1 .. Len(sent) : sent[i] \in Seq(Nat) /\ WellFormed(sent[i])
  BY <1>1, FollowFacts
<1>6. Done + 1 \in 1 .. Len(sent) BY <1>4, <1>5
<1>7. f \in Seq(Nat) /\ WellFormed(f) BY <1>5, <1>6
<1> QED BY <1>1, <1>4, <1>5, <1>7

\* The queue behind a step that ran.
LEMMA StepRan ==
    ASSUME IInv, QInv, loop # <<>>, Head(loop).kind \in Steps
    PROVE  /\ Tail(loop) \in Seq(Completed)
           /\ Elements(Tail(loop)) \subseteq Elements(loop)
           /\ ~Some(Tail(loop), Steps) /\ ~Some(Tail(loop), {"packet"})
           /\ ~Some(loop, {"packet"}) /\ depth = 1
<1>1. ~Some(Tail(loop), Busy) /\ depth = 1 BY HeadMore DEF Busy
<1>2. ~Some(Tail(loop), Steps) /\ ~Some(Tail(loop), {"packet"})
  BY <1>1, SomeOfMore DEF Busy
<1>3. Head(loop).kind \notin {"packet"} BY DEF Steps
<1> QED BY <1>1, <1>2, <1>3, HeadMore

\* A frame is complete and told of.
LEMMA FDelivers ==
    ASSUME IInv, QInv, Told, Calm, loop # <<>>, Head(loop).kind \in Steps,
           Done < Len(sent), NEW f \in Seq(Nat), f = sent[Done + 1],
           Fed(sent, wire, Full, Done, Len(f)), Release(Packet(f)),
           UNCHANGED <<open, stream, wire, ended, sent, got>>
    PROVE  Told' /\ Following' /\ Calm'
<1> DEFINE p == Packet(f)
<1>1. depth' = 0 /\ op' = NoOp /\ loop' = Append(Tail(loop), p)
  BY DEF Release
<1>2. p \in Completed /\ p.kind = "packet"
  BY NewHandlers DEF IInv, TypeOK
<1>3. p.bytes = f BY DEF Packet, Handler
<1> HIDE DEF p
<1>4. /\ ~Some(Tail(loop), Steps) /\ ~Some(Tail(loop), {"packet"})
      /\ ~Some(loop, {"packet"}) /\ Tail(loop) \in Seq(Completed)
      /\ Elements(Tail(loop)) \subseteq Elements(loop)
  BY StepRan
<1>5. /\ Some(loop', {"packet"})
      /\ Elements(loop') = Elements(Tail(loop)) \cup {p}
  BY <1>1, <1>2, <1>4, AppendQueue, AppendMore
<1>6. /\ sent \in Seq(Seq(Nat)) /\ wire \in Seq(Nat) /\ Full \in BOOLEAN
      /\ Done \in 0 .. Len(sent) /\ Len(sent) \in Nat /\ Len(got) \in Nat
  BY FollowFacts
<1>7. Done = Len(got) /\ Done' = Done + 1 BY <1>4, <1>5, <1>6 DEF Done
<1>8. Told'
  <2>1. \A g \in Elements(loop') : g.kind = "packet" => g = p
    <3>1. \A g \in Elements(Tail(loop)) : g.kind \notin {"packet"}
      BY <1>4, SomeElement
    <3> QED BY <1>5, <3>1
  <2>2. Done + 1 <= Len(sent) BY <1>6
  <2> QED BY <1>3, <1>7, <2>1, <2>2 DEF Told
<1>9. Following'
  <2>1. Fed(sent, wire, Full, Done + 1, 0)
    <3>1. Len(f) \in Nat BY LenProperties
    <3> QED BY <1>6, <3>1, FedNext
  <2>2. \A g \in Elements(loop') : g.kind \notin Steps
    <3>1. \A g \in Elements(Tail(loop)) : g.kind \notin Steps
      BY <1>4, SomeElement
    <3> QED BY <1>2, <1>5, <3>1 DEF Steps
  <2>3. Full' = Full BY DEF Full
  <2> QED BY <1>1, <1>7, <2>1, <2>2, <2>3 DEF Following
<1>10. Calm'
  <2>1. \A g \in Elements(loop') : g.kind = "error" => g \in Elements(loop)
    BY <1>2, <1>4, <1>5
  <2> QED BY <2>1 DEF Calm
<1> QED BY <1>8, <1>9, <1>10

\* The reader goes on with the frame.
LEMMA FGoesOn ==
    ASSUME IInv, QInv, Told, Calm, loop # <<>>, Head(loop).kind \in Steps,
           NEW step \in Steps, NEW n \in Nat \ {0},
           AsyncRead(step, n, Tail(loop), open), UNCHANGED depth,
           UNCHANGED <<open, stream, wire, ended, sent, got>>,
           header' \in Seq(Nat),
           Pending([step |-> step, want |-> n], sent, wire, Full, Done, header',
                   length')
    PROVE  Told' /\ Following' /\ Calm'
<1>1. /\ ~Some(Tail(loop), Steps) /\ ~Some(Tail(loop), {"packet"})
      /\ ~Some(loop, {"packet"}) /\ Tail(loop) \in Seq(Completed)
      /\ Elements(Tail(loop)) \subseteq Elements(loop) /\ depth' = 1
  BY StepRan
<1>2. ~Some(loop', {"packet"})
  <2>1. CASE open BY <1>1, <2>1 DEF AsyncRead
  <2>2. CASE ~open
    <3> DEFINE b == Broken(step)
    <3>1. loop' = Append(Tail(loop), b) BY <2>2 DEF AsyncRead
    <3>2. b \in Completed /\ b.kind \notin {"packet"}
      BY NewHandlers DEF IInv, TypeOK, Steps
    <3> HIDE DEF b
    <3> QED BY <1>1, <3>1, <3>2, AppendQueue
  <2> QED BY <2>1, <2>2
<1>3. Told' /\ Done' = Done
  <2>1. \A g \in Elements(loop') : g.kind \notin {"packet"}
    BY <1>2, SomeElement
  <2> QED BY <1>1, <1>2, <2>1, ToldSame
<1>4. Done \in 0 .. Len(sent) BY FollowFacts
<1>5. UNCHANGED <<open, stream, wire, ended, sent>> OBVIOUS
<1> QED BY <1>1, <1>3, <1>4, <1>5, FBegins

\* The body of the frame, if there is one.
LEMMA FBody ==
    ASSUME IInv, QInv, Told, Calm, loop # <<>>, Head(loop).kind \in Steps,
           Done < Len(sent), NEW f \in Seq(Nat), f = sent[Done + 1],
           NEW h \in Seq(Nat), Starts(h, f), header' = h,
           NEW n \in Nat, Len(f) = Len(h) + n,
           Fed(sent, wire, Full, Done, Len(h)), ReadPacketBody(h, n),
           UNCHANGED <<open, stream, wire, ended, sent, got>>
    PROVE  Told' /\ Following' /\ Calm'
<1>1. Len(h) \in Nat /\ Len(f) \in Nat BY LenProperties
<1>2. CASE n = 0
  <2>1. Len(h) = Len(f) BY <1>1, <1>2
  <2>2. h = f BY <2>1, WholeFrame
  <2>3. Release(Packet(f)) BY <1>2, <2>2 DEF ReadPacketBody
  <2>4. Fed(sent, wire, Full, Done, Len(f)) BY <2>1
  <2> QED BY <2>3, <2>4, FDelivers
<1>3. CASE n # 0
  <2>1. UNCHANGED depth /\ AsyncRead("body", n, Tail(loop), open)
    BY <1>3 DEF ReadPacketBody
  <2>2. Len(h) < Len(f) /\ n = Len(f) - Len(h) /\ n \in Nat \ {0}
    BY <1>1, <1>3
  <2>3. Pending([step |-> "body", want |-> n], sent, wire, Full, Done, header',
                length')
    BY <2>2 DEF Pending, Consumed, Knows
  <2>4. "body" \in Steps /\ header' \in Seq(Nat) BY DEF Steps
  <2> QED BY <2>1, <2>2, <2>3, <2>4, FGoesOn
<1> QED BY <1>2, <1>3

LEMMA FFixed ==
    ASSUME IInv, QInv, Sane, FInv, RunFixed \/ RunFixedRefused PROVE FInv'
<1> SUFFICES ASSUME Clean' PROVE Told' /\ Following' /\ Calm'
  BY DEF FInv
<1> DEFINE f == sent[Done + 1]
<1>1. /\ loop # <<>> /\ Head(loop).kind = "fixed" /\ Head(loop).ok
      /\ Head(loop).kind \in Steps
      /\ UNCHANGED <<open, stream, wire, ended, sent, got>>
  BY DEF RunFixed, RunFixedRefused, Running, Ok, Aside, peer, Steps
<1>2. Clean BY <1>1 DEF Clean
<1>3. /\ Told /\ Calm /\ Done < Len(sent) /\ f \in Seq(Nat) /\ WellFormed(f)
      /\ Brings(Head(loop), f, header, length)
      /\ Fed(sent, wire, Full, Done,
             Consumed(Head(loop).kind, header) + Len(Arg))
  BY <1>1, <1>2, GivenFacts
<1> HIDE DEF f
<1>4. /\ Arg \in Seq(Nat) /\ Len(Arg) = 2
      /\ Digit(Arg[2]) \in Nat
      /\ \A j \in 1 .. 2 : Arg[j] = f[j]
  <2>1. Head(loop) \in Completed BY <1>1, HeadMore
  <2>2. Arg \in Seq(Nat) /\ Len(Arg) = 2
    BY <1>1, <2>1 DEF Completed, Complete, Handlers, Arg
  <2>3. Digit(Arg[2]) \in Nat
    <3>1. Running("fixed") /\ Ok BY <1>1 DEF Running, Ok
    <3>2. Arg[2] \in Nat BY <1>1, <3>1, ArgFacts
    <3> QED BY <3>2, DigitFacts
  <2>4. \A j \in 1 .. Len(Arg) : Arg[j] = f[0 + j]
    BY <1>1, <1>3 DEF Brings, Consumed, Arg
  <2>5. \A j \in 1 .. 2 : 0 + j = j OBVIOUS
  <2> QED BY <2>2, <2>3, <2>4, <2>5
<1>5. Fed(sent, wire, Full, Done, Len(Arg))
  <2>1. Consumed(Head(loop).kind, header) + Len(Arg) = Len(Arg)
    BY <1>1, <1>4 DEF Consumed
  <2> QED BY <1>3, <2>1
<1>6. /\ ValidType(Arg[1])
      /\ Continues(Arg[2]) => Knows(f, "length", Arg, NewLength(Arg[2]))
      /\ ~Continues(Arg[2]) => Len(f) = 2 + Digit(Arg[2]) /\ Starts(Arg, f)
  BY <1>3, <1>4, FixedFrame
<1>7. RunFixed BY <1>6 DEF RunFixedRefused
<1>8. header' = Arg /\ length' = NewLength(Arg[2])
  BY <1>7 DEF RunFixed, HeaderOf
<1>9. CASE Continues(Arg[2])
  <2>1. UNCHANGED depth /\ AsyncRead("length", 1, Tail(loop), open)
    BY <1>7, <1>9 DEF RunFixed
  <2>2. Pending([step |-> "length", want |-> 1], sent, wire, Full, Done, header',
                length')
    BY <1>3, <1>5, <1>6, <1>8, <1>9 DEF Pending, Consumed, f
  <2>3. "length" \in Steps /\ 1 \in Nat \ {0} /\ header' \in Seq(Nat)
    BY <1>4, <1>8 DEF Steps
  <2> QED BY <1>1, <1>3, <2>1, <2>2, <2>3, FGoesOn
<1>10. CASE ~Continues(Arg[2])
  <2>1. ReadPacketBody(Arg, Digit(Arg[2]))
    BY <1>7, <1>10 DEF RunFixed, HeaderOf
  <2>2. f = sent[Done + 1] BY DEF f
  <2>3. Len(f) = Len(Arg) + Digit(Arg[2]) BY <1>4, <1>6, <1>10
  <2> HIDE DEF Arg
  <2> QED BY <1>1, <1>3, <1>4, <1>5, <1>6, <1>8, <1>10, <2>1, <2>2, <2>3, FBody
<1> QED BY <1>9, <1>10

LEMMA FLength ==
    ASSUME IInv, QInv, Sane, FInv, RunLength \/ RunLengthRefused PROVE FInv'
<1> SUFFICES ASSUME Clean' PROVE Told' /\ Following' /\ Calm'
  BY DEF FInv
<1> DEFINE f == sent[Done + 1]
           b == f[Len(header) + 1]
           g == Append(header, b)
           k == Assembled(length, b)
<1>1. /\ loop # <<>> /\ Head(loop).kind = "length" /\ Head(loop).ok
      /\ Head(loop).kind \in Steps
      /\ UNCHANGED <<open, stream, wire, ended, sent, got>>
  BY DEF RunLength, RunLengthRefused, Running, Ok, Aside, peer, Steps
<1>2. Clean BY <1>1 DEF Clean
<1>3. /\ Told /\ Calm /\ Done < Len(sent) /\ f \in Seq(Nat) /\ WellFormed(f)
      /\ Brings(Head(loop), f, header, length)
      /\ Fed(sent, wire, Full, Done,
             Consumed(Head(loop).kind, header) + Len(Arg))
  BY <1>1, <1>2, GivenFacts
<1>4. header \in Seq(Nat) /\ Len(header) \in Nat /\ length \in Lengths
  BY FollowFacts, LenProperties
<1>5. length.bytesRead <= 4
  <2>1. Some(loop, {"length"}) BY <1>1, HeadMore
  <2> QED BY <2>1 DEF IInv, Asked
<1>6. Knows(f, "length", header, length)
  BY <1>1, <1>3 DEF Brings
<1>7. Len(Arg) = 1 /\ Arg[1] = b
  <2>1. Head(loop) \in Completed BY <1>1, HeadMore
  <2>2. Len(Arg) = 1
    BY <1>1, <2>1 DEF Completed, Complete, Arg
  <2>3. \A j \in 1 .. Len(Arg) : Arg[j] = f[Len(header) + j]
    BY <1>1, <1>3 DEF Brings, Consumed, Arg
  <2> HIDE DEF f, Arg
  <2> QED BY <2>2, <2>3
<1>8. /\ Len(header) + 1 <= Len(f) /\ ~TooLong(k)
      /\ Continues(b) => Knows(f, "length", g, k)
      /\ ~Continues(b) => Len(f) = Len(header) + 1 + k.remaining
                          /\ Starts(g, f)
  <2> HIDE DEF f
  <2> QED BY <1>3, <1>4, <1>5, <1>6, LengthFrame
<1>9. /\ g \in Seq(Nat) /\ Len(g) = Len(header) + 1
      /\ Fed(sent, wire, Full, Done, Len(g))
  <2>1. b \in Nat
    <3>1. Len(header) + 1 \in 1 .. Len(f)
      <4>1. Len(f) \in Nat BY <1>3, LenProperties
      <4> HIDE DEF f
      <4> QED BY <1>4, <1>8, <4>1
    <3> HIDE DEF f
    <3> QED BY <1>3, <3>1, ElementOfSeq
  <2> HIDE DEF b, f
  <2>2. g \in Seq(Nat) /\ Len(g) = Len(header) + 1
    BY <1>4, <2>1, AppendProperties
  <2>3. Consumed(Head(loop).kind, header) + Len(Arg) = Len(g)
    BY <1>1, <1>7, <2>2 DEF Consumed
  <2> QED BY <1>3, <2>2, <2>3
<1> HIDE DEF k, g, b, f
<1>10. k.remaining \in Nat
  <2>1. Running("length") /\ Ok BY <1>1 DEF Running, Ok
  <2>2. Assembled(length, Arg[1]).remaining \in Nat BY <2>1, AssembledFacts
  <2> QED BY <1>7, <2>2 DEF k
<1>11. RunLength
  <2>1. Assembled(length, Arg[1]) = k BY <1>7 DEF k
  <2> QED BY <1>8, <2>1 DEF RunLengthRefused
<1>12. header' = g /\ length' = k
  BY <1>7, <1>11 DEF RunLength, Keep, g, k
<1>13. CASE Continues(b)
  <2>1. UNCHANGED depth /\ AsyncRead("length", 1, Tail(loop), open)
    BY <1>7, <1>11, <1>13 DEF RunLength
  <2>2. Pending([step |-> "length", want |-> 1], sent, wire, Full, Done, header',
                length')
    BY <1>3, <1>8, <1>9, <1>12, <1>13 DEF Pending, Consumed, f
  <2>3. "length" \in Steps /\ 1 \in Nat \ {0} /\ header' \in Seq(Nat)
    BY <1>9, <1>12 DEF Steps
  <2> QED BY <1>1, <1>3, <2>1, <2>2, <2>3, FGoesOn
<1>14. CASE ~Continues(b)
  <2>1. ReadPacketBody(g, k.remaining)
    BY <1>7, <1>11, <1>12, <1>14 DEF RunLength
  <2>2. f = sent[Done + 1] BY DEF f
  <2>3. Len(f) = Len(g) + k.remaining /\ Starts(g, f)
    BY <1>8, <1>9, <1>14
  <2> QED BY <1>1, <1>3, <1>9, <1>10, <1>12, <2>1, <2>2, <2>3, FBody
<1> QED BY <1>13, <1>14

LEMMA FRunBody == ASSUME IInv, QInv, Sane, FInv, RunBody PROVE FInv'
<1> SUFFICES ASSUME Clean' PROVE Told' /\ Following' /\ Calm'
  BY DEF FInv
<1> DEFINE f == sent[Done + 1]
<1>1. /\ loop # <<>> /\ Head(loop).kind = "body" /\ Head(loop).ok
      /\ Head(loop).kind \in Steps /\ Release(Packet(header \o Arg))
      /\ UNCHANGED <<open, stream, wire, ended, sent, got>>
  BY DEF RunBody, Running, Ok, Aside, peer, Steps
<1>2. Clean BY <1>1 DEF Clean
<1>3. /\ Told /\ Calm /\ Done < Len(sent) /\ f \in Seq(Nat)
      /\ Brings(Head(loop), f, header, length)
      /\ Fed(sent, wire, Full, Done,
             Consumed(Head(loop).kind, header) + Len(Arg))
  BY <1>1, <1>2, GivenFacts
<1>4. f = sent[Done + 1] OBVIOUS
<1> HIDE DEF f
<1>5. header \in Seq(Nat) /\ Arg \in Seq(Nat)
  BY <1>1, FollowFacts, ArgFacts
<1>6. /\ Starts(header, f) /\ Len(Arg) = Len(f) - Len(header)
      /\ \A j \in 1 .. Len(Arg) : Arg[j] = f[Len(header) + j]
      /\ Consumed(Head(loop).kind, header) = Len(header)
  BY <1>1, <1>3 DEF Brings, Knows, Consumed, Arg
<1>7. header \o Arg = f
  <2>1. \A b \in Seq(Nat) :
           /\ Len(b) = Len(f) - Len(header)
           /\ \A j \in 1 .. Len(b) : b[j] = f[Len(header) + j]
           => header \o b = f
    BY <1>3, <1>5, <1>6, WholeFrame
  <2> QED BY <1>5, <1>6, <2>1
<1>8. Fed(sent, wire, Full, Done, Len(f))
  <2>1. Len(header) \in Nat /\ Len(f) \in Nat BY <1>3, <1>5, LenProperties
  <2>2. Len(header) + Len(Arg) = Len(f) BY <1>6, <2>1
  <2> QED BY <1>3, <1>6, <2>2
<1>9. Release(Packet(f)) BY <1>1, <1>7
<1> QED BY <1>1, <1>3, <1>4, <1>8, <1>9, FDelivers
-----------------------------------------------------------------------------
(* No false alarm *)

LEMMA NextFInv ==
    ASSUME IInv, QInv, Sane, FInv, [Next]_vars PROVE FInv'
<1>1. CASE \/ RunFixedFailed \/ RunLengthFailed \/ RunBodyFailed
           \/ RunFixed \/ RunFixedRefused \/ RunLength \/ RunLengthRefused
           \/ RunBody
  BY <1>1, FFailed, FFixed, FLength, FRunBody
<1>2. CASE RunPacket \/ RunWritten \/ RunConnected
  BY <1>2, FPacket, FWritten, FConnected
<1>3. CASE RunErrorIgnored \/ RunConnect \/ RunResolved \/ RunConnectedLate
  <2>1. /\ loop # <<>> /\ Head(loop).kind \notin {"packet"}
        /\ UNCHANGED <<reader, open, stream, peer, got>>
        /\ loop' = Tail(loop)
    BY <1>3 DEF RunErrorIgnored, RunConnect, RunResolved, RunConnectedLate,
       Running
  <2>2. /\ Some(loop', {"packet"}) <=> Some(loop, {"packet"})
        /\ Elements(loop') \subseteq Elements(loop)
    BY <2>1, HeadMore
  <2> QED BY <2>1, <2>2, FKeep
<1>4. CASE RunError
  <2>1. /\ loop # <<>> /\ Head(loop).kind \notin {"packet"}
        /\ CloseSocket(Tail(loop))
    BY <1>4 DEF RunError, Running
  <2>2. /\ Tail(loop) \in Seq(Completed)
        /\ Some(Tail(loop), {"packet"}) <=> Some(loop, {"packet"})
        /\ Elements(Tail(loop)) \subseteq Elements(loop)
    BY <2>1, HeadMore
  <2> QED BY <2>1, <2>2, FClose
<1>5. CASE OwnerClose \/ OwnerAbandon
  <2>1. CloseSocket(loop) BY <1>5 DEF OwnerClose, OwnerAbandon
  <2> QED BY <2>1, FClose DEF IInv
<1>6. CASE AppConnect \/ Dialled
  <2>1. UNCHANGED <<reader, open, stream, peer, got>>
    BY <1>6 DEF AppConnect, Dialled
  <2>2. PICK k \in ChainKinds : loop' = Append(loop, Chain(k))
    BY <1>6 DEF AppConnect, Dialled, ChainKinds
  <2> DEFINE h == Chain(k)
  <2>3. h \in Completed /\ h.kind = k BY NewHandlers DEF IInv, TypeOK
  <2>4. loop \in Seq(Completed) /\ loop' = Append(loop, h) BY <2>2 DEF IInv
  <2> HIDE DEF h
  <2>5. /\ Some(loop', {"packet"}) <=> Some(loop, {"packet"})
        /\ Elements(loop') = Elements(loop) \cup {h}
    <3>1. h.kind \notin {"packet"} BY <2>3 DEF ChainKinds
    <3> QED BY <2>3, <2>4, <3>1, AppendQueue, AppendMore
  <2> QED BY <2>1, <2>3, <2>5, FKeep
<1>7. CASE PeerSends \/ PeerEnds \/ ReadDone
  BY <1>7, FSends, FEnds, FReadDone
<1>8. CASE UNCHANGED vars
  <2>1. /\ UNCHANGED <<reader, open, stream, peer, got>> /\ UNCHANGED loop
    BY <1>8 DEF vars
  <2> QED BY <2>1, FKeep
<1> QED BY <1>1, <1>2, <1>3, <1>4, <1>5, <1>6, <1>7, <1>8 DEF Next, IoThread

LEMMA InitSInv == Init => SInv
<1> SUFFICES ASSUME Init PROVE SInv
  OBVIOUS
<1>1. IInv BY InitIInv
<1>2. /\ depth = 0 /\ op = NoOp /\ loop = <<>> /\ open = FALSE
      /\ dial = "none" /\ wire = <<>> /\ sent = <<>> /\ got = <<>>
      /\ Len(<<>>) = 0
  BY DEF Init
<1>3. /\ \A K : ~Some(loop, K) /\ Once(loop, K)
      /\ \A kind, S : Behind(loop, kind, S)
      /\ \A g : g \notin Elements(loop)
      /\ \A S : Misses(loop, S)
  BY <1>2 DEF Some, Once, Behind, Misses, Elements
<1>4. QInv
  <2>1. Settling(loop, dial) BY <1>3 DEF Settling
  <2>2. Dark BY <1>2 DEF Dark
  <2>3. Single BY <1>2, <1>3 DEF Single
  <2>4. AtEnd BY <1>3 DEF AtEnd
  <2> QED BY <2>1, <2>2, <2>3, <2>4 DEF QInv
<1>5. Sane BY <1>2 DEF Sane
<1>6. Done = 0 BY <1>2, <1>3 DEF Done
<1>7. Told BY <1>2, <1>3, <1>6 DEF Told
<1>8. Following
  <2>1. Fed(<<>>, <<>>, Full, 0, 0) BY FedStart DEF Full
  <2> QED BY <1>2, <1>3, <1>6, <2>1 DEF Following
<1>9. Calm BY <1>2 DEF Calm
<1> QED BY <1>1, <1>4, <1>5, <1>7, <1>8, <1>9 DEF SInv, FInv

LEMMA NextSInv == SInv /\ [Next]_vars => SInv'
BY NextIInv, NextQInv, NextSane, NextFInv DEF SInv

\* What the reader holds and what is queued and on its way is at every moment what
\* the frames of the peer make of it, whatever the owner closes, abandons and
\* dials in between (connection.hpp:145-255, client.hpp start_read_loop()).
THEOREM StreamInvariance == Spec => []SInv
BY InitSInv, NextSInv, PTL DEF Spec

\* No packet that is well formed breaks a connection (connection.hpp:171-255): an
\* error on a live stream means that the peer sent what must be refused.
THEOREM NoAlarm == Spec => []NoFalseAlarm
<1>1. SInv => NoFalseAlarm
  <2> SUFFICES ASSUME SInv, NEW i \in DOMAIN loop, loop[i].kind = "error",
                      loop[i].stream = stream, open, ~ended,
                      \A j \in DOMAIN sent : sent[j] \notin Junk
               PROVE  FALSE
    BY DEF NoFalseAlarm
  <2>1. loop[i] \in Elements(loop)
    <3>1. i \in 1 .. Len(loop) BY LenProperties DEF SInv, IInv
    <3> QED BY <3>1 DEF Elements
  <2>2. Clean BY DEF Clean
  <2> QED BY <2>1, <2>2 DEF SInv, FInv, Calm
<1> QED BY <1>1, StreamInvariance, PTL

\* The read handler is given the frames of the peer byte for byte, in order, none
\* lost or repeated (connection.hpp:165-255), whatever was read before them.
THEOREM InOrder == Spec => []FramesIntact
<1>1. SInv => FramesIntact
  <2> SUFFICES ASSUME SInv, \A j \in DOMAIN sent : sent[j] \notin Junk
               PROVE  /\ Len(got) <= Len(sent)
                      /\ \A i \in DOMAIN got : got[i] = sent[i]
    BY DEF FramesIntact
  <2>1. Told BY DEF SInv, FInv, Clean
  <2>2. Len(got) \in Nat /\ Len(sent) \in Nat BY FollowFacts DEF SInv
  <2>3. DOMAIN got = 1 .. Len(got) BY LenProperties DEF SInv, IInv
  <2>4. Len(got) <= Done BY <2>2 DEF Done
  <2> QED BY <2>1, <2>2, <2>3, <2>4 DEF Told, Done
<1> QED BY <1>1, StreamInvariance, PTL
=============================================================================
