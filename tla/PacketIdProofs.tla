--------------------------- MODULE PacketIdProofs ---------------------------
(***************************************************************************)
(* acquire_packet_id() for every size of the identifier space: the loop    *)
(* invariant, and that the loop implements the atomic allocation.          *)
(***************************************************************************)
EXTENDS PacketId, TLAPS

\* What the last call returned is where the counter stood when it returned.
ResultIsCounter ==
    /\ pc = "idle" => result \in {0, nextPacketId}
    /\ pc = "scan" => result \in {0, start}

\* Loop invariant of acquire_packet_id(): every identifier passed since the
\* start of the turn is held, so the scan skips nothing it could have handed
\* out, across the wrap of the uint16_t included.
PassedAreHeld ==
    pc = "scan" =>
        \/ nextPacketId = start
        \/ \E k \in 1 .. MaxId - 1 :
              /\ nextPacketId = NthId(start, k)
              /\ \A j \in 1 .. k : NthId(start, j) \in held

\* The inductive invariant.
IInv == TypeOK /\ PassedAreHeld /\ ResultIsCounter

-----------------------------------------------------------------------------
(* Cyclic arithmetic of the identifiers *)

\* One increment stays in the identifier space and never stands still.
LEMMA SuccType ==
    ASSUME NEW i \in Ids
    PROVE  SuccId(i) \in Ids /\ SuccId(i) # i
BY MaxIdAssumption DEF Ids, SuccId

\* The first increment of a turn.
LEMMA NthOne ==
    ASSUME NEW i \in Ids
    PROVE  NthId(i, 1) = SuccId(i)
BY MaxIdAssumption DEF Ids, SuccId, NthId

\* One more increment before the turn is complete.
LEMMA NthSucc ==
    ASSUME NEW i \in Ids, NEW k \in 1 .. MaxId - 1
    PROVE  /\ NthId(i, k) \in Ids
           /\ k < MaxId - 1 => SuccId(NthId(i, k)) = NthId(i, k + 1)
           /\ k = MaxId - 1 => SuccId(NthId(i, k)) = i
BY MaxIdAssumption DEF Ids, SuccId, NthId

\* Before the turn is complete the start is not met again.
LEMMA NthNotStart ==
    ASSUME NEW i \in Ids, NEW k \in 1 .. MaxId - 1
    PROVE  NthId(i, k) # i
BY MaxIdAssumption DEF Ids, NthId

-----------------------------------------------------------------------------
(* The inductive invariant *)

\* Before the first call the invariant holds.
LEMMA InitIInv == Init => IInv
BY MaxIdAssumption DEF Init, IInv, TypeOK, PassedAreHeld, ResultIsCounter, Ids

\* The counter stands where k + 1 increments from the start of the turn lead,
\* and everything passed on the way is held.
LEMMA Advance ==
    ASSUME IInv, pc = "scan", SuccId(nextPacketId) # start
    PROVE  \E k \in 1 .. MaxId - 1 :
              /\ SuccId(nextPacketId) = NthId(start, k)
              /\ \A j \in 1 .. k - 1 : NthId(start, j) \in held
<1> USE DEF IInv, TypeOK
<1>1. CASE nextPacketId = start
  <2>1. SuccId(nextPacketId) = NthId(start, 1) BY <1>1, NthOne
  <2>2. 1 \in 1 .. MaxId - 1 BY MaxIdAssumption
  <2>3. \A j \in 1 .. 1 - 1 : NthId(start, j) \in held OBVIOUS
  <2> QED BY <2>1, <2>2, <2>3
<1>2. CASE nextPacketId # start
  <2>1. PICK k \in 1 .. MaxId - 1 :
           /\ nextPacketId = NthId(start, k)
           /\ \A j \in 1 .. k : NthId(start, j) \in held
    BY <1>2 DEF PassedAreHeld
  <2>2. k # MaxId - 1 BY <2>1, NthSucc
  <2>3. k + 1 \in 1 .. MaxId - 1 BY <2>2, MaxIdAssumption
  <2>4. SuccId(nextPacketId) = NthId(start, k + 1)
    BY <2>1, <2>2, <2>3, NthSucc, MaxIdAssumption
  <2>5. \A j \in 1 .. (k + 1) - 1 : NthId(start, j) \in held BY <2>1
  <2> QED BY <2>3, <2>4, <2>5
<1> QED BY <1>1, <1>2

\* When the turn is complete, every identifier but the start is held.
LEMMA TurnComplete ==
    ASSUME IInv, pc = "scan", SuccId(nextPacketId) = start
    PROVE  NoneFree(start, held)
<1> USE DEF IInv, TypeOK
<1>1. nextPacketId # start BY SuccType
<1>2. PICK k \in 1 .. MaxId - 1 :
         /\ nextPacketId = NthId(start, k)
         /\ \A j \in 1 .. k : NthId(start, j) \in held
  BY <1>1 DEF PassedAreHeld
<1>3. k = MaxId - 1
  <2> SUFFICES ASSUME k < MaxId - 1 PROVE FALSE BY MaxIdAssumption
  <2>1. k + 1 \in 1 .. MaxId - 1 BY MaxIdAssumption
  <2>2. SuccId(nextPacketId) = NthId(start, k + 1) BY <1>2, NthSucc
  <2> QED BY <2>1, <2>2, NthNotStart
<1> QED BY <1>2, <1>3 DEF NoneFree

\* Every step of the scan and of its callers keeps the invariant.
LEMMA NextIInv == IInv /\ [Next]_vars => IInv'
<1> SUFFICES ASSUME IInv, [Next]_vars PROVE IInv' OBVIOUS
<1> USE DEF IInv, TypeOK, ResultIsCounter
<1>1. CASE Call BY <1>1 DEF Call, PassedAreHeld
<1>2. CASE Skip
  <2>1. SuccId(nextPacketId) \in Ids BY SuccType
  <2>2. PassedAreHeld'
    <3>1. PICK k \in 1 .. MaxId - 1 :
             /\ SuccId(nextPacketId) = NthId(start, k)
             /\ \A j \in 1 .. k - 1 : NthId(start, j) \in held
      BY <1>2, Advance DEF Skip
    <3>2. \A j \in 1 .. k : NthId(start, j) \in held
      BY <1>2, <3>1 DEF Skip
    <3> QED BY <1>2, <3>1, <3>2 DEF Skip, PassedAreHeld
  <2> QED BY <1>2, <2>1, <2>2 DEF Skip
<1>3. CASE Take BY <1>3, SuccType DEF Take, PassedAreHeld
<1>4. CASE GiveUp BY <1>4 DEF GiveUp, PassedAreHeld
<1>5. CASE Release BY <1>5 DEF Release, PassedAreHeld
<1>6. CASE UNCHANGED vars BY <1>6 DEF vars, PassedAreHeld
<1> QED BY <1>1, <1>2, <1>3, <1>4, <1>5, <1>6 DEF Next

\* The strengthened invariant holds in every reachable state.
THEOREM Invariance == Spec => []IInv
BY InitIInv, NextIInv, PTL DEF Spec

\* Type correctness: the counter never leaves 1 .. MaxId, 0 is never handed out
\* as an identifier and the wrap of the uint16_t skips it.
THEOREM TypeCorrect == Spec => []TypeOK
<1>1. IInv => TypeOK BY DEF IInv
<1> QED BY <1>1, Invariance, PTL

\* The loop invariant of acquire_packet_id(), for every identifier space.
THEOREM ScanInvariant == Spec => [](TypeOK /\ PassedAreHeld)
<1>1. IInv => TypeOK /\ PassedAreHeld BY DEF IInv
<1> QED BY <1>1, Invariance, PTL

-----------------------------------------------------------------------------
(* Refinement and the reuse of identifiers *)

\* A whole scan is one atomic allocation: nothing free is skipped, across the
\* wrap of next_packet_id_ included, and 0 is returned only when every other
\* identifier is in use.
THEOREM ImplementsAlloc == Spec => AllocSpec
<1> USE DEF Abstract!Next, Abstract!vars
<1>1. Init => Abstract!Init BY DEF Init, Abstract!Init
<1>2. IInv /\ [Next]_vars => [Abstract!Next]_(Abstract!vars)
  <2> SUFFICES ASSUME IInv, [Next]_vars
               PROVE  [Abstract!Next]_(Abstract!vars)
    OBVIOUS
  <2>1. CASE Call BY <2>1 DEF Call
  <2>2. CASE Skip BY <2>2 DEF Skip
  <2>3. CASE Take
    <3>1. PICK k \in 1 .. MaxId - 1 :
             /\ SuccId(nextPacketId) = NthId(start, k)
             /\ \A j \in 1 .. k - 1 : NthId(start, j) \in held
      BY <2>3, Advance DEF Take
    <3>2. Abstract!FirstFreeAt(start, held, k)
      BY <2>3, <3>1 DEF Take, Abstract!FirstFreeAt, Abstract!NthId, NthId
    <3>3. Abstract!Grant
      BY <2>3, <3>1, <3>2 DEF Take, Abstract!Grant, Abstract!NthId, NthId
    <3> QED BY <3>3
  <2>4. CASE GiveUp
    <3>1. NoneFree(start, held) BY <2>4, TurnComplete DEF GiveUp
    <3>2. Abstract!NoneFree(start, held)
      BY <3>1 DEF Abstract!NoneFree, NoneFree, Abstract!NthId, NthId
    <3>3. Abstract!Exhaust BY <2>4, <3>2 DEF GiveUp, Abstract!Exhaust
    <3> QED BY <3>3
  <2>5. CASE Release BY <2>5 DEF Release, Abstract!Release
  <2>6. CASE UNCHANGED vars BY <2>6 DEF vars
  <2> QED BY <2>1, <2>2, <2>3, <2>4, <2>5, <2>6 DEF Next
<1> QED BY <1>1, <1>2, Invariance, PTL DEF Spec, AllocSpec, Abstract!Spec

\* Two calls in a row never return the same identifier.
THEOREM NeverReusedAtOnce == Spec => NoImmediateReuse
<1>1. IInv /\ [Next]_vars
        => [Take /\ result # 0 => result' # result]_vars
  BY DEF IInv, ResultIsCounter, Take
<1> QED BY <1>1, Invariance, PTL DEF Spec, NoImmediateReuse
=============================================================================
