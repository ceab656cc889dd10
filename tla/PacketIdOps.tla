----------------------------- MODULE PacketIdOps -----------------------------
(***************************************************************************)
(* Packet identifiers of mqtt_client: 1..MaxId in cyclic order, 0 being    *)
(* reserved by the protocol.  In the code MaxId is 65535, the range of the *)
(* uint16_t next_packet_id_; the runs use a small one.                     *)
(***************************************************************************)
EXTENDS Naturals

CONSTANT MaxId      \* the largest packet identifier (65535 in the code)

ASSUME MaxIdAssumption == MaxId \in Nat /\ MaxId >= 2

Ids == 1 .. MaxId

\* Mutant of SuccId: no wrap.
SuccIdPlain(i) == i + 1

\* ++next_packet_id_ on a uint16_t, skipping the reserved value 0.
SuccId(i) == IF i = MaxId THEN 1 ELSE i + 1

\* The identifier reached from i after k increments, for k in 1 .. MaxId - 1.
NthId(i, k) == IF i + k <= MaxId THEN i + k ELSE (i + k) - MaxId

\* k increments lead from i to the first identifier outside used.
FirstFreeAt(i, used, k) ==
    /\ NthId(i, k) \notin used
    /\ \A j \in 1 .. k - 1 : NthId(i, j) \in used

\* Every identifier but i itself is in use: a whole turn finds nothing.
NoneFree(i, used) == \A k \in 1 .. MaxId - 1 : NthId(i, k) \in used
=============================================================================
