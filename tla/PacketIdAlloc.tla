---------------------------- MODULE PacketIdAlloc ----------------------------
(***************************************************************************)
(* What acquire_packet_id() promises its callers, as one atomic step: the  *)
(* first identifier after the last one handed out that no pending publish, *)
(* PUBREL or subscribe holds, in cyclic order.                             *)
(***************************************************************************)
EXTENDS PacketIdOps

VARIABLES last,   \* the identifier handed out last (next_packet_id_)
          held    \* identifiers some pending_* map holds

vars == <<last, held>>

Init == last = 1 /\ held = {}

\* A caller gets an identifier; it records it in a pending_* map unless
\* backpressure makes it drop the publish after the identifier was taken.
Grant ==
    \E k \in 1 .. MaxId - 1 :
        /\ FirstFreeAt(last, held, k)
        /\ last' = NthId(last, k)
        /\ \/ held' = held \cup {NthId(last, k)}
           \/ held' = held

\* Nothing found in a whole turn: the session is torn down, which empties
\* the pending_* maps.
Exhaust ==
    /\ NoneFree(last, held)
    /\ held' = {}
    /\ UNCHANGED last

\* An acknowledgement, a give-up or the end of a session frees identifiers.
Release == \E gone \in SUBSET held : held' = held \ gone /\ UNCHANGED last

Next == Grant \/ Exhaust \/ Release

Spec == Init /\ [][Next]_vars
=============================================================================
