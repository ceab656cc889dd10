------------------------------ MODULE PacketId ------------------------------
(***************************************************************************)
(* mqtt_client::acquire_packet_id() iteration by iteration, together with  *)
(* the callers that record what it returns and the acknowledgements that   *)
(* release it.  The scan runs on the io thread, so nothing is released     *)
(* while it is under way.                                                  *)
(***************************************************************************)
EXTENDS PacketIdOps, FiniteSets

VARIABLES nextPacketId,  \* next_packet_id_
          held,          \* keys of pending_publishes_, pending_subscribes_ and
                         \* pending_pubrecs_ together
          start,         \* local of the call under way: where the turn began
          pc,            \* "idle", or "scan" while the loop runs
          result         \* what the last finished call returned; 0 is failure

vars == <<nextPacketId, held, start, pc, result>>

Init ==
    /\ nextPacketId = 1
    /\ held = {}
    /\ start = 1
    /\ pc = "idle"
    /\ result = 1

\* async_publish_impl() or async_subscribe_impl() enters acquire_packet_id().
Call ==
    /\ pc = "idle"
    /\ pc' = "scan"
    /\ start' = nextPacketId
    /\ UNCHANGED <<nextPacketId, held, result>>

\* Mutant of Skip: the loop never compares with the start of the turn.
SkipForever ==
    /\ pc = "scan"
    /\ SuccId(nextPacketId) \in held
    /\ nextPacketId' = SuccId(nextPacketId)
    /\ UNCHANGED <<held, start, pc, result>>

\* The iteration meets a held identifier that is not the start: go on.
Skip ==
    /\ pc = "scan"
    /\ SuccId(nextPacketId) # start
    /\ SuccId(nextPacketId) \in held
    /\ nextPacketId' = SuccId(nextPacketId)
    /\ UNCHANGED <<held, start, pc, result>>

\* Mutant of Take: the increment is applied twice before the test.
TakeSkipsOne ==
    /\ pc = "scan"
    /\ SuccId(nextPacketId) # start
    /\ SuccId(SuccId(nextPacketId)) \notin held
    /\ nextPacketId' = SuccId(SuccId(nextPacketId))
    /\ pc' = "idle"
    /\ result' = SuccId(SuccId(nextPacketId))
    /\ \/ held' = held \cup {SuccId(SuccId(nextPacketId))}
       \/ held' = held
    /\ UNCHANGED start

\* Mutant of Take: it returns the identifier before incrementing.
TakePostIncrement ==
    /\ pc = "scan"
    /\ SuccId(nextPacketId) # start
    /\ nextPacketId \notin held
    /\ nextPacketId' = SuccId(nextPacketId)
    /\ pc' = "idle"
    /\ result' = nextPacketId
    /\ held' = held \cup {nextPacketId}
    /\ UNCHANGED start

\* The iteration meets a free identifier: return it.  The caller records it,
\* or (publish backpressure) drops the publish and leaves it unused.
Take ==
    /\ pc = "scan"
    /\ SuccId(nextPacketId) # start
    /\ SuccId(nextPacketId) \notin held
    /\ nextPacketId' = SuccId(nextPacketId)
    /\ pc' = "idle"
    /\ result' = SuccId(nextPacketId)
    /\ \/ held' = held \cup {SuccId(nextPacketId)}
       \/ held' = held
    /\ UNCHANGED start

\* The turn is complete: notify_closed_once() empties the pending maps, and
\* the call returns 0.
GiveUp ==
    /\ pc = "scan"
    /\ SuccId(nextPacketId) = start
    /\ nextPacketId' = start
    /\ pc' = "idle"
    /\ result' = 0
    /\ held' = {}
    /\ UNCHANGED start

\* Between two calls an acknowledgement erases one entry.
Release ==
    /\ pc = "idle"
    /\ \E id \in held : held' = held \ {id}
    /\ UNCHANGED <<nextPacketId, start, pc, result>>

Next == Call \/ Skip \/ Take \/ GiveUp \/ Release

Scan == Skip \/ Take \/ GiveUp

Spec == Init /\ [][Next]_vars

\* The loop body runs to completion on the io thread once it was entered.
FairSpec == Spec /\ WF_vars(Scan)
-----------------------------------------------------------------------------
(* Properties *)

\* Every variable stays in its type.
TypeOK ==
    /\ nextPacketId \in Ids
    /\ held \in SUBSET Ids
    /\ start \in Ids
    /\ pc \in {"idle", "scan"}
    /\ result \in Ids \cup {0}

\* The loop of acquire_packet_id() implements the atomic allocation: the whole
\* scan looks to its callers like one step from where the turn began.
Abstract == INSTANCE PacketIdAlloc
                WITH last <- IF pc = "scan" THEN start ELSE nextPacketId
AllocSpec == Abstract!Spec

\* Two calls in a row never return the same identifier, whatever is released
\* in between: a late acknowledgement of a publish that was just given up
\* cannot be credited to the publish that follows it.
NoImmediateReuse ==
    [][Take /\ result # 0 => result' # result]_vars

\* The for (;;) of acquire_packet_id() always leaves.
ScanEnds == pc = "scan" ~> pc = "idle"

\* client.hpp:718 "Returns 0 if all packet IDs are exhausted (all 65535 IDs are
\* in use)": a call gives up only when every identifier is held.
GivesUpOnlyWhenAllHeld == [][GiveUp => held = Ids]_vars
=============================================================================
