---------------------------- MODULE ConnectionOps ----------------------------
(***************************************************************************)
(* The write queue and socket state of litemqtt::connection as a record,   *)
(* and what its member functions do to it:                                 *)
(*   state     state_                                                      *)
(*   open      socket_.is_open()                                           *)
(*   closed    closed_                                                     *)
(*   queue     write_queue_, items only (a handler is named by its item)   *)
(*   inFlight  in_flight_, NoItem for a null pointer                       *)
(*   writing   writing_                                                    *)
(* What the functions post to the io_context, and which handlers they run, *)
(* is said by the operators beside them.                                   *)
(***************************************************************************)
EXTENDS Naturals, Sequences

CONSTANT NoItem     \* a null in_flight_; not an item

ConnectionStates == {"disconnected", "connecting", "handshaking", "connected"}

Connections(Items) ==
    [state    : ConnectionStates,
     open     : BOOLEAN,
     closed   : BOOLEAN,
     queue    : Seq(Items),
     inFlight : Items \cup {NoItem},
     writing  : BOOLEAN]

NewConnection ==
    [state    |-> "disconnected",
     open     |-> FALSE,
     closed   |-> FALSE,
     queue    |-> <<>>,
     inFlight |-> NoItem,
     writing  |-> FALSE]

\* Items whose handler connection still owes a call.
Queued(c) == {c.queue[i] : i \in 1 .. Len(c.queue)}
Held(c) == Queued(c) \cup ({c.inFlight} \ {NoItem})

\* async_connect(): a new attempt may reuse a closed object.
BeginConnect(c) == [c EXCEPT !.state = "connecting", !.closed = FALSE]

\* do_write() can make progress only on a socket whose connect has finished.
Sendable(c) == c.open /\ c.state \in {"handshaking", "connected"}

\* Mutant of StartsWrite: a write in flight is not looked for.
StartsWriteAnyway(c) == c.queue # <<>> /\ Sendable(c)

\* Mutant of PostsFailure: what cannot be sent now waits.
PostsFailureNever(c) == FALSE

\* do_write() starts the first queued item ...
StartsWrite(c) == ~c.writing /\ c.queue # <<>> /\ Sendable(c)
\* ... or posts fail_pending_writes() because nothing can make progress.
PostsFailure(c) == ~c.writing /\ c.queue # <<>> /\ ~Sendable(c)

DoWrite(c) ==
    IF StartsWrite(c)
    THEN [c EXCEPT !.writing  = TRUE,
                   !.inFlight = Head(c.queue),
                   !.queue    = Tail(c.queue)]
    ELSE c

\* Mutant of Enqueue: the frame is put in front of those that wait.
EnqueueInFront(c, item) == [c EXCEPT !.queue = <<item>> \o @]

\* enqueue_write() on a connection that is not closed, up to its do_write().
Enqueue(c, item) == [c EXCEPT !.queue = Append(c.queue, item)]

\* fail_pending_writes(): hands over the handlers of Queued(c).
FailPending(c) == [c EXCEPT !.queue = <<>>, !.writing = FALSE]

\* Mutant of TakenOver: the completion does not look for a null in_flight_.
TakenOverNever(c) == FALSE

\* close() took the item over before the completion of its write ran.
TakenOver(c) == c.inFlight = NoItem

\* The completion of a write takes the item out of in_flight_.
TakeInFlight(c) == [c EXCEPT !.inFlight = NoItem, !.writing = FALSE]

\* A failed write drops the socket but does not set closed_.
DropSocket(c) == [c EXCEPT !.open = FALSE, !.state = "disconnected"]

\* Mutant of Close: the handlers run and the queue keeps them.
CloseKeepsQueue(c) ==
    IF c.closed
    THEN c
    ELSE [c EXCEPT !.state = "disconnected", !.open = FALSE, !.closed = TRUE,
                   !.inFlight = NoItem, !.writing = FALSE]

\* close(): idempotent; hands over the handlers of CloseTells(c).
Close(c) ==
    IF c.closed
    THEN c
    ELSE [state    |-> "disconnected",
          open     |-> FALSE,
          closed   |-> TRUE,
          queue    |-> <<>>,
          inFlight |-> NoItem,
          writing  |-> FALSE]

\* Mutant of CloseTells: the item being written is dropped with its handler.
CloseTellsQueued(c) == IF c.closed THEN {} ELSE Queued(c)

CloseTells(c) == IF c.closed THEN {} ELSE Held(c)
=============================================================================
