------------------------------ MODULE HelperMC ------------------------------
(***************************************************************************)
(* The setups TLC explores.                                                *)
(***************************************************************************)
EXTENDS Helper

Calm ==
    [reconnects |-> 1, topics |-> {}, starts |-> 1, rearms |-> 0,
     publishes |-> FALSE, callbackStops |-> FALSE, drops |-> FALSE,
     timeout |-> FALSE, faults |-> {}]

\* One start() against every way an attempt can end.  The second report of a
\* failure must find retries left, or it would give up instead of being counted:
\* 3 are more than one attempt has reports, -1 is no limit, and after 1 the
\* helper gives up.
OneStart ==
    {[Calm EXCEPT !.reconnects = n, !.callbackStops = TRUE, !.drops = TRUE,
                  !.timeout = TRUE, !.faults = {"connect", "refuse", "drop"}] :
        n \in {1, 3, -1}}

\* One start() and a rearm on a thread of its own.
Rearmed ==
    {[Calm EXCEPT !.rearms = 1, !.callbackStops = TRUE, !.drops = TRUE,
                  !.faults = {"connect", "refuse", "drop"}]}

\* A subscription to restore: next to a stop() in a callback, and in two lives.
Subscribed ==
    {[Calm EXCEPT !.topics = {"a"}, !.callbackStops = TRUE,
                  !.faults = {"connect", "drop"}],
     [Calm EXCEPT !.topics = {"a"}, !.starts = 2,
                  !.faults = {"connect", "drop"}]}

\* Two start()s with a stop() in a callback between them.
StartsTwice ==
    {[Calm EXCEPT !.starts = 2, !.callbackStops = TRUE,
                  !.faults = {"connect", "drop"}]}

\* A publish across the end of a session, stop() and the next start().
Publishes ==
    {[Calm EXCEPT !.starts = 2, !.publishes = TRUE, !.faults = {"drop"}]}

Lives == OneStart \cup Rearmed \cup Subscribed \cup StartsTwice \cup Publishes
StopOnly == {Calm}
StartAgain == {[Calm EXCEPT !.starts = 2, !.callbackStops = TRUE]}
=============================================================================
