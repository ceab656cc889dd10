------------------------------ MODULE ClientMC ------------------------------
(***************************************************************************)
(* The setups TLC explores.                                                *)
(***************************************************************************)
EXTENDS Client

\* Nothing is asked of the client and nothing goes wrong.
Quiet ==
    [publishes |-> <<>>, subscribes |-> <<>>, inbound |-> 0, inboundQos |-> {},
     subacks |-> {}, attempts |-> 1, pending |-> 2, sends |-> 2,
     keepAlive |-> FALSE, timeout |-> FALSE, early |-> FALSE,
     disconnects |-> FALSE, closes |-> FALSE, faults |-> {}]

\* A QoS 1 publish over two attempts, with every fault and the three sends of
\* the code.
Reconnects ==
    [Quiet EXCEPT !.publishes = <<1>>, !.attempts = 2, !.sends = 3,
                  !.timeout = TRUE, !.faults = FaultKinds]

\* A QoS 2 publish with a peer that stops reading, goes silent or drops.
ExactlyOnce ==
    [Quiet EXCEPT !.publishes = <<2>>, !.faults = {"silent", "drop"}]

\* A QoS 2 publish, none of whose frames is re-sent and any may fail to be
\* written.
WritesFail ==
    [Quiet EXCEPT !.publishes = <<2>>, !.sends = 1,
                  !.faults = {"silent", "drop", "write"}]

\* More publishes than the window holds, next to a subscribe.
WindowFull ==
    [Quiet EXCEPT !.publishes = <<0, 1, 1>>, !.subscribes = <<1>>,
                  !.subacks = {"granted", "refused", "short"},
                  !.pending = 1, !.sends = 1, !.faults = {"silent", "drop"}]

\* Calls with a quality of service there is not.
InvalidQos == [Quiet EXCEPT !.publishes = <<3>>, !.subscribes = <<3>>]

\* Pings next to a message of any qos, and an application that may leave.
Pings ==
    [Quiet EXCEPT !.inbound = 1, !.inboundQos = {1, 2, 3}, !.keepAlive = TRUE,
                  !.timeout = TRUE, !.disconnects = TRUE, !.closes = TRUE,
                  !.faults = {"silent", "drop", "write"}]

\* A subscribe whose write may fail.
SubscribeFails ==
    {[Quiet EXCEPT !.subscribes = <<1>>, !.subacks = {"granted"},
                   !.faults = {"write"}]}

\* Keep-alive over two attempts.
TwoSessions ==
    [Quiet EXCEPT !.attempts = 2, !.keepAlive = TRUE, !.timeout = TRUE,
                  !.faults = {"refuse", "silent"}]

Publishing == {Reconnects, ExactlyOnce, WritesFail, TwoSessions}

Services == {WindowFull, InvalidQos, Pings}
OnlyPings == {[Quiet EXCEPT !.keepAlive = TRUE]}
OnlyTimeout == {[Quiet EXCEPT !.timeout = TRUE]}
=============================================================================
