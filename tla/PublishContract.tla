--------------------------- MODULE PublishContract ---------------------------
(***************************************************************************)
(* What mqtt_client promises the application about its publishes: each is  *)
(* answered once, success means that the broker has the message, and a     *)
(* publish that was answered with failure does not reach the broker any    *)
(* more.                                                                   *)
(***************************************************************************)

VARIABLES life,       \* of each publish: "new", "open", "succeeded", "failed"
          delivered   \* publishes the broker has: the PUBLISH, for QoS 2 the
                      \* PUBREL too

vars == <<life, delivered>>

Init ==
    /\ \A n \in DOMAIN life : life[n] = "new"
    /\ delivered = {}

\* async_publish()
Submit(n) == life[n] = "new" /\ life'[n] = "open"

\* The callback runs.
Succeed(n) == life[n] = "open" /\ n \in delivered /\ life'[n] = "succeeded"
Fail(n) == life[n] = "open" /\ life'[n] = "failed"

\* One handler may answer many publishes: notify_closed_once() fails them all.
Next ==
    /\ DOMAIN life' = DOMAIN life
    /\ \A n \in DOMAIN life :
          Submit(n) \/ Succeed(n) \/ Fail(n) \/ life'[n] = life[n]
    /\ delivered \subseteq delivered'
    /\ \A n \in delivered' \ delivered : life[n] = "open"

Spec == Init /\ [][Next]_vars
=============================================================================
