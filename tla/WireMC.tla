------------------------------- MODULE WireMC -------------------------------
(***************************************************************************)
(* The codec and the framing together: a peer writes packets with          *)
(* serialize(), the connection cuts its stream, and parse() reads what the *)
(* read handler is given.  With digits of three values instead of 128 the  *)
(* packets below have remaining lengths of one to four digits.             *)
(***************************************************************************)
EXTENDS Framing, Wire

Bytes(n) == [i \in 1 .. n |-> i % Octet]

Connect(username, password) ==
    [type |-> "CONNECT", clean |-> TRUE, keepAlive |-> 7, clientId |-> Bytes(1),
     username |-> username, password |-> password]
Publish(qos, dup, pid, topic, payload) ==
    [type |-> "PUBLISH", qos |-> qos, dup |-> dup, pid |-> pid,
     topic |-> Bytes(topic), payload |-> Bytes(payload)]
Ack(type, pid) == [type |-> type, pid |-> pid]

Subscribe(filters) == [type |-> "SUBSCRIBE", pid |-> 7, filters |-> filters]
Unsubscribe(filters) == [type |-> "UNSUBSCRIBE", pid |-> 7, filters |-> filters]

\* Packets of every kind of body, up to the largest length of two digits (8) and
\* of three (26).
Packets ==
    {Connect(<<>>, <<>>), Connect(Bytes(2), Bytes(1)), Connect(<<>>, Bytes(1)),
     [type |-> "CONNACK", present |-> 1, code |-> 5],
     Publish(0, FALSE, 0, 0, 0), Publish(0, FALSE, 0, 1, 0),
     Publish(1, TRUE, 8, 1, 1), Publish(2, FALSE, 9, 2, 3),
     Publish(2, FALSE, 35, 1, 4), Publish(1, FALSE, 1, 4, 19),
     Publish(0, FALSE, 0, 3, 22),
     [type |-> "SUBACK", pid |-> 6, codes |-> <<>>],
     [type |-> "SUBACK", pid |-> 6, codes |-> <<1, 128>>],
     Subscribe(<<[topic |-> Bytes(3), qos |-> 1]>>),
     Subscribe(<<[topic |-> <<>>, qos |-> 0], [topic |-> Bytes(2), qos |-> 2]>>),
     Unsubscribe(<<Bytes(1), Bytes(3)>>),
     Ack("PUBREL", 35), Ack("UNSUBACK", 5), [type |-> "PINGRESP"]}

\* A reserved type, a length of six digits, and a packet too long for four.
Refused ==
    {<<240, 0>>, <<48, Radix, Radix, Radix, Radix, Radix, 0>>,
     Serialize(Publish(0, FALSE, 0, 0, Radix ^ 4))}

\* On the first stream every packet and every refused frame, in front of a short
\* one and behind a long one; then a second stream.
Short == Serialize(Ack("PUBREL", 35))
Long == Serialize(Publish(0, FALSE, 0, 3, 22))
Streams ==
    LET any == {Serialize(p) : p \in Packets} \cup Refused
    IN  <<{<<f, Short>> : f \in any} \cup {<<Long, f>> : f \in any},
          {<<Long, Short>>}>>

\* A SUBSCRIBE and an UNSUBSCRIBE are only ever written.
Meaning(p) ==
    IF p.type \in {"SUBSCRIBE", "UNSUBSCRIBE"} THEN [type |-> p.type] ELSE p

\* What the read handler is given parses to the packets that were sent, in the
\* order they were sent: nothing is lost, repeated or shifted by a byte, and
\* every field comes back that the library has a use for.
Decoded ==
    /\ Len(got) <= Len(sent)
    /\ \A i \in DOMAIN got :
          /\ got[i] = sent[i]
          /\ \E p \in Packets :
                sent[i] = Serialize(p) /\ Parse(got[i]) = Meaning(p)
=============================================================================
