-------------------------------- MODULE Wire --------------------------------
(***************************************************************************)
(* The codec of packets.hpp, buffer_writer.hpp and buffer_reader.hpp: what *)
(* serialize() writes for a packet and what parse() makes of the bytes.    *)
(* A string or a payload is a sequence of bytes; which bytes is of no      *)
(* concern.                                                                *)
(***************************************************************************)
EXTENDS Bytes, SequencesExt

\* packet_type
TypeCode ==
    [CONNECT |-> 1, CONNACK |-> 2, PUBLISH |-> 3, PUBACK |-> 4, PUBREC |-> 5,
     PUBREL |-> 6, PUBCOMP |-> 7, SUBSCRIBE |-> 8, SUBACK |-> 9,
     UNSUBSCRIBE |-> 10, UNSUBACK |-> 11, PINGREQ |-> 12, PINGRESP |-> 13,
     DISCONNECT |-> 14]

TypeOfByte(b) == CHOOSE t \in DOMAIN TypeCode : TypeCode[t] = TypeBits(b)

Acks == {"PUBACK", "PUBREC", "PUBREL", "PUBCOMP", "UNSUBACK"}
Bare == {"PINGREQ", "PINGRESP", "DISCONNECT"}

Bit(set, weight) == IF set THEN weight ELSE 0
HasBit(b, weight) == (b \div weight) % 2 = 1

Drop(s, n) == SubSeq(s, n + 1, Len(s))
-----------------------------------------------------------------------------
(* buffer_writer *)

\* write_uint16(); a size that does not fit is cut to its low 16 bits.
U16(n) == <<(n \div Octet) % Octet, n % Octet>>

Str(s) == U16(Len(s)) \o s

\* Mutant: a length of Radix is written as one digit.
RemainingLengthLate(n) ==
    LET digits[v \in 0 .. n] ==
            IF v <= Radix THEN <<v>>
            ELSE <<(v % Radix) + Radix>> \o digits[v \div Radix]
    IN  digits[n]

\* write_remaining_length(): base-Radix digits, the lowest first, as many as
\* it takes.
RemainingLength(n) ==
    LET digits[v \in 0 .. n] ==
            IF v < Radix THEN <<v>>
            ELSE <<(v % Radix) + Radix>> \o digits[v \div Radix]
    IN  digits[n]
-----------------------------------------------------------------------------
(* serialize() *)

\* A user name or a password is written only if there is one.
Optional(s) == IF s = <<>> THEN <<>> ELSE Str(s)

ProtocolName == <<1, 1, 2, 2>>    \* "MQTT"
ProtocolLevel == 4

ConnectFlags(p) ==
    Bit(p.clean, 2) + Bit(p.username # <<>>, 128) + Bit(p.password # <<>>, 64)

ConnectBody(p) ==
    Str(ProtocolName) \o <<ProtocolLevel, ConnectFlags(p)>> \o U16(p.keepAlive)
    \o Str(p.clientId) \o Optional(p.username) \o Optional(p.password)

ConnackBody(p) == <<p.present % 2, p.code>>

\* Only a packet with a qos has an identifier.
PublishBody(p) ==
    Str(p.topic) \o (IF p.qos > 0 THEN U16(p.pid) ELSE <<>>) \o p.payload

SubscribeBody(p) ==
    U16(p.pid) \o FlattenSeq([i \in DOMAIN p.filters |->
                                 Str(p.filters[i].topic) \o <<p.filters[i].qos>>])

UnsubscribeBody(p) ==
    U16(p.pid) \o FlattenSeq([i \in DOMAIN p.filters |-> Str(p.filters[i])])

SubackBody(p) == U16(p.pid) \o p.codes

AckBody(p) == U16(p.pid)

Body(p) ==
    CASE p.type = "CONNECT"     -> ConnectBody(p)
      [] p.type = "CONNACK"     -> ConnackBody(p)
      [] p.type = "PUBLISH"     -> PublishBody(p)
      [] p.type = "SUBSCRIBE"   -> SubscribeBody(p)
      [] p.type = "UNSUBSCRIBE" -> UnsubscribeBody(p)
      [] p.type = "SUBACK"      -> SubackBody(p)
      [] p.type \in Acks        -> AckBody(p)
      [] p.type \in Bare        -> <<>>

TypeFlags(p) ==
    CASE p.type = "PUBLISH" -> ((p.qos % 4) * 2) + Bit(p.dup, 8)
      [] p.type \in {"PUBREL", "SUBSCRIBE", "UNSUBSCRIBE"} -> 2
      [] OTHER -> 0

\* Acknowledgements and pings write their length as a literal byte.
Serialize(p) ==
    <<(TypeCode[p.type] * 16) + TypeFlags(p)>>
    \o (IF p.type \in Acks \cup Bare \cup {"CONNACK"}
        THEN <<Len(Body(p))>> ELSE RemainingLength(Len(Body(p))))
    \o Body(p)
-----------------------------------------------------------------------------
(* buffer_reader: a value read, and the bytes behind it.  A read that finds *)
(* too few bytes leaves the value at its default and is not noticed.        *)

Took(val, rest) == [val |-> val, rest |-> rest]

TakeByte(s) == IF s = <<>> THEN Took(0, s) ELSE Took(Head(s), Tail(s))

TakeU16(s) ==
    IF Len(s) < 2 THEN Took(0, s) ELSE Took((s[1] * Octet) + s[2], Drop(s, 2))

\* The size is consumed even if the string it announces is not there.
TakeString(s) ==
    LET size == TakeU16(s)
    IN  IF size.val > Len(size.rest) THEN Took(<<>>, size.rest)
        ELSE Took(SubSeq(size.rest, 1, size.val), Drop(size.rest, size.val))

TakeStringIf(present, s) == IF present THEN TakeString(s) ELSE Took(<<>>, s)

\* read_remaining_length(), whose value parse() ignores: up to the first byte
\* without the continuation mark, and no further than a fifth one.
SkipLength(s) ==
    LET ends == {i \in DOMAIN s : ~Continues(s[i]) \/ i = 5}
    IN  IF ends = {} THEN <<>> ELSE Drop(s, Min(ends))
-----------------------------------------------------------------------------
(* parse() *)

Fields(raw) == SkipLength(Tail(raw))

ParseConnect(raw) ==
    LET name == TakeString(Fields(raw))
        level == TakeByte(name.rest)
        flags == TakeByte(level.rest)
        keepAlive == TakeU16(flags.rest)
        clientId == TakeString(keepAlive.rest)
        username == TakeStringIf(HasBit(flags.val, 128), clientId.rest)
        password == TakeStringIf(HasBit(flags.val, 64), username.rest)
    IN  [type |-> "CONNECT", clean |-> HasBit(flags.val, 2),
         keepAlive |-> keepAlive.val, clientId |-> clientId.val,
         username |-> username.val, password |-> password.val]

ParseConnack(raw) ==
    LET present == TakeByte(Fields(raw))
    IN  [type |-> "CONNACK", present |-> present.val,
         code |-> TakeByte(present.rest).val]

\* Mutant: the identifier is read whatever the qos.
ParsePublishWithId(raw) ==
    LET topic == TakeString(Fields(raw))
        pid == TakeU16(topic.rest)
    IN  [type |-> "PUBLISH", qos |-> (raw[1] \div 2) % 4,
         dup |-> HasBit(raw[1], 8), pid |-> pid.val, topic |-> topic.val,
         payload |-> pid.rest]

\* The payload is whatever is left.
ParsePublish(raw) ==
    LET qos == (raw[1] \div 2) % 4
        topic == TakeString(Fields(raw))
        pid == IF qos > 0 THEN TakeU16(topic.rest) ELSE Took(0, topic.rest)
    IN  [type |-> "PUBLISH", qos |-> qos, dup |-> HasBit(raw[1], 8),
         pid |-> pid.val, topic |-> topic.val, payload |-> pid.rest]

\* One return code for every byte that is left.
ParseSuback(raw) ==
    LET pid == TakeU16(Fields(raw))
    IN  [type |-> "SUBACK", pid |-> pid.val, codes |-> pid.rest]

ParseAck(raw) ==
    [type |-> TypeOfByte(raw[1]), pid |-> TakeU16(Fields(raw)).val]

\* The library never parses a SUBSCRIBE or an UNSUBSCRIBE.
Parse(raw) ==
    LET type == TypeOfByte(raw[1])
    IN  CASE type = "CONNECT" -> ParseConnect(raw)
          [] type = "CONNACK" -> ParseConnack(raw)
          [] type = "PUBLISH" -> ParsePublish(raw)
          [] type = "SUBACK"  -> ParseSuback(raw)
          [] type \in Acks    -> ParseAck(raw)
          [] OTHER            -> [type |-> type]
=============================================================================
