------------------------------ MODULE WireProofs ------------------------------
(***************************************************************************)
(* Proofs about Wire: what is true of a packet and what its sender means   *)
(* by it, for all levels, texts, keys and numbers of keys.                 *)
(***************************************************************************)
EXTENDS Wire, AapParserProofs

-----------------------------------------------------------------------------
(* Sequences of bytes.                                                     *)

LEMMA SmallNumbersAreBytes == \A k \in Nat : k < 256 => k \in Byte
BY DEF Byte

(* p is n bytes long.  (Len(p) = n would make the provers count them.)     *)
Long(p, n) == p \in Seq(Byte) /\ n <= Len(p) /\ Len(p) <= n

LEMMA ZerosType ==
  ASSUME NEW n \in Nat PROVE Long(Zeros(n), n) /\ \A i \in 1..n : Zeros(n)[i] = 0
BY DEF Zeros, Byte, Long

LEMMA OneByte == ASSUME NEW a \in Byte PROVE Long(<<a>>, 1) /\ <<a>>[1] = a
BY DEF Long

LEMMA TwoBytes ==
  ASSUME NEW a \in Byte, NEW b \in Byte
  PROVE  Long(<<a, b>>, 2) /\ <<a, b>>[1] = a /\ <<a, b>>[2] = b
BY DEF Long

LEMMA FourBytes ==
  ASSUME NEW a \in Byte, NEW b \in Byte, NEW c \in Byte, NEW d \in Byte
  PROVE  /\ Long(<<a, b, c, d>>, 4)
         /\ <<a, b, c, d>>[1] = a /\ <<a, b, c, d>>[2] = b
         /\ <<a, b, c, d>>[3] = c /\ <<a, b, c, d>>[4] = d
BY DEF Long

LEMMA FiveBytes ==
  ASSUME NEW a \in Byte, NEW b \in Byte, NEW c \in Byte, NEW d \in Byte, NEW e \in Byte
  PROVE  /\ Long(<<a, b, c, d, e>>, 5)
         /\ <<a, b, c, d, e>>[1] = a /\ <<a, b, c, d, e>>[2] = b
         /\ <<a, b, c, d, e>>[3] = c /\ <<a, b, c, d, e>>[4] = d
         /\ <<a, b, c, d, e>>[5] = e
BY DEF Long

(* w is s, m long, and then t, n long.                                     *)
IsJoin(w, s, m, t, n) ==
  /\ Long(w, m + n)
  /\ \A i \in 1..m : w[i] = s[i]
  /\ \A i \in m + 1..m + n : w[i] = t[i - m]

LEMMA JoinIs ==
  ASSUME NEW m \in Nat, NEW n \in Nat, NEW s, NEW t, Long(s, m), Long(t, n)
  PROVE  IsJoin(s \o t, s, m, t, n)
BY DEF IsJoin, Long

(* Where a sequence stands in another.                                     *)
LEMMA PartAt ==
  ASSUME NEW p \in Seq(Byte), NEW m \in Nat, NEW n \in Nat, m + n <= Len(p)
  PROVE  /\ SubSeq(p, m + 1, m + n) \in Seq(Byte)
         /\ Len(SubSeq(p, m + 1, m + n)) = n
         /\ \A i \in 1..n : SubSeq(p, m + 1, m + n)[i] = p[m + i]
<1> DEFINE u == SubSeq(p, m + 1, m + n)
<1>1. \A i \in m + 1..m + n : p[i] \in Byte
  OBVIOUS
<1>2. /\ u \in Seq(Byte)
      /\ Len(u) = IF m + 1 <= m + n THEN (m + n) - (m + 1) + 1 ELSE 0
      /\ \A i \in 1..(m + n) - (m + 1) + 1 : u[i] = p[(m + 1) + i - 1]
  BY <1>1, SubSeqProperties
<1> HIDE DEF u
<1>3. (m + n) - (m + 1) + 1 = n /\ \A i \in 1..n : (m + 1) + i - 1 = m + i
  OBVIOUS
<1>4. Len(u) = n /\ \A i \in 1..n : u[i] = p[m + i]
  BY <1>2, <1>3
<1> QED
  BY <1>2, <1>4 DEF u

LEMMA PartOf ==
  ASSUME NEW m \in Nat, NEW n \in Nat, NEW p \in Seq(Byte), NEW t \in Seq(Byte),
         n = Len(t), m + n <= Len(p), \A i \in 1..n : p[m + i] = t[i]
  PROVE  SubSeq(p, m + 1, m + n) = t
<1> DEFINE u == SubSeq(p, m + 1, m + n)
<1>1. u \in Seq(Byte) /\ Len(u) = n /\ \A i \in 1..n : u[i] = p[m + i]
  BY PartAt
<1> HIDE DEF u
<1>2. u = t
  BY <1>1, SeqEqual
<1> QED
  BY <1>2 DEF u

(* q is the beginning of p.                                                *)
Beginning(q, p) ==
  q \in Seq(Byte) /\ Len(q) <= Len(p) /\ \A i \in 1..Len(q) : q[i] = p[i]

LEMMA PrefixByBytes ==
  ASSUME NEW S, NEW s \in Seq(S), NEW t \in Seq(S)
  PROVE  IsPrefix(s, t) <=> Len(s) <= Len(t) /\ \A i \in 1..Len(s) : s[i] = t[i]
BY DEF IsPrefix

LEMMA FrontIsBeginning ==
  ASSUME NEW p \in Seq(Byte), p # <<>>
  PROVE  Beginning(Front(p), p) /\ Len(Front(p)) < Len(p)
<1>1. PICK n \in Nat : n = Len(p) - 1
  BY EmptySeq, LenProperties
<1>2. n <= Len(p) /\ \A i \in 1..n : p[i] \in Byte
  BY <1>1
<1>3. /\ SubSeq(p, 1, n) \in Seq(Byte)
      /\ Len(SubSeq(p, 1, n)) = n
      /\ \A i \in 1..n : SubSeq(p, 1, n)[i] = p[i]
  BY <1>2
<1> QED
  BY <1>1, <1>2, <1>3 DEF Beginning, Front

-----------------------------------------------------------------------------
(* The beginning of a packet.                                              *)

Begins(p, first, op) ==
  /\ p \in Seq(Byte) /\ Len(p) >= 6
  /\ p[1] = first /\ p[2] = 0 /\ p[3] = 4 /\ p[4] = 0 /\ p[5] = op

LEMMA BeginsGrows ==
  ASSUME NEW p, NEW first, NEW op, Begins(p, first, op), NEW q \in Seq(Byte)
  PROVE  Begins(p \o q, first, op)
BY DEF Begins

LEMMA BeginsWith ==
  ASSUME NEW p, NEW first, NEW op, Begins(p, first, op)
  PROVE  /\ StartsWith(p, HEADER) <=> first = 4
         /\ StartsWith(p, HANDSHAKE_ACK_PREFIX) <=> first = 1
         /\ StartsWith(p, FEATURES_ACK_PREFIX) <=> first = 4 /\ op = 43 /\ p[6] = 0
         /\ StartsWith(p, BATTERY_PREFIX) <=> first = 4 /\ op = 4 /\ p[6] = 0
         /\ StartsWith(p, CONTROL_COMMAND_HEADER) <=> first = 4 /\ op = 9 /\ p[6] = 0
         /\ StartsWith(p, MAGIC_CLOUD_KEYS_HEADER)
              <=> first = 4 /\ op = 49 /\ p[6] = 0 /\ Len(p) >= 7 /\ p[7] = 2
         /\ StartsWith(p, CA_DATA_PREFIX)
              <=> /\ first = 4 /\ op = 75 /\ p[6] = 0
                  /\ Len(p) >= 8 /\ p[7] = 2 /\ p[8] = 0
BY DEF Begins, StartsWith, IsPrefix, HEADER, HANDSHAKE_ACK_PREFIX, FEATURES_ACK_PREFIX,
   BATTERY_PREFIX, CONTROL_COMMAND_HEADER, MAGIC_CLOUD_KEYS_HEADER, CA_DATA_PREFIX

LEMMA ParseDispatches ==
  ASSUME NEW p, NEW op, Begins(p, 4, op)
  PROVE  /\ op = 4 => Parse(p) = ParseBattery(p)
         /\ op = 6 => Parse(p) = ParseEarDetection(p)
         /\ op = 9 => Parse(p) = ParseControlCommand(p)
         /\ op = 23 => Parse(p) = ParseHeadTracking(p)
         /\ op = 29 => Parse(p) = ParseMetadata(p)
         /\ op = 49 => Parse(p) = IF p[6] = 0 /\ Len(p) >= 7 /\ p[7] = 2
                                    THEN ParseMagicCloudKeys(p)
                                    ELSE ParseProximityKeys(p)
         /\ op = 75 => Parse(p) = ParseConversationalAwareness(p)
         /\ op \in {15, 26, 48, 77} => Parse(p) = Unknown
<1>1. At(p, 4) = op /\ ~(Len(p) < 4) /\ ~(Len(p) < 6)
  BY DEF Begins, At
<1>2. op # 43 => Parse(p) = IF StartsWith(p, MAGIC_CLOUD_KEYS_HEADER)
                              THEN ParseMagicCloudKeys(p) ELSE DispatchOnOpcode(p)
  BY <1>1, BeginsWith DEF Parse
<1> QED
  BY <1>1, <1>2, BeginsWith DEF DispatchOnOpcode

(* Without its sixth byte nothing is known.                                *)
LEMMA ShortIsRefused ==
  ASSUME NEW p \in Seq(Byte), Len(p) < 6, Len(p) >= 1 => p[1] # 1
  PROVE  Parse(p) = ParseError
BY DEF Parse, StartsWith, IsPrefix, HEADER, HANDSHAKE_ACK_PREFIX, FEATURES_ACK_PREFIX,
   MAGIC_CLOUD_KEYS_HEADER

LEMMA BeginningOfPacket ==
  ASSUME NEW p, NEW first, NEW op, Begins(p, first, op), first # 1,
         NEW q, Beginning(q, p)
  PROVE  Parse(q) = ParseError \/ Begins(q, first, op)
<1>1. CASE Len(q) < 6
  BY <1>1, ShortIsRefused DEF Begins, Beginning
<1>2. CASE ~(Len(q) < 6)
  BY <1>2 DEF Begins, Beginning
<1> QED
  BY <1>1, <1>2

-----------------------------------------------------------------------------
(* What is true of every packet that is sent.                              *)

Sent(p, m) ==
  /\ m # Nothing
  /\ p \in Seq(Byte) /\ Len(p) >= 6 /\ p[3] = 4
  /\ Len(p) >= 70 /\ p[5] = 23 => IsHeadTrackingData(p)
  /\ m.t = "Request" => Parse(p) \in {ParseError, Unknown}
  /\ m.t # "Request" /\ ~OtherTwoKeys(p, m) => Understand(p) = Intended(m)
  /\ \A q : Beginning(q, p) /\ Len(q) < Len(p) => SaysNoMore(Parse(q), m)

LEMMA CutPacket ==
  ASSUME NEW p, NEW op, Begins(p, 4, op), NEW n \in Nat, Long(p, n),
         NEW q, Beginning(q, p), Len(q) < Len(p)
  PROVE  Parse(q) = ParseError \/ (Begins(q, 4, op) /\ Len(q) < n)
<1>1. Len(q) < n
  BY DEF Beginning, Long
<1> QED
  BY <1>1, BeginningOfPacket

LEMMA SentIfRead ==
  ASSUME NEW p, NEW first, NEW op, Begins(p, first, op), op # 23,
         NEW m, m.t \notin {"Nothing", "Request"},
         Understand(p) = Intended(m),
         \A q : Beginning(q, p) /\ Len(q) < Len(p) =>
                  Parse(q) \in {ParseError, Unknown, m}
  PROVE  Sent(p, m)
<1>1. m # Nothing
  BY DEF Nothing
<1>2. \A q : Beginning(q, p) /\ Len(q) < Len(p) => SaysNoMore(Parse(q), m)
  BY DEF SaysNoMore, ParseError, Unknown
<1> QED
  BY <1>1, <1>2 DEF Sent, Begins

-----------------------------------------------------------------------------
(* The packets of the AirPods that say all they have to say at once.       *)

LEMMA EarsSent ==
  ASSUME NEW a \in 0..2, NEW b \in 0..2
  PROVE  Sent(EAR_DETECTION_PREFIX \o <<a, b>>,
              [t |-> "EarDetection", primary |-> a = 0, secondary |-> b = 0])
<1> DEFINE p == EAR_DETECTION_PREFIX \o <<a, b>>
           m == [t |-> "EarDetection", primary |-> a = 0, secondary |-> b = 0]
<1>1. Begins(EAR_DETECTION_PREFIX, 4, 6) /\ Long(EAR_DETECTION_PREFIX, 6)
  BY DEF Begins, EAR_DETECTION_PREFIX, HEADER, Byte, Long
<1>2. a \in Byte /\ b \in Byte
  BY DEF Byte
<1>3. Begins(p, 4, 6)
  BY <1>1, <1>2, TwoBytes, BeginsGrows DEF Long
<1>4. Long(p, 8) /\ p[7] = a /\ p[8] = b
  BY <1>1, <1>2 DEF Long
<1> HIDE DEF p
<1>5. Parse(p) = m
  BY <1>3, <1>4, ParseDispatches DEF ParseEarDetection, Reading, At, Long
<1>6. ASSUME NEW q, Beginning(q, p), Len(q) < Len(p) PROVE Parse(q) = ParseError
  <2>1. CASE Begins(q, 4, 6)
    <3>1. Len(q) < 8
      BY <1>4, <1>6 DEF Beginning, Long
    <3> QED
      BY <2>1, <3>1, ParseDispatches DEF ParseEarDetection
  <2> QED
    BY <1>3, <1>6, <2>1, BeginningOfPacket
<1>7. Understand(p) = m /\ Intended(m) = m
  BY <1>5 DEF Understand, Intended, Unknown
<1>8. m.t \notin {"Nothing", "Request"}
  OBVIOUS
<1> HIDE DEF m
<1>9. Sent(p, m)
  BY <1>3, <1>6, <1>7, <1>8, SentIfRead
<1> QED
  BY <1>9 DEF p, m

LEMMA ConversationSent ==
  ASSUME NEW status \in Byte
  PROVE  Sent(CA_DATA_PREFIX \o <<1, status>>,
              [t |-> "ConversationalAwareness", status |-> status])
<1> DEFINE p == CA_DATA_PREFIX \o <<1, status>>
           m == [t |-> "ConversationalAwareness", status |-> status]
<1>1. /\ Begins(CA_DATA_PREFIX, 4, 75) /\ Long(CA_DATA_PREFIX, 8)
      /\ CA_DATA_PREFIX[6] = 0 /\ CA_DATA_PREFIX[7] = 2 /\ CA_DATA_PREFIX[8] = 0
  BY DEF Begins, CA_DATA_PREFIX, HEADER, Byte, Long
<1>2. 1 \in Byte
  BY DEF Byte
<1>3. Begins(p, 4, 75)
  BY <1>1, <1>2, TwoBytes, BeginsGrows DEF Long
<1>4. Long(p, 10) /\ p[6] = 0 /\ p[7] = 2 /\ p[8] = 0 /\ p[10] = status
  BY <1>1, <1>2 DEF Long
<1> HIDE DEF p
<1>5. Parse(p) = m
  <2>1. StartsWith(p, CA_DATA_PREFIX)
    BY <1>3, <1>4, BeginsWith DEF Long
  <2> QED
    BY <1>3, <1>4, <2>1, ParseDispatches
    DEF ParseConversationalAwareness, Reading, At, Long
<1>6. ASSUME NEW q, Beginning(q, p), Len(q) < Len(p)
      PROVE  Parse(q) \in {ParseError, Unknown}
  <2>1. CASE Begins(q, 4, 75) /\ Len(q) < 10
    <3>1. ~(Len(q) >= 10)
      BY <2>1 DEF Begins
    <3> QED
      BY <2>1, <3>1, ParseDispatches DEF ParseConversationalAwareness
  <2> QED
    BY <1>3, <1>4, <1>6, <2>1, CutPacket
<1>7. Understand(p) = m /\ Intended(m) = m
  BY <1>5 DEF Understand, Intended, Unknown
<1>8. m.t \notin {"Nothing", "Request"}
  OBVIOUS
<1> HIDE DEF m
<1>9. Sent(p, m)
  BY <1>3, <1>6, <1>7, <1>8, SentIfRead
<1> QED
  BY <1>9 DEF p, m

LEMMA AcksSent ==
  /\ Sent(HANDSHAKE_ACK_PREFIX \o <<1, 2>>, [t |-> "HandshakeAck"])
  /\ Sent(FEATURES_ACK_PREFIX \o <<1>>, [t |-> "FeaturesAck"])
<1>1. Sent(HANDSHAKE_ACK_PREFIX \o <<1, 2>>, [t |-> "HandshakeAck"])
  <2> DEFINE p == HANDSHAKE_ACK_PREFIX \o <<1, 2>>
             m == [t |-> "HandshakeAck"]
  <2>1. Begins(p, 1, 1)
    BY DEF Begins, HANDSHAKE_ACK_PREFIX, Byte
  <2> HIDE DEF p
  <2>2. Parse(p) = m
    BY <2>1, BeginsWith DEF Parse, Begins
  <2>3. ASSUME NEW q, Beginning(q, p), Len(q) < Len(p)
        PROVE  Parse(q) \in {ParseError, m}
    <3>1. CASE Len(q) < 4
      BY <3>1 DEF Parse, HANDSHAKE_ACK_PREFIX, FEATURES_ACK_PREFIX,
         MAGIC_CLOUD_KEYS_HEADER, HEADER, StartsWith, IsPrefix
    <3>2. CASE ~(Len(q) < 4)
      <4>1. StartsWith(q, HANDSHAKE_ACK_PREFIX)
        BY <2>1, <2>3, <3>2 DEF Begins, Beginning, StartsWith, IsPrefix, HANDSHAKE_ACK_PREFIX
      <4>2. /\ ~StartsWith(q, FEATURES_ACK_PREFIX)
            /\ ~StartsWith(q, MAGIC_CLOUD_KEYS_HEADER)
            /\ ~StartsWith(q, HEADER)
        BY <2>1, <2>3, <3>2 DEF Begins, Beginning, StartsWith, IsPrefix,
           FEATURES_ACK_PREFIX, MAGIC_CLOUD_KEYS_HEADER, HEADER
      <4> QED
        BY <3>2, <4>1, <4>2 DEF Parse
    <3> QED
      BY <3>1, <3>2
  <2>4. Understand(p) = m /\ Intended(m) = m
    BY <2>2 DEF Understand, Intended, Unknown
  <2>5. m.t \notin {"Nothing", "Request"}
    OBVIOUS
  <2> HIDE DEF m
  <2>6. Sent(p, m)
    BY <2>1, <2>3, <2>4, <2>5, SentIfRead
  <2> QED
    BY <2>6 DEF p, m
<1>2. Sent(FEATURES_ACK_PREFIX \o <<1>>, [t |-> "FeaturesAck"])
  <2> DEFINE p == FEATURES_ACK_PREFIX \o <<1>>
             m == [t |-> "FeaturesAck"]
  <2>1. Begins(p, 4, 43) /\ p[6] = 0
    BY DEF Begins, FEATURES_ACK_PREFIX, HEADER, Byte
  <2> HIDE DEF p
  <2>2. Parse(p) = m
    BY <2>1, BeginsWith DEF Parse, Begins
  <2>3. ASSUME NEW q, Beginning(q, p), Len(q) < Len(p)
        PROVE  Parse(q) \in {ParseError, m}
    <3>1. CASE Begins(q, 4, 43)
      <4>1. q[6] = 0
        BY <2>1, <2>3, <3>1 DEF Begins, Beginning
      <4> QED
        BY <3>1, <4>1, BeginsWith DEF Parse, Begins
    <3> QED
      BY <2>1, <2>3, <3>1, BeginningOfPacket
  <2>4. Understand(p) = m /\ Intended(m) = m
    BY <2>2 DEF Understand, Intended, Unknown
  <2>5. m.t \notin {"Nothing", "Request"}
    OBVIOUS
  <2> HIDE DEF m
  <2>6. Sent(p, m)
    BY <2>1, <2>3, <2>4, <2>5, SentIfRead
  <2> QED
    BY <2>6 DEF p, m
<1> QED
  BY <1>1, <1>2

(* The byte in which the kind of a sensor packet is told does not matter.  *)
LEMMA SensorsSent ==
  ASSUME NEW tag \in {68, 69}
  PROVE  Sent(HEADER \o <<23, 0, 0, 0, 16, 0, tag, 0>> \o Zeros(59),
              [t |-> "HeadTracking"])
<1> DEFINE b == HEADER \o <<23, 0, 0, 0, 16, 0, tag, 0>>
           p == b \o Zeros(59)
           m == [t |-> "HeadTracking"]
<1>1. /\ Begins(b, 4, 23) /\ Long(b, 12)
      /\ b[6] = 0 /\ b[7] = 0 /\ b[8] = 0 /\ b[9] = 16 /\ b[10] = 0
      /\ b[11] = tag /\ b[12] = 0
  BY DEF Begins, HEADER, Byte, Long
<1> HIDE DEF b
<1>2. Long(Zeros(59), 59)
  BY ZerosType
<1>3. Begins(p, 4, 23)
  BY <1>1, <1>2, BeginsGrows DEF Long
<1>4. /\ Long(p, 71)
      /\ p[6] = 0 /\ p[7] = 0 /\ p[8] = 0 /\ p[9] = 16 /\ p[10] = 0
      /\ p[11] = tag /\ p[12] = 0
  BY <1>1, <1>2 DEF Long
<1> HIDE DEF p
<1>5. Parse(p) = m
  BY <1>3, <1>4, ParseDispatches DEF ParseHeadTracking, Long
<1>6. IsHeadTrackingData(p)
  <2>1. StartsWith(p, HEADER \o <<23, 0, 0, 0, 16, 0>>)
    <3> DEFINE h == HEADER \o <<23, 0, 0, 0, 16, 0>>
    <3>1. /\ Begins(h, 4, 23) /\ Long(h, 10)
          /\ h[6] = 0 /\ h[7] = 0 /\ h[8] = 0 /\ h[9] = 16 /\ h[10] = 0
      BY DEF Begins, HEADER, Byte, Long
    <3> HIDE DEF h
    <3>2. \A i \in 1..10 : h[i] = p[i]
      <4>1. \A i \in 1..10 : i \in {1, 2, 3, 4, 5, 6, 7, 8, 9, 10}
        OBVIOUS
      <4> QED
        BY <1>3, <1>4, <3>1, <4>1 DEF Begins
    <3>3. Len(h) <= Len(p) /\ \A i \in 1..Len(h) : i \in 1..10
      BY <1>4, <3>1 DEF Long
    <3>4. IsPrefix(h, p)
      BY <1>4, <3>1, <3>2, <3>3, PrefixByBytes DEF Long
    <3> QED
      BY <3>4 DEF StartsWith, h
  <2> QED
    BY <1>4, <2>1 DEF IsHeadTrackingData, At, Long
<1>7. ASSUME NEW q, Beginning(q, p), Len(q) < Len(p)
      PROVE  Parse(q) \in {ParseError, m}
  <2>1. CASE Begins(q, 4, 23)
    BY <2>1, ParseDispatches DEF ParseHeadTracking
  <2> QED
    BY <1>3, <1>7, <2>1, BeginningOfPacket
<1>8. Understand(p) = m /\ Intended(m) = m
  BY <1>5 DEF Understand, Intended, Unknown
<1>9. m # Nothing /\ m.t # "Request"
  BY DEF Nothing
<1> HIDE DEF m
<1>10. \A q : Beginning(q, p) /\ Len(q) < Len(p) => SaysNoMore(Parse(q), m)
  BY <1>7 DEF SaysNoMore, ParseError
<1>11. Sent(p, m)
  BY <1>3, <1>6, <1>8, <1>9, <1>10 DEF Sent, Begins
<1> QED
  BY <1>11 DEF p, m, b

-----------------------------------------------------------------------------
(* Control commands, of the AirPods and of the library.                    *)

LEMMA CommandBytes ==
  ASSUME NEW id \in Byte, NEW v \in Byte, NEW p, p = Create(id, <<v, 0, 0, 0>>)
  PROVE  /\ Begins(p, 4, 9) /\ Long(p, 11) /\ p[6] = 0 /\ p[7] = id
         /\ p[8] = v /\ p[9] = 0 /\ p[10] = 0 /\ p[11] = 0
<1> DEFINE h == CONTROL_COMMAND_HEADER
           b == h \o <<id>>
<1>1. Begins(h, 4, 9) /\ Long(h, 6) /\ h[6] = 0
  BY DEF Begins, CONTROL_COMMAND_HEADER, HEADER, Byte, Long
<1>2. p = b \o <<v, 0, 0, 0>>
  BY DEF Create
<1> HIDE DEF h
<1>z. 0 \in Byte
  BY DEF Byte
<1>3. Begins(b, 4, 9)
  BY <1>1, OneByte, BeginsGrows DEF Long
<1>4. Long(b, 7) /\ b[6] = 0 /\ b[7] = id
  BY <1>1 DEF Long
<1> HIDE DEF b
<1> DEFINE c == <<v, 0, 0, 0>>
<1>5. Long(c, 4) /\ c[1] = v /\ c[2] = 0 /\ c[3] = 0 /\ c[4] = 0
  BY <1>z, FourBytes
<1> HIDE DEF c
<1>6. Begins(b \o c, 4, 9)
  BY <1>3, <1>5, BeginsGrows DEF Long
<1>7. /\ Long(b \o c, 11) /\ (b \o c)[6] = 0 /\ (b \o c)[7] = id
      /\ (b \o c)[8] = v /\ (b \o c)[9] = 0 /\ (b \o c)[10] = 0 /\ (b \o c)[11] = 0
  BY <1>4, <1>5 DEF Long
<1> QED
  BY <1>2, <1>6, <1>7 DEF c

LEMMA FourOfPacket ==
  ASSUME NEW p \in Seq(Byte), Len(p) >= 11
  PROVE  Slice(p, 7, 11) = <<p[8], p[9], p[10], p[11]>>
<1> DEFINE t == SubSeq(p, 8, 11)
           u == <<p[8], p[9], p[10], p[11]>>
<1>1. \A i \in 8..11 : p[i] \in Byte
  OBVIOUS
<1>2. /\ t \in Seq(Byte)
      /\ Len(t) = IF 8 <= 11 THEN 11 - 8 + 1 ELSE 0
      /\ \A i \in 1..11 - 8 + 1 : t[i] = p[8 + i - 1]
  BY <1>1, SubSeqProperties
<1>3. p[8] \in Byte /\ p[9] \in Byte /\ p[10] \in Byte /\ p[11] \in Byte
  BY <1>1
<1>4. Long(u, 4) /\ u[1] = p[8] /\ u[2] = p[9] /\ u[3] = p[10] /\ u[4] = p[11]
  BY <1>3, FourBytes
<1> HIDE DEF t, u
<1>5. 1 \in 1..4 /\ 2 \in 1..4 /\ 3 \in 1..4 /\ 4 \in 1..4 /\ 11 - 8 + 1 = 4
  OBVIOUS
<1>6. t[1] = p[8] /\ t[2] = p[9] /\ t[3] = p[10] /\ t[4] = p[11]
  BY <1>2, <1>5
<1>7. Len(t) = Len(u) /\ \A i \in 1..Len(t) : i \in {1, 2, 3, 4}
  BY <1>2, <1>4, <1>5 DEF Long
<1>8. t = u
  BY <1>2, <1>4, <1>6, <1>7, SeqEqual DEF Long
<1> QED
  BY <1>8 DEF Slice, t, u

LEMMA CommandRead ==
  ASSUME NEW id \in Byte, NEW v \in Byte, NEW p, p = Create(id, <<v, 0, 0, 0>>)
  PROVE  /\ id = ListeningMode /\ ModeFromByte(v) # None
              => Parse(p) = [t |-> "NoiseControl",
                             mode |-> CHOOSE m \in ModeFromByte(v) : TRUE]
         /\ id \in ControlCommandIds \ {ListeningMode}
              => Parse(p) = [t |-> "ControlCommand", id |-> id, data |-> <<v, 0, 0, 0>>]
<1>1. /\ Begins(p, 4, 9) /\ Long(p, 11) /\ p[6] = 0 /\ p[7] = id
      /\ p[8] = v /\ p[9] = 0 /\ p[10] = 0 /\ p[11] = 0
  BY CommandBytes
<1>2. Parse(p) = ControlCommandOf(p)
  BY <1>1, ParseDispatches DEF ParseControlCommand, Reading, Long
<1>3. At(p, 6) = id /\ At(p, 7) = v
  BY <1>1 DEF At
<1>4. ListeningMode \in ControlCommandIds
  BY DEF ListeningMode, ControlCommandIds
<1>5. ParseData(p) = {<<v, 0, 0, 0>>}
  <2>1. Slice(p, 7, 11) = <<v, 0, 0, 0>>
    BY <1>1, FourOfPacket DEF Long
  <2>2. IsCommand(p, 11)
    BY <1>1, BeginsWith DEF IsCommand, Long
  <2> QED
    BY <2>1, <2>2 DEF ParseData, Some
<1>6. id \in ControlCommandIds \ {ListeningMode} =>
        ControlCommandOf(p) =
          [t |-> "ControlCommand", id |-> id, data |-> <<v, 0, 0, 0>>]
  <2>1. (CHOOSE d \in {<<v, 0, 0, 0>>} : TRUE) = <<v, 0, 0, 0>>
    OBVIOUS
  <2>2. {<<v, 0, 0, 0>>} # {}
    OBVIOUS
  <2> DEFINE w == <<v, 0, 0, 0>>
  <2> HIDE DEF w
  <2> QED
    BY <1>3, <1>5, <2>1, <2>2 DEF ControlCommandOf, None, w
<1>7. id = ListeningMode /\ ModeFromByte(v) # None =>
        ControlCommandOf(p) = [t |-> "NoiseControl",
                               mode |-> CHOOSE m \in ModeFromByte(v) : TRUE]
  BY <1>3, <1>4 DEF ControlCommandOf
<1> QED
  BY <1>2, <1>6, <1>7

LEMMA CommandSent ==
  ASSUME NEW id \in Byte, NEW v \in Byte, NEW p, p = Create(id, <<v, 0, 0, 0>>),
         NEW m, m.t \notin {"Nothing", "Request"}, Understand(p) = Intended(m)
  PROVE  Sent(p, m)
<1>1. Begins(p, 4, 9) /\ Long(p, 11)
  BY CommandBytes
<1>2. ASSUME NEW q, Beginning(q, p), Len(q) < Len(p) PROVE Parse(q) = ParseError
  <2>1. CASE Begins(q, 4, 9) /\ Len(q) < 11
    BY <2>1, ParseDispatches DEF ParseControlCommand
  <2> QED
    BY <1>1, <1>2, <2>1, CutPacket
<1> QED
  BY <1>1, <1>2, SentIfRead

LEMMA ModesSent ==
  ASSUME NEW mode \in NoiseControlModes
  PROVE  Sent(BuildNoiseControl(mode), [t |-> "NoiseControl", mode |-> mode])
<1> DEFINE p == BuildNoiseControl(mode)
           m == [t |-> "NoiseControl", mode |-> mode]
           v == ModeByte[mode]
<1>1. p = Create(ListeningMode, <<v, 0, 0, 0>>)
  BY DEF BuildNoiseControl
<1>2. ListeningMode \in Byte /\ v \in Byte
  BY DEF ListeningMode, ModeByte, NoiseControlModes, Byte
<1>3. ModeFromByte(v) = {mode}
  BY DEF ModeFromByte, ModeByte, NoiseControlModes
<1> HIDE DEF p, v
<1>4. Parse(p) = m
  BY <1>1, <1>2, <1>3, CommandRead DEF None
<1>5. Understand(p) = m /\ Intended(m) = m
  BY <1>4 DEF Understand, Intended, Unknown
<1>6. m.t \notin {"Nothing", "Request"}
  OBVIOUS
<1> HIDE DEF m
<1>7. Sent(p, m)
  BY <1>1, <1>2, <1>5, <1>6, CommandSent
<1> QED
  BY <1>7 DEF p, m

LEMMA SettingsSent ==
  ASSUME NEW id \in {27, 40}, NEW on \in BOOLEAN
  PROVE  Sent(IF on THEN Enabled(id) ELSE Disabled(id),
              [t |-> "ControlCommand", id |-> id,
               data |-> <<IF on THEN 1 ELSE 2, 0, 0, 0>>])
<1> DEFINE v == IF on THEN 1 ELSE 2
           p == IF on THEN Enabled(id) ELSE Disabled(id)
           m == [t |-> "ControlCommand", id |-> id, data |-> <<v, 0, 0, 0>>]
<1>1. p = Create(id, <<v, 0, 0, 0>>)
  BY DEF Enabled, Disabled
<1>2. id \in Byte /\ v \in Byte /\ id \in ControlCommandIds \ {ListeningMode}
  BY DEF Byte, ControlCommandIds, ListeningMode
<1> HIDE DEF p, v
<1>3. Parse(p) = m
  BY <1>1, <1>2, CommandRead
<1>4. Understand(p) = m /\ Intended(m) = m
  BY <1>3 DEF Understand, Intended, Unknown, ListeningModeConfigs, AutoAncStrength
<1>5. m.t \notin {"Nothing", "Request"}
  OBVIOUS
<1> HIDE DEF m
<1>6. Sent(p, m)
  BY <1>1, <1>2, <1>4, <1>5, CommandSent
<1> QED
  BY <1>6 DEF p, m, v

LEMMA NoiseLevelsSent ==
  ASSUME NEW level \in Byte
  PROVE  Sent(BuildAdaptiveNoiseLevel(level), [t |-> "NoiseLevel", level |-> level])
<1> DEFINE v == IF level > 100 THEN 100 ELSE level
           p == BuildAdaptiveNoiseLevel(level)
           m == [t |-> "NoiseLevel", level |-> level]
<1>1. p = Create(AutoAncStrength, <<v, 0, 0, 0>>)
  BY DEF BuildAdaptiveNoiseLevel
<1>2. /\ AutoAncStrength \in Byte /\ v \in Byte
      /\ AutoAncStrength \in ControlCommandIds \ {ListeningMode}
  BY DEF Byte, ControlCommandIds, ListeningMode, AutoAncStrength
<1>3. Intended(m) = [t |-> "NoiseLevel", level |-> v]
  BY DEF Intended
<1> HIDE DEF p, v
<1>4. Parse(p) = [t |-> "ControlCommand", id |-> AutoAncStrength, data |-> <<v, 0, 0, 0>>]
  BY <1>1, <1>2, CommandRead
<1>5. Understand(p) = [t |-> "NoiseLevel", level |-> v]
  BY <1>4 DEF Understand, Unknown, ListeningModeConfigs, AutoAncStrength
<1>6. m.t \notin {"Nothing", "Request"}
  OBVIOUS
<1> HIDE DEF m
<1>7. Sent(p, m)
  BY <1>1, <1>2, <1>3, <1>5, <1>6, CommandSent
<1> QED
  BY <1>7 DEF p, m

(* Each mode has a bit of its own, and it is set if the mode is in.        *)
LEMMA LongPressesSent ==
  ASSUME NEW modes, ToSet(modes) \subseteq NoiseControlModes
  PROVE  Sent(BuildListeningModeConfig(modes),
              [t |-> "LongPress", modes |-> ToSet(modes)])
<1> DEFINE bit(m) == IF m \in ToSet(modes) THEN ModeBit(m) ELSE 0
           v == bit("Off") + bit("NoiseCancellation") + bit("Transparency")
                  + bit("Adaptive")
           p == BuildListeningModeConfig(modes)
           m == [t |-> "LongPress", modes |-> ToSet(modes)]
<1>1. p = Create(ListeningModeConfigs, <<v, 0, 0, 0>>)
  BY DEF BuildListeningModeConfig
<1>2. /\ v \in Byte
      /\ \A mode \in NoiseControlModes :
           (v \div ModeBit(mode)) % 2 = 1 <=> mode \in ToSet(modes)
  BY DEF ModeBit, NoiseControlModes, Byte
<1>3. /\ ListeningModeConfigs \in Byte
      /\ ListeningModeConfigs \in ControlCommandIds \ {ListeningMode}
  BY DEF Byte, ControlCommandIds, ListeningMode, ListeningModeConfigs
<1> HIDE DEF p, v
<1>4. Parse(p) = [t |-> "ControlCommand", id |-> ListeningModeConfigs,
                  data |-> <<v, 0, 0, 0>>]
  BY <1>1, <1>2, <1>3, CommandRead
<1>5. ParseListeningModeConfig(v) = ToSet(modes)
  BY <1>2 DEF ParseListeningModeConfig
<1>6. Understand(p) = m /\ Intended(m) = m
  <2>1. Understand(p) = [t |-> "LongPress", modes |-> ParseListeningModeConfig(v)]
    BY <1>4 DEF Understand, Unknown, ListeningModeConfigs, AutoAncStrength
  <2> QED
    BY <1>5, <2>1 DEF Intended
<1>7. m.t \notin {"Nothing", "Request"}
  OBVIOUS
<1> HIDE DEF m
<1>8. Sent(p, m)
  BY <1>1, <1>2, <1>3, <1>6, <1>7, CommandSent
<1> QED
  BY <1>8 DEF p, m

-----------------------------------------------------------------------------
(* Texts.                                                                  *)

Ascii == 1..127

LEMMA TextsAreBytes ==
  ASSUME NEW t \in Seq(Ascii)
  PROVE  t \in Seq(Byte) /\ \A i \in 1..Len(t) : t[i] # 0
<1>1. Ascii \subseteq Byte /\ \A c \in Ascii : c # 0
  BY DEF Byte, Ascii
<1>2. t \in Seq(Byte)
  BY <1>1, SeqMonotonic
<1>3. \A i \in 1..Len(t) : t[i] \in Ascii
  BY ElementOfSeq
<1> QED
  BY <1>1, <1>2, <1>3

LEMMA NamesSent ==
  ASSUME NEW name \in Seq(Ascii), Len(name) < 256
  PROVE  Sent(BuildRename(name), [t |-> "Name", name |-> name])
<1>k. PICK k \in Nat : k = Len(name) /\ k < 256
  OBVIOUS
<1> DEFINE c == <<26, 0, 1, k, 0>>
           b == HEADER \o c
           p == BuildRename(name)
           m == [t |-> "Name", name |-> name]
<1>r. Len(name) % 256 = k
  <2>1. k % 256 = k
    BY <1>k
  <2> QED
    BY <1>k, <2>1
<1>b. k \in Byte
  BY <1>k, SmallNumbersAreBytes
<1>1. k \in Nat /\ k \in Byte /\ name \in Seq(Byte)
  BY <1>b, TextsAreBytes
<1>2. 26 \in Byte /\ 0 \in Byte /\ 1 \in Byte
  BY DEF Byte
<1>3. p = b \o name
  BY <1>r DEF BuildRename
<1>4. Long(c, 5) /\ c[1] = 26 /\ c[2] = 0 /\ c[4] = k
  BY <1>1, <1>2, FiveBytes
<1>5. Long(HEADER, 4) /\ HEADER[1] = 4 /\ HEADER[2] = 0 /\ HEADER[3] = 4 /\ HEADER[4] = 0
  BY DEF HEADER, Byte, Long
<1> HIDE DEF c
<1>6. Long(b, 9) /\ b[8] = k
  BY <1>4, <1>5 DEF Long
<1>7. Begins(b, 4, 26)
  BY <1>4, <1>5, <1>6 DEF Long, Begins
<1> HIDE DEF b, p
<1>8. Begins(p, 4, 26)
  BY <1>1, <1>3, <1>7, BeginsGrows
<1>9. /\ p \in Seq(Byte) /\ 9 + k <= Len(p) /\ p[8] = k
      /\ \A i \in 1..k : p[9 + i] = name[i]
  BY <1>1, <1>k, <1>3, <1>6 DEF Long
<1>10. Parse(p) = Unknown
  BY <1>8, ParseDispatches
<1>11. Slice(p, 9, 9 + At(p, 7)) = name
  <2>1. SubSeq(p, 9 + 1, 9 + k) = name
    <3>1. 9 \in Nat
      OBVIOUS
    <3> QED
      BY <1>1, <1>k, <1>9, <3>1, PartOf
  <2>2. At(p, 7) = k
    BY <1>9 DEF At
  <2> QED
    BY <2>1, <2>2 DEF Slice
<1>12. At(p, 4) = 26
  BY <1>8 DEF At, Begins
<1>13. Understand(p) = m /\ Intended(m) = m
  <2> DEFINE sl == Slice(p, 9, 9 + At(p, 7))
  <2>1. Understand(p) = [t |-> "Name", name |-> sl]
    BY <1>10, <1>12 DEF Understand, Unknown
  <2> QED
    BY <1>11, <2>1 DEF Intended
<1>14. ASSUME NEW q, Beginning(q, p), Len(q) < Len(p)
       PROVE  Parse(q) \in {ParseError, Unknown}
  BY <1>8, <1>14, BeginningOfPacket, ParseDispatches
<1>15. m.t \notin {"Nothing", "Request"}
  OBVIOUS
<1> HIDE DEF m
<1>16. Sent(p, m)
  BY <1>8, <1>13, <1>14, <1>15, SentIfRead
<1> QED
  BY <1>16 DEF p, m

(* Text t stands at position i of data, and a NUL after it.                *)
Holds(data, i, t) ==
  /\ i + Len(t) <= Len(data) /\ data[i + Len(t)] = 0
  /\ \A j \in i..i + Len(t) - 1 : data[j] = t[j - i + 1]

LEMMA LeastIs ==
  ASSUME NEW S, S \subseteq Nat, NEW k \in S, \A j \in S : k <= j PROVE Min(S) = k
<1>1. Min(S) \in S /\ Min(S) <= k
  BY MinOfNaturals
<1>2. Min(S) \in Nat /\ k \in Nat /\ k <= Min(S)
  BY <1>1
<1> QED
  BY <1>1, <1>2

(* From the beginning of data the text is read, or its beginning.          *)
LEMMA TextRead ==
  ASSUME NEW data \in Seq(Byte), NEW i \in Nat \ {0}, NEW t \in Seq(Ascii),
         Holds(data, i, t), NEW d, Beginning(d, data)
  PROVE  /\ i + Len(t) <= Len(d) => /\ TextEnd(d, i) = i + Len(t)
                                    /\ SubSeq(d, i, TextEnd(d, i) - 1) = t
         /\ i + Len(t) > Len(d) => /\ TextEnd(d, i) = Len(d) + 1
                                   /\ IsPrefix(SubSeq(d, i, Len(d)), t)
<1> DEFINE k == Len(t)
           n == Len(d)
           nuls == {j \in i..n : d[j] = 0}
<1>1. /\ k \in Nat /\ t \in Seq(Byte) /\ \A j \in 1..k : t[j] # 0
  BY TextsAreBytes
<1>2. d \in Seq(Byte) /\ n \in Nat /\ n <= Len(data) /\ \A j \in 1..n : d[j] = data[j]
  BY DEF Beginning
<1>3. TextEnd(d, i) = IF nuls = {} THEN n + 1 ELSE Min(nuls)
  BY DEF TextEnd
<1>4. /\ i + k <= Len(data) /\ data[i + k] = 0
      /\ \A j \in i..i + k - 1 : data[j] = t[j - i + 1]
  BY DEF Holds
<1> HIDE DEF k, n
<1>5. \A j \in i..n : j < i + k => d[j] = t[j - i + 1] /\ d[j] # 0
  <2> TAKE j \in i..n
  <2>1. j < i + k => j - i + 1 \in 1..k /\ j \in i..i + k - 1 /\ j \in 1..n
    BY <1>1, <1>2
  <2> QED
    BY <1>1, <1>2, <1>4, <2>1
<1>6. \A j \in i..n : j < i + k => d[j] # 0
  BY <1>5
<1>7. CASE i + k <= n
  <2>1. d[i + k] = 0
    BY <1>1, <1>2, <1>4, <1>7
  <2>2. nuls \subseteq Nat /\ i + k \in nuls /\ \A j \in nuls : i + k <= j
    BY <1>1, <1>2, <1>6, <1>7, <2>1
  <2> HIDE DEF nuls
  <2>3. TextEnd(d, i) = i + k
    BY <1>3, <2>2, LeastIs
  <2>4. SubSeq(d, (i - 1) + 1, (i - 1) + k) = t
    <3>1. i - 1 \in Nat /\ (i - 1) + k <= n
      BY <1>1, <1>2, <1>7
    <3>2. \A j \in 1..k : d[(i - 1) + j] = t[j]
      <4>1. \A j \in 1..k : /\ (i - 1) + j \in i..n /\ (i - 1) + j < i + k
                            /\ ((i - 1) + j) - i + 1 = j
        BY <1>1, <1>2, <1>7
      <4> QED
        BY <1>5, <4>1
    <3> QED
      BY <1>1, <1>2, <3>1, <3>2, PartOf DEF k, n
  <2>5. (i - 1) + 1 = i /\ (i - 1) + k = i + k - 1
    BY <1>1
  <2>6. ~(i + k > n)
    BY <1>1, <1>2, <1>7
  <2> QED
    BY <2>3, <2>4, <2>5, <2>6 DEF k, n
<1>8. CASE i + k > n
  <2>1. nuls = {}
    BY <1>1, <1>2, <1>6, <1>8
  <2> DEFINE u == SubSeq(d, i, n)
  <2>2. \A j \in i..n : d[j] \in Byte
    BY <1>2 DEF n
  <2>3. /\ u \in Seq(Byte)
        /\ Len(u) = IF i <= n THEN n - i + 1 ELSE 0
        /\ \A j \in 1..n - i + 1 : u[j] = d[i + j - 1]
    BY <1>2, <2>2, SubSeqProperties
  <2> HIDE DEF u, nuls
  <2>4. Len(u) <= k /\ \A j \in 1..Len(u) : u[j] = t[j]
    <3>1. Len(u) <= k
      BY <1>1, <1>2, <1>8, <2>3
    <3>2. ASSUME NEW j \in 1..Len(u) PROVE u[j] = t[j]
      <4>1. /\ j \in 1..n - i + 1 /\ i + j - 1 \in i..n /\ i + j - 1 < i + k
            /\ (i + j - 1) - i + 1 = j
        BY <1>1, <1>2, <2>3, <3>1
      <4> QED
        BY <1>5, <2>3, <4>1
    <3> QED
      BY <3>1, <3>2
  <2>5. IsPrefix(u, t)
    BY <1>1, <2>3, <2>4, PrefixByBytes DEF k
  <2>6. ~(i + k <= n)
    BY <1>1, <1>2, <1>8
  <2> QED
    BY <1>3, <2>1, <2>5, <2>6 DEF u, k, n
<1> QED
  BY <1>1, <1>2, <1>7, <1>8

(* Behind the end there is nothing.                                        *)
LEMMA NoText ==
  ASSUME NEW d \in Seq(Byte), NEW i \in Nat \ {0}, i > Len(d), NEW t \in Seq(Byte)
  PROVE  TextEnd(d, i) = Len(d) + 1 /\ IsPrefix(SubSeq(d, i, Len(d)), t)
<1>1. {j \in i..Len(d) : d[j] = 0} = {}
  OBVIOUS
<1>2. SubSeq(d, i, Len(d)) = <<>>
  BY SubSeqEmpty
<1>3. IsPrefix(<<>>, t)
  <2> DEFINE none == <<>>
  <2>1. none \in Seq(Byte) /\ Len(none) <= 0
    BY EmptySeq
  <2> HIDE DEF none
  <2>2. Len(none) <= Len(t) /\ \A j \in 1..Len(none) : none[j] = t[j]
    BY <2>1
  <2>3. IsPrefix(none, t)
    BY <2>1, <2>2, PrefixByBytes
  <2> QED
    BY <2>3 DEF none
<1> QED
  BY <1>1, <1>2, <1>3 DEF TextEnd

(* One text after the other: f is where this one begins, or behind the end *)
(* of d if d ends before.                                                  *)
LEMMA TextStep ==
  ASSUME NEW data \in Seq(Byte), NEW i \in Nat \ {0}, NEW t \in Seq(Ascii),
         Holds(data, i, t), NEW d, Beginning(d, data),
         NEW f \in Nat \ {0}, f = i \/ f = Len(d) + 2,
         NEW e, e = TextEnd(d, f)
  PROVE  /\ e + 1 \in Nat \ {0}
         /\ e + 1 = i + Len(t) + 1 \/ e + 1 = Len(d) + 2
         /\ IsPrefix(SubSeq(d, f, e - 1), t)
         /\ d = data /\ f = i => SubSeq(d, f, e - 1) = t /\ e + 1 = i + Len(t) + 1
<1>1. PICK n \in Nat : n = Len(d)
  BY DEF Beginning
<1>2. PICK k \in Nat : k = Len(t)
  OBVIOUS
<1>3. d \in Seq(Byte) /\ t \in Seq(Byte)
  BY TextsAreBytes DEF Beginning
<1>4. IsPrefix(t, t)
  BY <1>3, PrefixByBytes
<1>5. (n + 1) - 1 = n
  OBVIOUS
<1>6. CASE f = i /\ i + k <= n
  <2>1. e = i + k /\ SubSeq(d, f, e - 1) = t
    BY <1>1, <1>2, <1>6, TextRead
  <2>2. e + 1 \in Nat \ {0} /\ e + 1 = i + k + 1
    BY <2>1
  <2>3. IsPrefix(SubSeq(d, f, e - 1), t)
    BY <1>4, <2>1
  <2> QED
    BY <1>2, <2>1, <2>2, <2>3
<1>7. CASE f = i /\ i + k > n
  <2>1. e = n + 1 /\ IsPrefix(SubSeq(d, f, n), t)
    BY <1>1, <1>2, <1>7, TextRead
  <2>2. d # data
    BY <1>1, <1>2, <1>7 DEF Holds
  <2>3. IsPrefix(SubSeq(d, f, e - 1), t)
    BY <1>5, <2>1
  <2>4. e + 1 \in Nat \ {0} /\ e + 1 = n + 2
    BY <2>1
  <2> QED
    BY <1>1, <2>2, <2>3, <2>4
<1>8. CASE f # i
  <2>1. f > n
    BY <1>1, <1>8
  <2>2. e = n + 1 /\ IsPrefix(SubSeq(d, f, n), t)
    BY <1>1, <1>3, <2>1, NoText
  <2>3. IsPrefix(SubSeq(d, f, e - 1), t)
    BY <1>5, <2>2
  <2>4. e + 1 \in Nat \ {0} /\ e + 1 = n + 2
    BY <2>2
  <2> QED
    BY <1>1, <1>8, <2>3, <2>4
<1>9. i + k <= n \/ i + k > n
  OBVIOUS
<1> QED
  BY <1>6, <1>7, <1>8, <1>9

(* Three texts in a row are read, of a beginning their beginnings.         *)
LEMMA TextsRead ==
  ASSUME NEW data \in Seq(Byte), NEW s \in Seq(Ascii), NEW t \in Seq(Ascii),
         NEW u \in Seq(Ascii), NEW j \in Nat \ {0}, NEW k \in Nat \ {0},
         Holds(data, 1, s), j = 1 + Len(s) + 1,
         Holds(data, j, t), k = j + Len(t) + 1,
         Holds(data, k, u),
         NEW d, Beginning(d, data)
  PROVE  /\ IsPrefix(TextsIn(d)[1], s) /\ IsPrefix(TextsIn(d)[2], t)
         /\ IsPrefix(TextsIn(d)[3], u)
         /\ d = data => TextsIn(d) = <<s, t, u>>
<1> DEFINE first == TextEnd(d, 1)
           f == first + 1
           second == TextEnd(d, f)
           g == second + 1
           third == TextEnd(d, g)
           one == SubSeq(d, 1, first - 1)
           two == SubSeq(d, f, second - 1)
           three == SubSeq(d, g, third - 1)
<1>1. TextsIn(d) = <<one, two, three>>
  BY DEF TextsIn
<1>2. /\ f \in Nat \ {0} /\ (f = j \/ f = Len(d) + 2) /\ IsPrefix(one, s)
      /\ d = data => one = s /\ f = j
  <2> HIDE DEF first
  <2>1. first = TextEnd(d, 1) /\ 1 \in Nat \ {0}
    BY DEF first
  <2> QED
    BY <2>1, TextStep
<1> HIDE DEF f, first, one
<1>3. /\ g \in Nat \ {0} /\ (g = k \/ g = Len(d) + 2) /\ IsPrefix(two, t)
      /\ d = data => two = t /\ g = k
  <2> HIDE DEF second
  <2>1. second = TextEnd(d, f)
    BY DEF second
  <2> QED
    BY <1>2, <2>1, TextStep
<1> HIDE DEF g, second, two
<1>4. IsPrefix(three, u) /\ (d = data => three = u)
  <2> HIDE DEF third
  <2>1. third = TextEnd(d, g)
    BY DEF third
  <2> QED
    BY <1>3, <2>1, TextStep
<1> HIDE DEF three
<1> QED
  BY <1>1, <1>2, <1>3, <1>4

LEMMA RestAt ==
  ASSUME NEW p \in Seq(Byte), NEW m \in Nat, m <= Len(p)
  PROVE  /\ SubSeq(p, m + 1, Len(p)) \in Seq(Byte)
         /\ Len(SubSeq(p, m + 1, Len(p))) = Len(p) - m
         /\ \A i \in 1..Len(p) - m : SubSeq(p, m + 1, Len(p))[i] = p[m + i]
<1> DEFINE n == Len(p)
           u == SubSeq(p, m + 1, n)
<1>1. n \in Nat /\ m <= n /\ \A i \in m + 1..n : p[i] \in Byte
  OBVIOUS
<1>2. /\ u \in Seq(Byte)
      /\ Len(u) = IF m + 1 <= n THEN n - (m + 1) + 1 ELSE 0
      /\ \A i \in 1..n - (m + 1) + 1 : u[i] = p[(m + 1) + i - 1]
  BY <1>1, SubSeqProperties
<1> HIDE DEF u, n
<1>3. n - (m + 1) + 1 = n - m /\ \A i \in 1..n - m : (m + 1) + i - 1 = m + i
  BY <1>1
<1>4. Len(u) = n - m /\ \A i \in 1..n - m : u[i] = p[m + i]
  BY <1>1, <1>2, <1>3
<1> QED
  BY <1>2, <1>4 DEF u, n

LEMMA RestOfBeginning ==
  ASSUME NEW p \in Seq(Byte), NEW q, Beginning(q, p), NEW m \in Nat, m <= Len(q)
  PROVE  Beginning(SubSeq(q, m + 1, Len(q)), SubSeq(p, m + 1, Len(p)))
<1>1. q \in Seq(Byte) /\ Len(q) <= Len(p) /\ \A i \in 1..Len(q) : q[i] = p[i]
  BY DEF Beginning
<1> DEFINE u == SubSeq(p, m + 1, Len(p))
           v == SubSeq(q, m + 1, Len(q))
<1>2. /\ u \in Seq(Byte) /\ Len(u) = Len(p) - m
      /\ \A i \in 1..Len(p) - m : u[i] = p[m + i]
  BY <1>1, RestAt
<1>3. /\ v \in Seq(Byte) /\ Len(v) = Len(q) - m
      /\ \A i \in 1..Len(q) - m : v[i] = q[m + i]
  BY <1>1, RestAt
<1> HIDE DEF u, v
<1>4. Len(v) <= Len(u)
  BY <1>1, <1>2, <1>3
<1>5. \A i \in 1..Len(q) - m : m + i \in 1..Len(q) /\ i \in 1..Len(p) - m
  BY <1>1
<1>6. \A i \in 1..Len(v) : v[i] = u[i]
  BY <1>1, <1>2, <1>3, <1>5
<1>7. Beginning(v, u)
  BY <1>3, <1>4, <1>6 DEF Beginning
<1> QED
  BY <1>7 DEF u, v

(* A text is appended, and a NUL.                                          *)
WithText(x, t) == x \o t \o <<0>>

(* p is x, m long, a text t, n long, and a NUL.                            *)
IsWithText(p, x, m, t, n) ==
  /\ Begins(p, 4, 29) /\ Long(p, m + n + 1)
  /\ \A i \in 1..m : p[i] = x[i]
  /\ \A i \in m + 1..m + n : p[i] = t[i - m]
  /\ p[m + n + 1] = 0

LEMMA TextAppended ==
  ASSUME NEW m \in Nat, NEW x, Begins(x, 4, 29), Long(x, m),
         NEW n \in Nat, NEW t, Long(t, n)
  PROVE  IsWithText(WithText(x, t), x, m, t, n)
<1> DEFINE z == <<0>>
           y == x \o t
           w == y \o z
<1>1. Long(z, 1) /\ z[1] = 0
  <2>1. 0 \in Byte
    BY DEF Byte
  <2> QED
    BY <2>1, OneByte
<1> HIDE DEF z
<1>2. Begins(y, 4, 29)
  BY BeginsGrows DEF Long
<1>3. PICK l \in Nat : l = m + n
  OBVIOUS
<1>4. Long(y, l) /\ (\A i \in 1..m : y[i] = x[i]) /\ \A i \in m + 1..l : y[i] = t[i - m]
  <2>1. IsJoin(y, x, m, t, n)
    BY JoinIs
  <2> HIDE DEF y
  <2> QED
    BY <1>3, <2>1 DEF IsJoin
<1> HIDE DEF y
<1>5. Begins(w, 4, 29)
  BY <1>1, <1>2, BeginsGrows DEF Long
<1>6. Long(w, l + 1) /\ (\A i \in 1..l : w[i] = y[i]) /\ \A i \in l + 1..l + 1 : w[i] = z[i - l]
  <2>1. IsJoin(w, y, l, z, 1)
    BY <1>1, <1>4, JoinIs
  <2> HIDE DEF w
  <2> QED
    BY <2>1 DEF IsJoin
<1>7. w[l + 1] = 0
  <2>1. l + 1 \in l + 1..l + 1 /\ (l + 1) - l = 1
    OBVIOUS
  <2> QED
    BY <1>1, <1>6, <2>1
<1>8. w = WithText(x, t)
  BY DEF WithText, y, z
<1> HIDE DEF w
<1>9. /\ \A i \in 1..m : w[i] = x[i]
      /\ \A i \in m + 1..l : w[i] = t[i - m]
  <2>1. /\ \A i \in 1..m : i \in 1..l
        /\ \A i \in m + 1..l : i \in 1..l
    BY <1>3
  <2> QED
    BY <1>4, <1>6, <2>1
<1> QED
  BY <1>3, <1>5, <1>6, <1>7, <1>8, <1>9 DEF IsWithText

(* The packet of the three texts: where each of them stands in its data.   *)
MetadataPacket(s, t, u) ==
  WithText(WithText(WithText(METADATA_PREFIX \o Zeros(6), s), t), u)

(* Text t, n long, stands in the packet p at position i, and a NUL after it *)
Stands(p, i, t, n) ==
  /\ i + n <= Len(p) /\ p[i + n] = 0
  /\ \A j \in i..i + n - 1 : p[j] = t[j - i + 1]

LEMMA StandsLast ==
  ASSUME NEW p, NEW x, NEW m \in Nat, NEW t, NEW n \in Nat, IsWithText(p, x, m, t, n)
  PROVE  Stands(p, m + 1, t, n)
<1>1. /\ p \in Seq(Byte) /\ m + n + 1 <= Len(p) /\ p[m + n + 1] = 0
      /\ \A i \in m + 1..m + n : p[i] = t[i - m]
  BY DEF IsWithText, Long
<1>2. m + 1 + n = m + n + 1 /\ m + 1 + n - 1 = m + n
  OBVIOUS
<1>3. \A j \in m + 1..m + n : j - (m + 1) + 1 = j - m
  OBVIOUS
<1> QED
  BY <1>1, <1>2, <1>3 DEF Stands

LEMMA StandsStill ==
  ASSUME NEW p, NEW x, NEW m \in Nat, NEW t, NEW n \in Nat, IsWithText(p, x, m, t, n),
         Long(x, m),
         NEW i \in Nat \ {0}, NEW s, NEW k \in Nat, Stands(x, i, s, k)
  PROVE  Stands(p, i, s, k)
<1>1. /\ p \in Seq(Byte) /\ m + n + 1 <= Len(p) /\ \A j \in 1..m : p[j] = x[j]
  BY DEF IsWithText, Long
<1>2. /\ i + k <= m /\ x[i + k] = 0
      /\ \A j \in i..i + k - 1 : x[j] = s[j - i + 1]
  BY DEF Stands, Long
<1>3. i + k <= Len(p) /\ i + k \in 1..m /\ \A j \in i..i + k - 1 : j \in 1..m
  BY <1>1, <1>2
<1> QED
  BY <1>1, <1>2, <1>3 DEF Stands

(* The same in the data, which is the packet behind its first l bytes.     *)
LEMMA StandsInData ==
  ASSUME NEW p \in Seq(Byte), NEW l \in Nat, l <= Len(p),
         NEW i \in Nat \ {0}, NEW t \in Seq(Byte), Stands(p, l + i, t, Len(t))
  PROVE  Holds(SubSeq(p, l + 1, Len(p)), i, t)
<1> DEFINE d == SubSeq(p, l + 1, Len(p))
<1>1. /\ d \in Seq(Byte) /\ Len(d) = Len(p) - l
      /\ \A j \in 1..Len(p) - l : d[j] = p[l + j]
  BY RestAt
<1> HIDE DEF d
<1>2. PICK n \in Nat : n = Len(t)
  OBVIOUS
<1>3. PICK z \in Nat : z = Len(p)
  OBVIOUS
<1>4. /\ l + i + n <= z /\ p[l + i + n] = 0
      /\ \A j \in l + i..l + i + n - 1 : p[j] = t[j - (l + i) + 1]
  BY <1>2, <1>3 DEF Stands
<1>5. i + n <= z - l /\ i + n \in 1..z - l /\ l + (i + n) = l + i + n
  BY <1>4
<1>6. d[i + n] = 0
  BY <1>1, <1>3, <1>4, <1>5
<1>7. ASSUME NEW j \in i..i + n - 1 PROVE d[j] = t[j - i + 1]
  <2>1. /\ j \in 1..z - l /\ l + j \in l + i..l + i + n - 1
        /\ (l + j) - (l + i) + 1 = j - i + 1
    BY <1>5
  <2> QED
    BY <1>1, <1>3, <1>4, <2>1
<1>8. Holds(d, i, t)
  BY <1>1, <1>2, <1>3, <1>5, <1>6, <1>7 DEF Holds
<1> QED
  BY <1>8 DEF d

LEMMA MetadataBytes ==
  ASSUME NEW s \in Seq(Ascii), NEW t \in Seq(Ascii), NEW u \in Seq(Ascii),
         NEW p, p = MetadataPacket(s, t, u),
         NEW j \in Nat \ {0}, j = 1 + Len(s) + 1,
         NEW k \in Nat \ {0}, k = j + Len(t) + 1
  PROVE  /\ Begins(p, 4, 29) /\ 14 <= Len(p)
         /\ Holds(SubSeq(p, 12, Len(p)), 1, s)
         /\ Holds(SubSeq(p, 12, Len(p)), j, t)
         /\ Holds(SubSeq(p, 12, Len(p)), k, u)
<1>1. PICK a \in Nat : a = Len(s)
  OBVIOUS
<1>2. PICK b \in Nat : b = Len(t)
  OBVIOUS
<1>3. PICK c \in Nat : c = Len(u)
  OBVIOUS
<1>4. /\ s \in Seq(Byte) /\ t \in Seq(Byte) /\ u \in Seq(Byte)
      /\ Long(s, a) /\ Long(t, b) /\ Long(u, c)
  BY <1>1, <1>2, <1>3, TextsAreBytes DEF Long
<1> DEFINE x == METADATA_PREFIX \o Zeros(6)
           y == WithText(x, s)
           z == WithText(y, t)
<1>5. Begins(x, 4, 29) /\ Long(x, 11)
  <2> DEFINE h == METADATA_PREFIX
             o == Zeros(6)
  <2>1. /\ Long(h, 5)
        /\ h[1] = 4 /\ h[2] = 0 /\ h[3] = 4 /\ h[4] = 0 /\ h[5] = 29
    BY DEF METADATA_PREFIX, HEADER, Byte, Long
  <2>2. 5 \in Nat /\ 6 \in Nat
    OBVIOUS
  <2>3. Long(o, 6) /\ \A i \in 1..6 : o[i] = 0
    BY <2>2, ZerosType
  <2>4. IsJoin(x, h, 5, o, 6)
    BY <2>1, <2>2, <2>3, JoinIs
  <2> HIDE DEF x, h, o
  <2>5. Long(x, 11)
    BY <2>4 DEF IsJoin
  <2>6. x[1] = 4 /\ x[2] = 0 /\ x[3] = 4 /\ x[4] = 0 /\ x[5] = 29
    BY <2>1, <2>4 DEF IsJoin
  <2> QED
    BY <2>5, <2>6 DEF Begins, Long
<1> HIDE DEF x
<1>6. 11 \in Nat
  OBVIOUS
<1>7. IsWithText(y, x, 11, s, a)
  BY <1>4, <1>5, <1>6, TextAppended
<1>8. PICK l \in Nat : l = 11 + a + 1
  OBVIOUS
<1> HIDE DEF y
<1>9. Begins(y, 4, 29) /\ Long(y, l)
  BY <1>7, <1>8 DEF IsWithText
<1>10. IsWithText(z, y, l, t, b)
  BY <1>4, <1>9, TextAppended
<1>11. PICK n \in Nat : n = l + b + 1
  OBVIOUS
<1> HIDE DEF z
<1>12. Begins(z, 4, 29) /\ Long(z, n)
  BY <1>10, <1>11 DEF IsWithText
<1>13. IsWithText(p, z, n, u, c)
  <2>1. p = WithText(z, u)
    BY DEF MetadataPacket, x, y, z
  <2>2. IsWithText(WithText(z, u), z, n, u, c)
    BY <1>4, <1>12, TextAppended
  <2> QED
    BY <2>1, <2>2
<1>14. Stands(p, 11 + 1, s, a)
  <2>1. Stands(y, 11 + 1, s, a)
    BY <1>6, <1>7, StandsLast
  <2>2. Stands(z, 11 + 1, s, a)
    BY <1>9, <1>10, <2>1, StandsStill
  <2> QED
    BY <1>12, <1>13, <2>2, StandsStill
<1>15. Stands(p, l + 1, t, b)
  <2>1. Stands(z, l + 1, t, b)
    BY <1>10, StandsLast
  <2> QED
    BY <1>12, <1>13, <2>1, StandsStill
<1>16. Stands(p, n + 1, u, c)
  BY <1>13, StandsLast
<1>17. l + 1 = 11 + j /\ n + 1 = 11 + k
  BY <1>1, <1>2, <1>8, <1>11
<1>18. /\ Begins(p, 4, 29) /\ p \in Seq(Byte) /\ 14 <= Len(p) /\ 11 <= Len(p)
  BY <1>8, <1>11, <1>13 DEF IsWithText, Long
<1>19. 11 + 1 = 12 /\ 1 \in Nat \ {0}
  OBVIOUS
<1>20. Holds(SubSeq(p, 11 + 1, Len(p)), 1, s)
  BY <1>1, <1>4, <1>6, <1>14, <1>18, <1>19, StandsInData
<1>21. Holds(SubSeq(p, 11 + 1, Len(p)), j, t)
  BY <1>2, <1>4, <1>6, <1>15, <1>17, <1>18, StandsInData
<1>22. Holds(SubSeq(p, 11 + 1, Len(p)), k, u)
  BY <1>3, <1>4, <1>6, <1>16, <1>17, <1>18, StandsInData
<1> QED
  BY <1>18, <1>19, <1>20, <1>21, <1>22

LEMMA MetadataRead ==
  ASSUME NEW p, Begins(p, 4, 29), 14 <= Len(p)
  PROVE  LET texts == TextsIn(SubSeq(p, 12, Len(p)))
         IN  Parse(p) = [t |-> "Metadata", name |-> texts[1],
                         modelNumber |-> texts[2], manufacturer |-> texts[3]]
<1>1. Len(METADATA_PREFIX) = 5
  BY DEF METADATA_PREFIX, HEADER
<1>2. ~(Len(p) < 14) /\ 11 + 1 = 12
  BY DEF Begins
<1> QED
  BY <1>1, <1>2, ParseDispatches DEF ParseMetadata, Slice

LEMMA MetadataSent ==
  ASSUME NEW s \in Seq(Ascii), NEW t \in Seq(Ascii), NEW u \in Seq(Ascii)
  PROVE  Sent(MetadataPacket(s, t, u),
              [t |-> "Metadata", name |-> s, modelNumber |-> t, manufacturer |-> u])
<1> DEFINE p == MetadataPacket(s, t, u)
           m == [t |-> "Metadata", name |-> s, modelNumber |-> t, manufacturer |-> u]
           data == SubSeq(p, 12, Len(p))
<1>1. PICK j \in Nat \ {0} : j = 1 + Len(s) + 1
  OBVIOUS
<1>2. PICK k \in Nat \ {0} : k = j + Len(t) + 1
  OBVIOUS
<1> HIDE DEF p
<1>3. /\ Begins(p, 4, 29) /\ 14 <= Len(p)
      /\ Holds(data, 1, s) /\ Holds(data, j, t) /\ Holds(data, k, u)
  BY <1>1, <1>2, MetadataBytes DEF p
<1>4. p \in Seq(Byte)
  BY <1>3 DEF Begins
<1>5. ASSUME NEW q, Beginning(q, p), 14 <= Len(q)
      PROVE  LET texts == TextsIn(SubSeq(q, 12, Len(q)))
             IN  /\ IsPrefix(texts[1], s) /\ IsPrefix(texts[2], t)
                 /\ IsPrefix(texts[3], u)
                 /\ q = p => texts = <<s, t, u>>
  <2> DEFINE d == SubSeq(q, 12, Len(q))
  <2>1. 11 \in Nat /\ 11 <= Len(q) /\ 11 + 1 = 12
    BY <1>5 DEF Beginning
  <2>2. Beginning(SubSeq(q, 11 + 1, Len(q)), SubSeq(p, 11 + 1, Len(p)))
    BY <1>4, <1>5, <2>1, RestOfBeginning
  <2>3. SubSeq(p, 11 + 1, Len(p)) \in Seq(Byte)
    <3>1. 11 <= Len(p)
      BY <1>3, <1>4
    <3> QED
      BY <1>4, <2>1, <3>1, RestAt
  <2>4. Beginning(d, data) /\ data \in Seq(Byte) /\ (q = p => d = data)
    BY <2>1, <2>2, <2>3
  <2> HIDE DEF data, d
  <2>5. /\ IsPrefix(TextsIn(d)[1], s) /\ IsPrefix(TextsIn(d)[2], t)
        /\ IsPrefix(TextsIn(d)[3], u)
        /\ d = data => TextsIn(d) = <<s, t, u>>
    BY <1>1, <1>2, <1>3, <2>4, TextsRead
  <2>6. TextsIn(d) = TextsIn(SubSeq(q, 12, Len(q)))
    BY DEF d
  <2> QED
    BY <2>4, <2>5, <2>6
<1>6. Beginning(p, p)
  BY <1>4 DEF Beginning
<1>7. Parse(p) = m
  <2> DEFINE texts == TextsIn(SubSeq(p, 12, Len(p)))
  <2>1. texts = <<s, t, u>>
    BY <1>3, <1>5, <1>6
  <2>2. Parse(p) = [t |-> "Metadata", name |-> texts[1],
                    modelNumber |-> texts[2], manufacturer |-> texts[3]]
    BY <1>3, MetadataRead
  <2> HIDE DEF texts
  <2> QED
    BY <2>1, <2>2
<1>8. Understand(p) = m /\ Intended(m) = m
  BY <1>7 DEF Understand, Intended, Unknown
<1>9. ASSUME NEW q, Beginning(q, p), Len(q) < Len(p)
      PROVE  SaysNoMore(Parse(q), m)
  <2>1. CASE Parse(q) = ParseError
    BY <2>1 DEF SaysNoMore, ParseError
  <2>2. CASE Begins(q, 4, 29) /\ Len(q) < 14
    <3>1. Parse(q) = ParseError
      <4>1. Len(METADATA_PREFIX) = 5
        BY DEF METADATA_PREFIX, HEADER
      <4> QED
        BY <2>2, <4>1, ParseDispatches DEF ParseMetadata
    <3> QED
      BY <3>1 DEF SaysNoMore, ParseError
  <2>3. CASE Begins(q, 4, 29) /\ 14 <= Len(q)
    <3> DEFINE texts == TextsIn(SubSeq(q, 12, Len(q)))
    <3>1. IsPrefix(texts[1], s) /\ IsPrefix(texts[2], t) /\ IsPrefix(texts[3], u)
      BY <1>5, <1>9, <2>3
    <3>2. Parse(q) = [t |-> "Metadata", name |-> texts[1],
                      modelNumber |-> texts[2], manufacturer |-> texts[3]]
      BY <2>3, MetadataRead
    <3> HIDE DEF texts
    <3> QED
      BY <3>1, <3>2 DEF SaysNoMore
  <2>4. Begins(q, 4, 29) => Len(q) < 14 \/ 14 <= Len(q)
    BY DEF Begins
  <2>5. 4 # 1
    OBVIOUS
  <2> QED
    BY <1>3, <1>9, <2>1, <2>2, <2>3, <2>4, <2>5, BeginningOfPacket
<1>10. m # Nothing /\ m.t # "Request"
  BY DEF Nothing
<1> HIDE DEF m
<1>11. Sent(p, m)
  BY <1>3, <1>8, <1>9, <1>10 DEF Sent, Begins
<1> QED
  BY <1>11 DEF p, m

-----------------------------------------------------------------------------
(* What the daemon asks of the AirPods means nothing to itself.            *)

LEMMA RequestSent ==
  ASSUME NEW p, NEW first, NEW op, Begins(p, first, op), first # 1,
         \A q : Begins(q, first, op) /\ Len(q) <= Len(p)
                  => Parse(q) \in {ParseError, Unknown},
         Len(p) < 70
  PROVE  Sent(p, [t |-> "Request"])
<1>1. Parse(p) \in {ParseError, Unknown}
  BY DEF Begins
<1>2. ASSUME NEW q, Beginning(q, p), Len(q) < Len(p)
      PROVE  Parse(q) \in {ParseError, Unknown}
  BY <1>2, BeginningOfPacket DEF Beginning
<1>3. [t |-> "Request"] # Nothing /\ [t |-> "Request"].t = "Request"
  BY DEF Nothing
<1> DEFINE m == [t |-> "Request"]
<1> HIDE DEF m
<1>4. ~(Len(p) >= 70)
  BY DEF Begins
<1>5. \A q : Beginning(q, p) /\ Len(q) < Len(p) => SaysNoMore(Parse(q), m)
  BY <1>2 DEF SaysNoMore, ParseError, Unknown
<1> QED
  BY <1>1, <1>3, <1>4, <1>5 DEF Sent, Begins, m

LEMMA OpcodeSent ==
  ASSUME NEW p, NEW op \in {15, 48, 77}, Begins(p, 4, op), Len(p) < 70
  PROVE  Sent(p, [t |-> "Request"])
BY ParseDispatches, RequestSent

LEMMA HeadTrackingSent ==
  ASSUME NEW p, Begins(p, 4, 23), Len(p) < 70
  PROVE  Sent(p, [t |-> "Request"])
<1>1. ASSUME NEW q, Begins(q, 4, 23), Len(q) <= Len(p)
      PROVE  Parse(q) = ParseError
  <2>1. Len(q) < 70
    BY <1>1 DEF Begins
  <2> QED
    BY <1>1, <2>1, ParseDispatches DEF ParseHeadTracking
<1> QED
  BY <1>1, RequestSent

LEMMA HandshakeSent ==
  ASSUME NEW p, Begins(p, 0, 1), Len(p) < 70
  PROVE  Sent(p, [t |-> "Request"])
<1>1. ASSUME NEW q, Begins(q, 0, 1), Len(q) <= Len(p)
      PROVE  Parse(q) = ParseError
  <2>1. ~(Len(q) < 4)
    BY <1>1 DEF Begins
  <2> QED
    BY <1>1, <2>1, BeginsWith DEF Parse
<1> QED
  BY <1>1, RequestSent

LEMMA RequestsSent ==
  ASSUME NEW p \in Requests PROVE Sent(p, [t |-> "Request"])
<1>1. CASE p = HANDSHAKE
  <2> DEFINE h == <<0, 0, 4, 0, 1, 0, 2>>
  <2>1. Begins(h, 0, 1) /\ Long(h, 7)
    BY DEF Begins, Byte, Long
  <2>2. p = h \o Zeros(9)
    BY <1>1 DEF HANDSHAKE
  <2> HIDE DEF h
  <2>3. Long(Zeros(9), 9)
    BY ZerosType
  <2>4. Begins(p, 0, 1)
    BY <2>1, <2>2, <2>3, BeginsGrows DEF Long
  <2>5. Len(p) < 70
    BY <2>1, <2>2, <2>3 DEF Long
  <2> QED
    BY <2>4, <2>5, HandshakeSent
<1>2. CASE p = SET_SPECIFIC_FEATURES
  <2> DEFINE h == HEADER \o <<77, 0, 255>>
  <2>1. Begins(h, 4, 77) /\ Long(h, 7)
    BY DEF Begins, HEADER, Byte, Long
  <2>2. p = h \o Zeros(7)
    BY <1>2 DEF SET_SPECIFIC_FEATURES
  <2> HIDE DEF h
  <2>3. Long(Zeros(7), 7)
    BY ZerosType
  <2>4. Begins(p, 4, 77)
    BY <2>1, <2>2, <2>3, BeginsGrows DEF Long
  <2>5. Len(p) < 70
    BY <2>1, <2>2, <2>3 DEF Long
  <2> QED
    BY <2>4, <2>5, OpcodeSent
<1>3. CASE p = REQUEST_NOTIFICATIONS
  <2>1. Begins(p, 4, 15) /\ Len(p) < 70
    BY <1>3 DEF REQUEST_NOTIFICATIONS, Begins, HEADER, Byte
  <2> QED
    BY <2>1, OpcodeSent
<1>4. CASE p = HEAD_TRACKING_START
  <2>1. Begins(p, 4, 23) /\ Len(p) < 70
    BY <1>4 DEF HEAD_TRACKING_START, Begins, HEADER, Byte
  <2> QED
    BY <2>1, HeadTrackingSent
<1>5. CASE p = HEAD_TRACKING_STOP
  <2>1. Begins(p, 4, 23) /\ Len(p) < 70
    BY <1>5 DEF HEAD_TRACKING_STOP, Begins, HEADER, Byte
  <2> QED
    BY <2>1, HeadTrackingSent
<1>6. CASE p = BuildRequestProximityKeys(5)
  <2>1. Begins(p, 4, 48) /\ Len(p) < 70
    BY <1>6 DEF BuildRequestProximityKeys, Begins, HEADER, Byte
  <2> QED
    BY <2>1, OpcodeSent
<1> QED
  BY <1>1, <1>2, <1>3, <1>4, <1>5, <1>6 DEF Requests

-----------------------------------------------------------------------------
(* Battery packets, which the AirPods compose entry by entry.              *)

BatteryMeanings ==
  [t: {"Battery"}, left: BatteryState, right: BatteryState, case: BatteryState,
   primary: {"Left", "Right"}]

ComponentAt(p, i) == ComponentFromByte(At(p, Offset(i)))

(* The n entries of p and what m says of the components: an entry for each *)
(* component at most, and m has the reading of each entry, the defaults of *)
(* the other components, and the first pod.                                *)
Tells(p, m, n) ==
  /\ \A i \in 1..n : ComponentAt(p, i) \in Components /\ ~BadSpacer(p, i)
  /\ \A i, j \in 1..n : ComponentAt(p, i) = ComponentAt(p, j) => i = j
  /\ \A i \in 1..n : m[Field[ComponentAt(p, i)]] = Reads(p, i)
  /\ \A c \in Components :
       (\A i \in 1..n : ComponentAt(p, i) # c) => m[Field[c]] = DefaultReading
  /\ (\A i \in 1..n : ComponentAt(p, i) = "Case") => m.primary = "Left"
  /\ \A i \in 1..n :
       /\ ComponentAt(p, i) # "Case"
       /\ \A j \in 1..n : ComponentAt(p, j) # "Case" => i <= j
       => m.primary = ComponentAt(p, i)

BatteryWith(p, m, n) ==
  /\ n \in 0..3 /\ m \in BatteryMeanings
  /\ Begins(p, 4, 4) /\ p[6] = 0 /\ p[7] = n /\ Long(p, 7 + 5 * n)
  /\ Tells(p, m, n)

(* Entry by entry, the packet is read as it is meant.                      *)
EntriesOf(p, n, c) == {i \in 1..n : ComponentAt(p, i) = c}

LEMMA ReadingOf ==
  ASSUME NEW p, NEW m, NEW n \in 0..3, Tells(p, m, n), NEW c \in Components
  PROVE  (IF EntriesOf(p, n, c) = {} THEN DefaultReading
          ELSE Reads(p, Max(EntriesOf(p, n, c)))) = m[Field[c]]
<1> DEFINE named == EntriesOf(p, n, c)
<1>1. CASE named = {}
  <2>1. \A i \in 1..n : ComponentAt(p, i) # c
    BY <1>1 DEF EntriesOf
  <2> QED
    BY <1>1, <2>1 DEF Tells
<1>2. CASE named # {}
  <2>1. n \in Nat /\ named \subseteq 1..n
    BY DEF EntriesOf
  <2>2. Max(named) \in named
    BY <1>2, <2>1, MaxOfPositions
  <2>3. Max(named) \in 1..n /\ ComponentAt(p, Max(named)) = c
    BY <2>2 DEF EntriesOf
  <2>4. Reads(p, Max(named)) = m[Field[c]]
    BY <2>3 DEF Tells
  <2> QED
    BY <1>2, <2>4
<1> QED
  BY <1>1, <1>2

LEMMA PrimaryOf ==
  ASSUME NEW p, NEW m, NEW n \in 0..3, Tells(p, m, n),
         NEW comps, comps = [i \in 1..n |-> ComponentAt(p, i)]
  PROVE  PrimaryPod(comps) = m.primary
<1>1. PodsIn(comps) = {i \in 1..n : ComponentAt(p, i) # "Case"}
  BY DEF PodsIn
<1>2. CASE PodsIn(comps) = {}
  BY <1>1, <1>2 DEF PrimaryPod, Tells
<1>3. CASE PodsIn(comps) # {}
  <2> DEFINE i == Min(PodsIn(comps))
  <2>1. PodsIn(comps) \subseteq Nat
    BY <1>1
  <2>2. i \in PodsIn(comps) /\ \A j \in PodsIn(comps) : i <= j
    BY <1>3, <2>1, MinOfNaturals
  <2> HIDE DEF i
  <2>3. /\ i \in 1..n /\ ComponentAt(p, i) # "Case"
        /\ \A j \in 1..n : ComponentAt(p, j) # "Case" => i <= j
    BY <1>1, <2>2
  <2>4. m.primary = ComponentAt(p, i)
    BY <2>3 DEF Tells
  <2>5. comps[i] = ComponentAt(p, i)
    BY <2>3
  <2> QED
    BY <1>3, <2>4, <2>5 DEF PrimaryPod, i
<1> QED
  BY <1>2, <1>3

LEMMA BatteryRead ==
  ASSUME NEW p, NEW m \in BatteryMeanings, NEW n \in 0..3, Tells(p, m, n)
  PROVE  BatteryOf(p, n) = m
<1> DEFINE comps == [i \in 1..n |-> ComponentFromByte(At(p, Offset(i)))]
           Latest(c) == LET named == {i \in 1..n : comps[i] = c}
                        IN  IF named = {} THEN DefaultReading ELSE Reads(p, Max(named))
<1>1. comps = [i \in 1..n |-> ComponentAt(p, i)]
  BY DEF ComponentAt
<1>2. PrimaryPod(comps) = m.primary
  <2> HIDE DEF comps
  <2> QED
    BY <1>1, PrimaryOf
<1>3. \A c \in Components : Latest(c) = m[Field[c]]
  <2> TAKE c \in Components
  <2> DEFINE named == {i \in 1..n : comps[i] = c}
  <2>1. named = EntriesOf(p, n, c)
    BY DEF ComponentAt, EntriesOf
  <2>2. Latest(c) = IF named = {} THEN DefaultReading ELSE Reads(p, Max(named))
    OBVIOUS
  <2> HIDE DEF named, Latest
  <2> QED
    BY <2>1, <2>2, ReadingOf
<1>4. ~\E i \in 1..n : BadSpacer(p, i) \/ comps[i] = "Unknown"
  BY DEF Tells, ComponentAt, Components
<1>5. BatteryOf(p, n) =
        [t |-> "Battery", left |-> Latest("Left"),
         right |-> Latest("Right"), case |-> Latest("Case"),
         primary |-> PrimaryPod(comps)]
  BY <1>4 DEF BatteryOf
<1> HIDE DEF Latest, comps
<1>6. Latest("Left") = m.left /\ Latest("Right") = m.right /\ Latest("Case") = m.case
  BY <1>3 DEF Components, Field
<1> QED
  BY <1>2, <1>5, <1>6 DEF BatteryMeanings

LEMMA BatterySent ==
  ASSUME NEW p, NEW m, NEW n, BatteryWith(p, m, n) PROVE Sent(p, m)
<1>1. n \in 0..3 /\ m \in BatteryMeanings /\ Tells(p, m, n)
  BY DEF BatteryWith
<1>2. Begins(p, 4, 4) /\ p[6] = 0 /\ p[7] = n /\ Long(p, 7 + 5 * n)
  BY DEF BatteryWith
<1>3. Parse(p) = m
  <2>1. StartsWith(p, BATTERY_PREFIX)
    BY <1>2, BeginsWith
  <2>2. ~(Len(p) < 7) /\ ~(Len(p) < 7 + 5 * n) /\ ~(n > 3)
    BY <1>1, <1>2 DEF Long
  <2>3. At(p, 6) = n
    BY <1>2 DEF At
  <2>4. ParseBattery(p) = BatteryOf(p, n)
    BY <2>1, <2>2, <2>3 DEF ParseBattery, Reading
  <2> QED
    BY <1>1, <1>2, <2>4, BatteryRead, ParseDispatches
<1>4. m.t = "Battery"
  BY <1>1 DEF BatteryMeanings
<1>5. Understand(p) = m /\ Intended(m) = m
  BY <1>3, <1>4 DEF Understand, Intended, Unknown
<1>6. ASSUME NEW q, Beginning(q, p), Len(q) < Len(p)
      PROVE  Parse(q) = ParseError
  <2>1. CASE Begins(q, 4, 4)
    <3>1. CASE Len(q) < 7
      BY <2>1, <3>1, ParseDispatches DEF ParseBattery
    <3>2. CASE ~(Len(q) < 7)
      <4>1. At(q, 6) = n
        BY <1>2, <1>6, <2>1, <3>2 DEF At, Beginning, Begins
      <4>2. Len(q) < 7 + 5 * n
        BY <1>1, <1>2, <1>6, <2>1 DEF Begins, Long
      <4> QED
        BY <2>1, <4>1, <4>2, ParseDispatches DEF ParseBattery
    <3> QED
      BY <3>1, <3>2
  <2> QED
    BY <1>2, <1>6, <2>1, BeginningOfPacket
<1> QED
  BY <1>2, <1>4, <1>5, <1>6, SentIfRead

LEMMA BatteryBegun == BatteryWith(BATTERY_PREFIX \o <<0>>, NoReadings, 0)
<1> DEFINE p == BATTERY_PREFIX \o <<0>>
<1>1. Begins(p, 4, 4) /\ p[6] = 0 /\ p[7] = 0 /\ Long(p, 7)
  BY DEF Begins, BATTERY_PREFIX, HEADER, Byte, Long
<1> HIDE DEF p
<1>2. NoReadings \in BatteryMeanings
  BY DEF NoReadings, BatteryMeanings, BatteryState, DefaultReading, Byte
<1>3. Tells(p, NoReadings, 0)
  BY DEF Tells, NoReadings, Components, Field
<1>4. BatteryWith(p, NoReadings, 0)
  BY <1>1, <1>2, <1>3 DEF BatteryWith
<1> QED
  BY <1>4 DEF p

(* An entry e, k long, is appended to p, which counts its entries.         *)
Extended(p, e) == [p EXCEPT ![7] = @ + 1] \o e

Grown(w, p, l, e, k) ==
  /\ Long(w, l + k)
  /\ \A i \in 8..l : w[i] = p[i]
  /\ \A i \in l + 1..l + k : w[i] = e[i - l]

LEMMA EntryAppended ==
  ASSUME NEW p, NEW op, Begins(p, 4, op), p[6] = 0, NEW l \in Nat, 7 <= l, Long(p, l),
         NEW n \in Nat, p[7] = n, n + 1 \in Byte,
         NEW e, NEW k \in Nat, Long(e, k)
  PROVE  /\ Begins(Extended(p, e), 4, op)
         /\ Extended(p, e)[6] = 0 /\ Extended(p, e)[7] = n + 1
         /\ Grown(Extended(p, e), p, l, e, k)
<1> DEFINE x == [p EXCEPT ![7] = @ + 1]
           w == x \o e
<1>1. PICK z \in Byte : z = n + 1
  OBVIOUS
<1>2. p \in Seq(Byte) /\ Len(p) = l
  BY DEF Long
<1>3. x = [p EXCEPT ![7] = z]
  BY <1>1
<1>4. /\ x \in Seq(Byte) /\ Len(x) = l
      /\ \A i \in 1..l : x[i] = IF i = 7 THEN z ELSE p[i]
  BY <1>2, <1>3
<1> HIDE DEF x
<1>5. \A i \in 1..6 : i \in 1..l /\ i # 7
  OBVIOUS
<1>6. x[1] = p[1] /\ x[2] = p[2] /\ x[3] = p[3] /\ x[4] = p[4] /\ x[5] = p[5] /\ x[6] = p[6]
  BY <1>4, <1>5
<1>7. Begins(x, 4, op) /\ Long(x, l)
  BY <1>4, <1>6 DEF Begins, Long
<1>8. x[7] = n + 1 /\ \A i \in 8..l : x[i] = p[i]
  BY <1>1, <1>4
<1>9. IsJoin(w, x, l, e, k)
  BY <1>7, JoinIs
<1>10. Begins(w, 4, op)
  BY <1>7, BeginsGrows DEF Long
<1> HIDE DEF w
<1>11. 6 \in 1..l /\ 7 \in 1..l /\ \A i \in 8..l : i \in 1..l
  OBVIOUS
<1>12. w[6] = 0 /\ w[7] = n + 1
  BY <1>6, <1>8, <1>9, <1>11 DEF IsJoin
<1>13. Grown(w, p, l, e, k)
  BY <1>8, <1>9, <1>11 DEF IsJoin, Grown
<1>14. w = Extended(p, e)
  BY DEF w, x, Extended
<1> QED
  BY <1>10, <1>12, <1>13, <1>14

(* The entries before the new one are what they were.                      *)
LEMMA EntriesKept ==
  ASSUME NEW p, NEW w, NEW n \in 0..3, NEW e, Grown(w, p, 7 + 5 * n, e, 5)
  PROVE  \A i \in 1..n : /\ ComponentAt(w, i) = ComponentAt(p, i)
                         /\ Reads(w, i) = Reads(p, i)
                         /\ BadSpacer(w, i) = BadSpacer(p, i)
<1> TAKE i \in 1..n
<1> DEFINE o == Offset(i)
<1>1. o \in Nat /\ \A j \in 0..4 : (o + j) + 1 \in 8..7 + 5 * n
  BY DEF Offset
<1> HIDE DEF o
<1>2. \A j \in 0..4 : At(w, o + j) = At(p, o + j)
  BY <1>1 DEF Grown, At
<1>3. o + 0 = o /\ 0 \in 0..4 /\ 1 \in 0..4 /\ 2 \in 0..4 /\ 3 \in 0..4 /\ 4 \in 0..4
  BY <1>1
<1>4. /\ At(w, o) = At(p, o) /\ At(w, o + 1) = At(p, o + 1)
      /\ At(w, o + 2) = At(p, o + 2) /\ At(w, o + 3) = At(p, o + 3)
      /\ At(w, o + 4) = At(p, o + 4)
  BY <1>2, <1>3
<1> QED
  BY <1>4 DEF ComponentAt, Reads, BadSpacer, o

LEMMA NewEntry ==
  ASSUME NEW p, NEW w, NEW n \in 0..3, NEW c \in Components,
         NEW level \in Byte, NEW status \in DOMAIN StatusByte, NEW e,
         e[1] = ComponentByte[c], e[2] = 1, e[3] = level, e[4] = StatusByte[status],
         e[5] = 1, Grown(w, p, 7 + 5 * n, e, 5)
  PROVE  /\ ComponentAt(w, n + 1) = c /\ ~BadSpacer(w, n + 1)
         /\ Reads(w, n + 1) = [level |-> level, status |-> status]
<1> DEFINE o == Offset(n + 1)
           l == 7 + 5 * n
<1>1. o = l /\ l \in Nat
  BY DEF Offset
<1> HIDE DEF o, l
<1>2. \A j \in 0..4 : (l + j) + 1 \in l + 1..l + 5 /\ (l + j) + 1 - l = j + 1
  BY <1>1
<1>3. \A j \in 0..4 : At(w, l + j) = e[j + 1]
  BY <1>2 DEF Grown, At, l
<1>4. /\ l + 0 = l /\ 0 \in 0..4 /\ 1 \in 0..4 /\ 2 \in 0..4 /\ 3 \in 0..4 /\ 4 \in 0..4
      /\ 0 + 1 = 1 /\ 1 + 1 = 2 /\ 2 + 1 = 3 /\ 3 + 1 = 4 /\ 4 + 1 = 5
  BY <1>1
<1>5. /\ At(w, l) = e[1] /\ At(w, l + 1) = e[2] /\ At(w, l + 2) = e[3]
      /\ At(w, l + 3) = e[4] /\ At(w, l + 4) = e[5]
  BY <1>3, <1>4
<1>6. ComponentFromByte(ComponentByte[c]) = c
  BY DEF ComponentFromByte, ComponentByte, Components
<1>7. StatusFromByte(StatusByte[status]) = status
  BY DEF StatusFromByte, StatusByte
<1> QED
  BY <1>1, <1>5, <1>6, <1>7 DEF ComponentAt, Reads, BadSpacer, o

(* m2 is m with reading r of component c, and first for the primary pod.   *)
SaysAlso(m2, m, c, r, first) ==
  /\ m2 \in BatteryMeanings /\ m2[Field[c]] = r /\ m2.primary = first
  /\ \A d \in Components \ {c} : m2[Field[d]] = m[Field[d]]

LEMMA MeaningGrows ==
  ASSUME NEW m \in BatteryMeanings, NEW c \in Components, NEW r \in BatteryState
  PROVE  /\ SaysAlso([m EXCEPT ![Field[c]] = r], m, c, r, m.primary)
         /\ c # "Case" =>
              SaysAlso([[m EXCEPT ![Field[c]] = r] EXCEPT !.primary = c], m, c, r, c)
<1> DEFINE said == [m EXCEPT ![Field[c]] = r]
           m2 == [said EXCEPT !.primary = c]
<1>1. said \in BatteryMeanings /\ said[Field[c]] = r /\ said.primary = m.primary
  BY DEF BatteryMeanings, Components, Field
<1>2. \A d \in Components \ {c} : said[Field[d]] = m[Field[d]]
  BY DEF BatteryMeanings, Components, Field
<1>3. SaysAlso(said, m, c, r, m.primary)
  BY <1>1, <1>2 DEF SaysAlso
<1>4. ASSUME c # "Case" PROVE SaysAlso(m2, m, c, r, c)
  <2> HIDE DEF said
  <2>1. m2 \in BatteryMeanings /\ m2.primary = c
    BY <1>1, <1>4 DEF BatteryMeanings, Components
  <2>2. \A d \in Components : m2[Field[d]] = said[Field[d]]
    BY <1>1 DEF BatteryMeanings, Components, Field
  <2> HIDE DEF m2
  <2> QED
    BY <1>1, <1>2, <2>1, <2>2 DEF SaysAlso
<1> QED
  BY <1>3, <1>4

(* The first pod is the primary one, the others change nothing about it.   *)
LEMMA TellsMore ==
  ASSUME NEW p, NEW m, NEW n \in 0..3, Tells(p, m, n), NEW c \in Components, NEW r,
         \A i \in 1..n : ComponentAt(p, i) # c,
         NEW w, \A i \in 1..n : /\ ComponentAt(w, i) = ComponentAt(p, i)
                                /\ Reads(w, i) = Reads(p, i)
                                /\ BadSpacer(w, i) = BadSpacer(p, i),
         ComponentAt(w, n + 1) = c, ~BadSpacer(w, n + 1), Reads(w, n + 1) = r,
         NEW m2,
         SaysAlso(m2, m, c, r,
                  IF c = "Case" \/ \E i \in 1..n : ComponentAt(p, i) # "Case"
                    THEN m.primary ELSE c)
  PROVE  Tells(w, m2, n + 1)
<1> DEFINE At1(i) == ComponentAt(w, i)
<1>1. \A i \in 1..n + 1 : i \in 1..n \/ i = n + 1
  OBVIOUS
<1>2. \A i \in 1..n : i \in 1..n + 1 /\ i <= n + 1 /\ ~(n + 1 <= i) /\ i # n + 1
  OBVIOUS
<1>3. n + 1 \in 1..n + 1 /\ n + 1 <= n + 1
  OBVIOUS
<1>4. \A i \in 1..n : ComponentAt(p, i) \in Components \ {c}
  BY DEF Tells
<1>5. \A i \in 1..n + 1 : At1(i) \in Components /\ ~BadSpacer(w, i)
  BY <1>1 DEF Tells
<1>6. \A i, j \in 1..n + 1 : At1(i) = At1(j) => i = j
  BY <1>1, <1>4 DEF Tells
<1>7. \A i \in 1..n + 1 : m2[Field[At1(i)]] = Reads(w, i)
  BY <1>1, <1>4 DEF Tells, SaysAlso
<1>8. ASSUME NEW d \in Components, \A i \in 1..n + 1 : At1(i) # d
      PROVE  m2[Field[d]] = DefaultReading
  <2>1. d # c /\ \A i \in 1..n : ComponentAt(p, i) # d
    BY <1>2, <1>3, <1>8
  <2> QED
    BY <2>1 DEF Tells, SaysAlso
<1>9. ASSUME \A i \in 1..n + 1 : At1(i) = "Case" PROVE m2.primary = "Left"
  <2>1. c = "Case" /\ \A i \in 1..n : ComponentAt(p, i) = "Case"
    BY <1>2, <1>3, <1>9
  <2> QED
    BY <2>1 DEF Tells, SaysAlso
<1>10. ASSUME NEW i \in 1..n + 1, At1(i) # "Case",
              \A j \in 1..n + 1 : At1(j) # "Case" => i <= j
       PROVE  m2.primary = At1(i)
  <2>1. CASE i \in 1..n
    <3>1. /\ ComponentAt(p, i) # "Case"
          /\ \A j \in 1..n : ComponentAt(p, j) # "Case" => i <= j
      BY <1>2, <1>10, <2>1
    <3>2. m.primary = ComponentAt(p, i)
      BY <2>1, <3>1 DEF Tells
    <3> QED
      BY <2>1, <3>1, <3>2 DEF SaysAlso
  <2>2. CASE i = n + 1
    <3>1. c # "Case" /\ \A j \in 1..n : ComponentAt(p, j) = "Case"
      BY <1>2, <1>10, <2>2
    <3> QED
      BY <2>2, <3>1 DEF SaysAlso
  <2> QED
    BY <1>1, <2>1, <2>2
<1> QED
  BY <1>5, <1>6, <1>7, <1>8, <1>9, <1>10 DEF Tells

(* There are three components.                                             *)
LEMMA OneMoreFits ==
  ASSUME NEW p, NEW m, NEW n \in 0..3, Tells(p, m, n), NEW c \in Components,
         \A i \in 1..n : ComponentAt(p, i) # c
  PROVE  n + 1 \in 0..3
<1>1. ASSUME n = 3 PROVE FALSE
  <2>1. /\ ComponentAt(p, 1) \in Components \ {c} /\ ComponentAt(p, 2) \in Components \ {c}
        /\ ComponentAt(p, 3) \in Components \ {c}
        /\ ComponentAt(p, 1) # ComponentAt(p, 2) /\ ComponentAt(p, 1) # ComponentAt(p, 3)
        /\ ComponentAt(p, 2) # ComponentAt(p, 3)
    BY <1>1 DEF Tells
  <2> QED
    BY <2>1 DEF Components
<1> QED
  BY <1>1

LEMMA ListedIs ==
  ASSUME NEW p, NEW n \in 0..3, \A i \in 1..n : ComponentAt(p, i) \in Components,
         NEW c \in Components
  PROVE  (\E i \in 1..n : p[Offset(i) + 1] = ComponentByte[c])
            <=> \E i \in 1..n : ComponentAt(p, i) = c
<1>1. \A b : ComponentFromByte(b) = c <=> b = ComponentByte[c]
  BY DEF ComponentFromByte, ComponentByte, Components
<1>2. \A i : At(p, Offset(i)) = p[Offset(i) + 1]
  BY DEF At
<1> QED
  BY <1>1, <1>2 DEF ComponentAt

LEMMA ReadingAdded ==
  ASSUME NEW p, NEW m, NEW n, BatteryWith(p, m, n),
         NEW c \in Components, NEW level \in Byte, NEW status \in DOMAIN StatusByte,
         NEW listed, listed = {d \in Components :
                                 \E i \in 1..n : p[Offset(i) + 1] = ComponentByte[d]},
         c \notin listed
  PROVE  LET w == Extended(p, <<ComponentByte[c], 1, level, StatusByte[status], 1>>)
             said == [m EXCEPT ![Field[c]] = [level |-> level, status |-> status]]
             m2 == IF c = "Case" \/ "Left" \in listed \/ "Right" \in listed
                     THEN said ELSE [said EXCEPT !.primary = c]
         IN  BatteryWith(w, m2, n + 1)
<1> DEFINE e == <<ComponentByte[c], 1, level, StatusByte[status], 1>>
           w == Extended(p, e)
           r == [level |-> level, status |-> status]
           said == [m EXCEPT ![Field[c]] = r]
           m2 == IF c = "Case" \/ "Left" \in listed \/ "Right" \in listed
                   THEN said ELSE [said EXCEPT !.primary = c]
<1>1. n \in 0..3 /\ m \in BatteryMeanings /\ Tells(p, m, n)
  BY DEF BatteryWith
<1>2. Begins(p, 4, 4) /\ p[6] = 0 /\ p[7] = n /\ Long(p, 7 + 5 * n)
  BY DEF BatteryWith
<1>3. \A i \in 1..n : ComponentAt(p, i) \in Components
  BY <1>1 DEF Tells
<1>4. \A d \in Components : d \in listed <=> \E i \in 1..n : ComponentAt(p, i) = d
  <2>1. \A d \in Components :
          d \in listed <=> \E i \in 1..n : p[Offset(i) + 1] = ComponentByte[d]
    OBVIOUS
  <2> QED
    BY <1>1, <1>3, <2>1, ListedIs
<1>5. \A i \in 1..n : ComponentAt(p, i) # c
  BY <1>4
<1>6. n + 1 \in 0..3
  BY <1>1, <1>5, OneMoreFits
<1>7. n \in Nat /\ n + 1 \in Byte /\ 7 + 5 * n \in Nat /\ 7 <= 7 + 5 * n /\ 5 \in Nat
  BY <1>1, <1>6, SmallNumbersAreBytes
<1>8. /\ Long(e, 5) /\ e[1] = ComponentByte[c] /\ e[2] = 1 /\ e[3] = level
      /\ e[4] = StatusByte[status] /\ e[5] = 1
  <2>1. ComponentByte[c] \in Byte /\ 1 \in Byte /\ StatusByte[status] \in Byte
    BY DEF ComponentByte, Components, StatusByte, Byte
  <2> QED
    BY <2>1, FiveBytes
<1> HIDE DEF e
<1>9. Begins(w, 4, 4) /\ w[6] = 0 /\ w[7] = n + 1 /\ Grown(w, p, 7 + 5 * n, e, 5)
  <2>1. PICK l \in Nat : l = 7 + 5 * n
    BY <1>7
  <2>2. Begins(w, 4, 4) /\ w[6] = 0 /\ w[7] = n + 1 /\ Grown(w, p, l, e, 5)
    <3>1. 7 <= l /\ Long(p, l)
      BY <1>2, <1>7, <2>1
    <3> QED
      BY <1>2, <1>7, <1>8, <3>1, EntryAppended
  <2> QED
    BY <2>1, <2>2
<1> HIDE DEF w
<1>10. \A i \in 1..n : /\ ComponentAt(w, i) = ComponentAt(p, i)
                       /\ Reads(w, i) = Reads(p, i)
                       /\ BadSpacer(w, i) = BadSpacer(p, i)
  BY <1>1, <1>9, EntriesKept
<1>11. ComponentAt(w, n + 1) = c /\ ~BadSpacer(w, n + 1) /\ Reads(w, n + 1) = r
  BY <1>1, <1>8, <1>9, NewEntry
<1>12. SaysAlso(m2, m, c, r,
                IF c = "Case" \/ \E i \in 1..n : ComponentAt(p, i) # "Case"
                  THEN m.primary ELSE c)
  <2>1. "Left" \in Components /\ "Right" \in Components
    BY DEF Components
  <2>2. "Left" \in listed \/ "Right" \in listed
          <=> \E i \in 1..n : ComponentAt(p, i) # "Case"
    BY <1>3, <1>4, <2>1 DEF Components
  <2>3. r \in BatteryState
    BY DEF BatteryState, StatusByte
  <2> HIDE DEF r
  <2>4. /\ SaysAlso(said, m, c, r, m.primary)
        /\ c # "Case" => SaysAlso([said EXCEPT !.primary = c], m, c, r, c)
    BY <1>1, <2>3, MeaningGrows
  <2> HIDE DEF said
  <2>5. CASE c = "Case" \/ "Left" \in listed \/ "Right" \in listed
    BY <2>2, <2>4, <2>5
  <2>6. CASE ~(c = "Case" \/ "Left" \in listed \/ "Right" \in listed)
    BY <2>2, <2>4, <2>6
  <2> QED
    BY <2>5, <2>6
<1> HIDE DEF m2
<1>13. m2 \in BatteryMeanings
  BY <1>12 DEF SaysAlso
<1> HIDE DEF r
<1>14. Tells(w, m2, n + 1)
  BY <1>1, <1>5, <1>10, <1>11, <1>12, TellsMore
<1>15. Long(w, 7 + 5 * (n + 1))
  BY <1>1, <1>9 DEF Grown, Long
<1>16. BatteryWith(w, m2, n + 1)
  BY <1>6, <1>9, <1>13, <1>14, <1>15 DEF BatteryWith
<1> QED
  BY <1>16 DEF w, m2, e, r

-----------------------------------------------------------------------------
(* Key responses.                                                          *)

(* What the loop has read of p after i turns.                              *)
KeyTurn(p, i) == KeysRead(p)[i]

LEMMA KeyTurns ==
  ASSUME NEW p \in Seq(Byte)
  PROVE  /\ KeyTurn(p, 0) = AtFirst
         /\ \A i \in 1..255 : KeyTurn(p, i) = NextKey(p, KeyTurn(p, i - 1))
         /\ \A i \in 0..255 : KeyTurn(p, i) \in Progress
<1> DEFINE g == KeysRead(p)
<1>1. g = [k \in Byte |-> IF k = 0 THEN AtFirst ELSE NextKey(p, g[k - 1])]
  BY KeysReadIsLoop
<1>2. \A i \in Byte : g[i] \in Progress
  BY KeysReadType
<1> HIDE DEF g
<1>3. g[0] = AtFirst /\ \A k \in 1..255 : g[k] = NextKey(p, g[k - 1])
  BY <1>1 DEF Byte
<1>4. \A i \in 0..255 : g[i] \in Progress
  BY <1>2 DEF Byte
<1> QED
  BY <1>3, <1>4 DEF KeyTurn, g

(* There is an entry at r.offset, and all of it is there.                  *)
Fits(p, r) == r.offset + 4 <= Len(p) /\ r.offset + 4 + At(p, r.offset + 2) <= Len(p)

EndOfKey(p, r) == r.offset + 4 + At(p, r.offset + 2)
KeyAt(p, r) ==
  [type |-> At(p, r.offset), data |-> Slice(p, r.offset + 4, EndOfKey(p, r))]
KeysWithNext(p, r) ==
  IF At(p, r.offset) \in {1, 4} THEN Append(r.keys, KeyAt(p, r)) ELSE r.keys

LEMMA NextKeyIs ==
  ASSUME NEW p \in Seq(Byte), NEW r \in Progress
  PROVE  /\ Fits(p, r) => NextKey(p, r) = [offset |-> EndOfKey(p, r),
                                           keys |-> KeysWithNext(p, r)]
         /\ ~Fits(p, r) => NextKey(p, r) = r
         /\ Fits(p, r) => EndOfKey(p, r) \in Nat /\ At(p, r.offset + 2) \in Byte
<1>1. r.offset \in Nat
  BY DEF Progress
<1> DEFINE b == At(p, r.offset + 2)
<1>2. Fits(p, r) => b \in Byte
  <2>1. Fits(p, r) => r.offset + 2 \in Nat /\ r.offset + 2 < Len(p)
    BY <1>1 DEF Fits
  <2> QED
    BY <2>1, AtType
<1> HIDE DEF b
<1>3. Fits(p, r) => ~(r.offset + 4 > Len(p)) /\ ~(r.offset + 4 + b > Len(p))
  BY <1>1, <1>2, BytesAreNumbers DEF Fits, b
<1>4. Fits(p, r) => NextKey(p, r) = [offset |-> EndOfKey(p, r),
                                     keys |-> KeysWithNext(p, r)]
  BY <1>3 DEF NextKey, EndOfKey, KeysWithNext, KeyAt, b
<1>5. ~Fits(p, r) => NextKey(p, r) = r
  <2>1. CASE r.offset + 4 > Len(p)
    BY <2>1 DEF NextKey
  <2>2. CASE r.offset + 4 <= Len(p) /\ ~Fits(p, r)
    <3>1. r.offset + 2 \in Nat /\ r.offset + 2 < Len(p)
      BY <1>1, <2>2
    <3>2. b \in Nat
      BY <3>1, AtType, BytesAreNumbers DEF b
    <3>3. r.offset + 4 + b > Len(p)
      BY <1>1, <2>2, <3>2 DEF Fits, b
    <3> QED
      BY <3>3 DEF NextKey, b
  <2>3. r.offset + 4 > Len(p) \/ r.offset + 4 <= Len(p)
    BY <1>1
  <2> QED
    BY <2>1, <2>2, <2>3
<1>6. Fits(p, r) => EndOfKey(p, r) \in Nat
  BY <1>1, <1>2, BytesAreNumbers DEF EndOfKey, b
<1> QED
  BY <1>2, <1>4, <1>5, <1>6 DEF b

(* Bytes behind the entry, or the count before it, make no difference.     *)
LEMMA SliceSame ==
  ASSUME NEW p \in Seq(Byte), NEW w \in Seq(Byte), NEW i \in Nat, NEW n \in Nat,
         i + n <= Len(p), i + n <= Len(w), \A j \in i + 1..i + n : w[j] = p[j]
  PROVE  SubSeq(w, i + 1, i + n) = SubSeq(p, i + 1, i + n)
<1> DEFINE t == SubSeq(p, i + 1, i + n)
<1>1. /\ t \in Seq(Byte) /\ Len(t) = n
      /\ \A j \in 1..n : t[j] = p[i + j]
  BY PartAt
<1> HIDE DEF t
<1>2. \A j \in 1..n : i + j \in i + 1..i + n
  OBVIOUS
<1>3. \A j \in 1..n : w[i + j] = t[j]
  BY <1>1, <1>2
<1>4. SubSeq(w, i + 1, i + n) = t
  BY <1>1, <1>3, PartOf
<1> QED
  BY <1>4 DEF t

LEMMA NextKeySame ==
  ASSUME NEW p \in Seq(Byte), NEW w \in Seq(Byte), NEW r \in Progress,
         7 <= r.offset, Fits(p, r), Len(p) <= Len(w),
         \A j \in 8..Len(p) : w[j] = p[j]
  PROVE  /\ Fits(w, r) /\ NextKey(w, r) = NextKey(p, r)
         /\ \A j \in 0..3 : At(w, r.offset + j) = At(p, r.offset + j)
<1>1. PICK o \in Nat : o = r.offset
  BY DEF Progress
<1>2. PICK b \in Nat : b = At(p, o + 2)
  BY <1>1, NextKeyIs, BytesAreNumbers
<1>3. 7 <= o /\ o + 4 <= Len(p) /\ o + 4 + b <= Len(p)
  BY <1>1, <1>2 DEF Fits
<1>4. \A j \in 0..3 : At(w, o + j) = At(p, o + j)
  <2>1. \A j \in 0..3 : (o + j) + 1 \in 8..Len(p)
    BY <1>3
  <2> QED
    BY <2>1 DEF At
<1>5. At(w, o) = At(p, o) /\ At(w, o + 2) = b
  <2>1. 0 \in 0..3 /\ 2 \in 0..3 /\ o + 0 = o
    OBVIOUS
  <2> QED
    BY <1>2, <1>4, <2>1
<1>6. Fits(w, r)
  <2>1. o + 4 <= Len(w) /\ o + 4 + b <= Len(w)
    BY <1>3
  <2> QED
    BY <1>1, <1>5, <2>1 DEF Fits
<1>7. EndOfKey(w, r) = o + 4 + b /\ EndOfKey(p, r) = o + 4 + b
  BY <1>1, <1>2, <1>5 DEF EndOfKey
<1>8. Slice(w, o + 4, o + 4 + b) = Slice(p, o + 4, o + 4 + b)
  <2>1. PICK i \in Nat : i = o + 4
    OBVIOUS
  <2>2. i + b <= Len(p) /\ i + b <= Len(w) /\ \A j \in i + 1..i + b : j \in 8..Len(p)
    BY <1>3, <2>1
  <2>3. SubSeq(w, i + 1, i + b) = SubSeq(p, i + 1, i + b)
    BY <2>2, SliceSame
  <2> QED
    BY <2>1, <2>3 DEF Slice
<1>9. KeysWithNext(w, r) = KeysWithNext(p, r)
  BY <1>1, <1>5, <1>7, <1>8 DEF KeysWithNext, KeyAt
<1>10. NextKey(w, r) = NextKey(p, r)
  <2>1. NextKey(p, r) = [offset |-> EndOfKey(p, r), keys |-> KeysWithNext(p, r)]
    BY NextKeyIs
  <2>2. NextKey(w, r) = [offset |-> EndOfKey(w, r), keys |-> KeysWithNext(w, r)]
    BY <1>6, NextKeyIs
  <2> QED
    BY <1>7, <1>9, <2>1, <2>2
<1> QED
  BY <1>1, <1>4, <1>6, <1>10

KeyMeanings == [t: {"ProximityKeys"}, keys: Seq(KeyRecords)]

(* n entries, one behind the other, fill p, none of 256 bytes or more.     *)
KeysLaid(p, n) ==
  /\ \A i \in 0..n : /\ 7 + 4 * i <= KeyTurn(p, i).offset
                     /\ KeyTurn(p, i).offset <= Len(p)
  /\ \A i \in 1..n : /\ Fits(p, KeyTurn(p, i - 1))
                     /\ At(p, KeyTurn(p, i - 1).offset + 1) = 0
  /\ KeyTurn(p, n).offset = Len(p)

KeysWith(p, m, n) ==
  /\ n \in Byte /\ m \in KeyMeanings
  /\ Begins(p, 4, 49) /\ p[6] = 0 /\ p[7] = n /\ 7 <= Len(p)
  /\ KeysLaid(p, n) /\ KeyTurn(p, n).keys = m.keys
  /\ \A i \in 0..n : IsPrefix(KeyTurn(p, i).keys, m.keys)

LEMMA UpToByte ==
  ASSUME NEW n \in Byte
  PROVE  /\ n \in Nat
         /\ \A i \in 0..n : i \in 0..255
         /\ \A i \in 1..n : i \in 1..255 /\ i - 1 \in 0..n /\ i - 1 \in 0..255
<1>1. n \in Nat /\ n <= 255
  BY BytesAreNumbers
<1>2. \A i \in 0..n : i \in 0..255
  BY <1>1
<1>3. \A i \in 1..n : i \in 1..255 /\ i - 1 \in 0..n
  BY <1>1
<1> QED
  BY <1>1, <1>2, <1>3

LEMMA KeyTurnsSame ==
  ASSUME NEW p \in Seq(Byte), NEW w \in Seq(Byte), NEW n \in Byte, KeysLaid(p, n),
         Len(p) <= Len(w), \A j \in 8..Len(p) : w[j] = p[j]
  PROVE  \A i \in 0..n : KeyTurn(w, i) = KeyTurn(p, i)
<1> DEFINE g == [i \in 0..n |-> IF KeyTurn(w, i) = KeyTurn(p, i) THEN 0 ELSE 1]
           R == {0}
<1>1. /\ n \in Nat /\ \A i \in 0..n : i \in 0..255
      /\ \A i \in 1..n : i \in 1..255 /\ i - 1 \in 0..n /\ i - 1 \in 0..255
  BY UpToByte
<1>2. g[0] \in R
  <2>1. KeyTurn(w, 0) = KeyTurn(p, 0) /\ 0 \in 0..n
    BY <1>1, KeyTurns
  <2> QED
    BY <2>1
<1>3. ASSUME NEW i \in 1..n, KeyTurn(w, i - 1) = KeyTurn(p, i - 1)
      PROVE  KeyTurn(w, i) = KeyTurn(p, i)
  <2> DEFINE r == KeyTurn(p, i - 1)
  <2>1. i - 1 \in 0..n /\ i \in 1..255 /\ i - 1 \in 0..255
    BY <1>1
  <2>2. KeyTurn(w, i) = NextKey(w, r) /\ KeyTurn(p, i) = NextKey(p, r) /\ r \in Progress
    BY <1>3, <2>1, KeyTurns
  <2>3. Fits(p, r) /\ 7 <= r.offset
    <3>1. 7 + 4 * (i - 1) <= r.offset /\ Fits(p, r)
      BY <2>1 DEF KeysLaid
    <3>2. PICK o \in Nat : o = r.offset
      BY <2>2 DEF Progress
    <3>3. 7 <= o
      BY <2>1, <3>1, <3>2
    <3> QED
      BY <3>1, <3>2, <3>3
  <2> HIDE DEF r
  <2> QED
    BY <2>2, <2>3, NextKeySame
<1>4. \A i \in 1..n : g[i - 1] \in R => g[i] \in R
  <2> TAKE i \in 1..n
  <2>1. i - 1 \in 0..n /\ i \in 0..n
    BY <1>1
  <2>2. g[i - 1] \in R => KeyTurn(w, i - 1) = KeyTurn(p, i - 1)
    BY <2>1
  <2> QED
    BY <1>3, <2>1, <2>2
<1>5. \A i \in 0..n : g[i] \in R
  <2> HIDE DEF g, R
  <2> QED
    BY <1>1, <1>2, <1>4, RecursionKeeps
<1> QED
  BY <1>5

LEMMA KeysBegun ==
  KeysWith(HEADER \o <<49, 0, 0>>, [t |-> "ProximityKeys", keys |-> <<>>], 0)
<1> DEFINE p == HEADER \o <<49, 0, 0>>
           m == [t |-> "ProximityKeys", keys |-> <<>>]
<1>1. Begins(p, 4, 49) /\ p[6] = 0 /\ p[7] = 0 /\ Long(p, 7)
  BY DEF Begins, HEADER, Byte, Long
<1> HIDE DEF p
<1>2. KeyTurn(p, 0) = AtFirst
  BY <1>1, KeyTurns DEF Long
<1>3. PICK l \in Nat : l = Len(p) /\ 7 <= l /\ l <= 7
  BY <1>1 DEF Long
<1>z. 0 \in Byte
  BY SmallNumbersAreBytes
<1>4. KeysLaid(p, 0)
  <2>1. 1..0 = {} /\ 0..0 = {0}
    OBVIOUS
  <2>2. AtFirst.offset = l
    BY <1>3 DEF AtFirst
  <2>3. 7 + 4 * 0 <= l /\ l <= Len(p)
    BY <1>3
  <2> QED
    BY <1>2, <1>3, <2>1, <2>2, <2>3 DEF KeysLaid
<1>5. m \in KeyMeanings
  BY DEF KeyMeanings
<1>6. KeyTurn(p, 0).keys = m.keys /\ \A i \in 0..0 : IsPrefix(KeyTurn(p, i).keys, m.keys)
  <2> DEFINE none == <<>>
  <2>1. none \in Seq(KeyRecords)
    OBVIOUS
  <2> HIDE DEF none
  <2>2. IsPrefix(none, none)
    BY <2>1, PrefixByBytes
  <2> QED
    BY <1>2, <2>2 DEF AtFirst, none
<1> HIDE DEF m
<1>7. KeysWith(p, m, 0)
  BY <1>1, <1>3, <1>z, <1>4, <1>5, <1>6 DEF KeysWith
<1> QED
  BY <1>7 DEF p, m

KeyEntry(type, data) == <<type, Len(data) \div 256, Len(data) % 256, 0>> \o data

(* e is an entry of a key of k bytes.                                      *)
IsKeyEntry(e, type, data, k) ==
  /\ data \in Seq(Byte) /\ k = Len(data)
  /\ Long(e, 4 + k) /\ e[1] = type /\ e[2] = 0 /\ e[3] = k
  /\ \A i \in 5..4 + k : e[i] = data[i - 4]

LEMMA KeyEntryBytes ==
  ASSUME NEW type \in {1, 2, 4}, NEW data \in Seq(Byte),
         NEW k \in Nat, k = Len(data), k < 256, NEW e, e = KeyEntry(type, data)
  PROVE  IsKeyEntry(e, type, data, k)
<1> DEFINE h == <<type, 0, k, 0>>
<1>1. k \div 256 = 0 /\ k % 256 = k
  OBVIOUS
<1>2. Len(data) \div 256 = 0 /\ Len(data) % 256 = k
  BY <1>1
<1>3. e = h \o data
  BY <1>2 DEF KeyEntry
<1>4. type \in Byte /\ 0 \in Byte /\ k \in Byte
  BY SmallNumbersAreBytes
<1>5. Long(h, 4) /\ h[1] = type /\ h[2] = 0 /\ h[3] = k
  BY <1>4, FourBytes
<1> HIDE DEF h
<1>6. Long(data, k)
  BY DEF Long
<1>7. IsJoin(h \o data, h, 4, data, k)
  <2>1. 4 \in Nat
    OBVIOUS
  <2> QED
    BY <1>5, <1>6, <2>1, JoinIs
<1>8. IsJoin(e, h, 4, data, k)
  BY <1>3, <1>7
<1>9. 1 \in 1..4 /\ 2 \in 1..4 /\ 3 \in 1..4 /\ 4 + 1 = 5
  OBVIOUS
<1> QED
  BY <1>5, <1>8, <1>9 DEF IsJoin, IsKeyEntry

(* Keys of other types than 1 and 4 are passed over.                       *)
WithKey(keys, type, data) ==
  IF type \in {1, 4} THEN Append(keys, [type |-> type, data |-> data]) ELSE keys

(* The entry of a key stands in w behind p, which is l bytes long.         *)
HasKey(w, p, l, type, data, k) ==
  /\ l \in Nat /\ k \in Nat
  /\ \E e : IsKeyEntry(e, type, data, k) /\ Grown(w, p, l, e, 4 + k)

(* It is the one that the loop finds at l.                                 *)
FindsKey(w, r, l, type, data, k) ==
  /\ Fits(w, r) /\ At(w, l + 1) = 0
  /\ NextKey(w, r).offset = l + 4 + k
  /\ NextKey(w, r).keys = WithKey(r.keys, type, data)

LEMMA NewKey ==
  ASSUME NEW w, NEW p, NEW l, NEW type, NEW data, NEW k, HasKey(w, p, l, type, data, k),
         NEW r, r \in Progress, r.offset = l
  PROVE  FindsKey(w, r, l, type, data, k)
<1>n. l \in Nat /\ k \in Nat
  BY DEF HasKey
<1>p. PICK e : IsKeyEntry(e, type, data, k) /\ Grown(w, p, l, e, 4 + k)
  BY DEF HasKey
<1>e. /\ data \in Seq(Byte) /\ k = Len(data)
      /\ e[1] = type /\ e[2] = 0 /\ e[3] = k
      /\ \A i \in 5..4 + k : e[i] = data[i - 4]
  BY <1>p DEF IsKeyEntry
<1>1. /\ w \in Seq(Byte) /\ l + 4 + k <= Len(w)
      /\ \A i \in l + 1..l + (4 + k) : w[i] = e[i - l]
  BY <1>n, <1>p DEF Grown, Long
<1>2. At(w, l) = type /\ At(w, l + 1) = 0 /\ At(w, l + 2) = k
  <2>1. /\ l + 1 \in l + 1..l + (4 + k) /\ (l + 1) - l = 1
        /\ (l + 1) + 1 \in l + 1..l + (4 + k) /\ ((l + 1) + 1) - l = 2
        /\ (l + 2) + 1 \in l + 1..l + (4 + k) /\ ((l + 2) + 1) - l = 3
    BY <1>n
  <2> QED
    BY <1>e, <1>1, <2>1 DEF At
<1>3. r.offset = l
  OBVIOUS
<1>4. Fits(w, r)
  <2>1. l + 4 <= Len(w)
    BY <1>n, <1>1
  <2> QED
    BY <1>1, <1>2, <1>3, <2>1 DEF Fits
<1>5. EndOfKey(w, r) = l + 4 + k
  BY <1>2, <1>3 DEF EndOfKey
<1>6. Slice(w, l + 4, l + 4 + k) = data
  <2>1. PICK i \in Nat : i = l + 4
    BY <1>n
  <2>2. ASSUME NEW j \in 1..k PROVE w[i + j] = data[j]
    <3>1. /\ i + j \in l + 1..l + (4 + k) /\ (i + j) - l = 4 + j
          /\ 4 + j \in 5..4 + k /\ (4 + j) - 4 = j
      BY <1>n, <2>1
    <3>2. w[i + j] = e[4 + j] /\ e[4 + j] = data[j]
      BY <1>n, <1>e, <1>1, <3>1
    <3> QED
      BY <3>2
  <2>3. i + k <= Len(w)
    BY <1>n, <1>1, <2>1
  <2>4. SubSeq(w, i + 1, i + k) = data
    BY <1>n, <1>e, <1>1, <2>2, <2>3, PartOf
  <2> QED
    BY <2>1, <2>4 DEF Slice
<1>7. KeyAt(w, r) = [type |-> type, data |-> data]
  BY <1>2, <1>3, <1>5, <1>6 DEF KeyAt
<1>8. KeysWithNext(w, r) = WithKey(r.keys, type, data)
  BY <1>2, <1>3, <1>7 DEF KeysWithNext, WithKey
<1>9. NextKey(w, r) = [offset |-> EndOfKey(w, r), keys |-> KeysWithNext(w, r)]
  BY <1>1, <1>3, <1>4, NextKeyIs
<1> QED
  BY <1>2, <1>4, <1>5, <1>8, <1>9 DEF FindsKey

LEMMA PrefixOfMore ==
  ASSUME NEW S, NEW s \in Seq(S), NEW t \in Seq(S), IsPrefix(s, t), NEW a \in S
  PROVE  IsPrefix(s, Append(t, a))
<1>1. Len(s) <= Len(t) /\ \A i \in 1..Len(s) : s[i] = t[i]
  BY PrefixByBytes
<1> DEFINE u == Append(t, a)
<1>2. u \in Seq(S) /\ Len(u) = Len(t) + 1 /\ \A i \in 1..Len(t) : u[i] = t[i]
  OBVIOUS
<1> HIDE DEF u
<1>3. Len(s) <= Len(u) /\ \A i \in 1..Len(s) : s[i] = u[i]
  BY <1>1, <1>2
<1>4. IsPrefix(s, u)
  BY <1>2, <1>3, PrefixByBytes
<1> QED
  BY <1>4 DEF u

(* w says what p says and the key.                                         *)
LEMMA LaidMore ==
  ASSUME NEW p \in Seq(Byte), NEW n \in Byte, n + 1 \in Byte, KeysLaid(p, n),
         NEW w \in Seq(Byte), Len(p) <= Len(w), \A i \in 0..n : KeyTurn(w, i) = KeyTurn(p, i),
         \A j \in 8..Len(p) : w[j] = p[j],
         Fits(w, KeyTurn(p, n)), At(w, Len(p) + 1) = 0,
         KeyTurn(w, n + 1).offset = Len(w), Len(p) + 4 <= Len(w)
  PROVE  KeysLaid(w, n + 1)
<1>1. /\ n \in Nat
      /\ \A i \in 0..n : i \in 0..255
      /\ \A i \in 1..n : i \in 1..255 /\ i - 1 \in 0..n /\ i - 1 \in 0..255
  BY UpToByte
<1>2. /\ \A i \in 0..n : 7 + 4 * i <= KeyTurn(p, i).offset /\ KeyTurn(p, i).offset <= Len(p)
      /\ \A i \in 1..n : Fits(p, KeyTurn(p, i - 1)) /\ At(p, KeyTurn(p, i - 1).offset + 1) = 0
      /\ KeyTurn(p, n).offset = Len(p)
  BY DEF KeysLaid
<1>3. \A i \in 0..n : KeyTurn(p, i).offset \in Nat
  BY <1>1, KeyTurns DEF Progress
<1>4. n \in 0..n /\ 7 + 4 * n <= Len(p) /\ 7 <= Len(p)
  BY <1>1, <1>2
<1>5. ASSUME NEW i \in 0..n + 1
      PROVE  7 + 4 * i <= KeyTurn(w, i).offset /\ KeyTurn(w, i).offset <= Len(w)
  <2>1. CASE i \in 0..n
    <3>1. PICK o \in Nat : o = KeyTurn(p, i).offset
      BY <1>3, <2>1
    <3>2. 7 + 4 * i <= o /\ o <= Len(p)
      BY <1>2, <2>1, <3>1
    <3> QED
      BY <2>1, <3>1, <3>2
  <2>2. CASE i = n + 1
    <3>1. 7 + 4 * i <= Len(w)
      BY <1>1, <1>4, <2>2
    <3> QED
      BY <2>2, <3>1
  <2> QED
    BY <1>1, <2>1, <2>2
<1>6. ASSUME NEW i \in 1..n + 1
      PROVE  Fits(w, KeyTurn(w, i - 1)) /\ At(w, KeyTurn(w, i - 1).offset + 1) = 0
  <2>1. CASE i \in 1..n
    <3>1. i - 1 \in 0..n /\ i - 1 \in 0..255
      BY <1>1, <2>1
    <3> DEFINE r == KeyTurn(p, i - 1)
    <3>2. r \in Progress /\ Fits(p, r) /\ At(p, r.offset + 1) = 0 /\ KeyTurn(w, i - 1) = r
      BY <1>2, <2>1, <3>1, KeyTurns
    <3>3. 7 <= r.offset
      <4>1. PICK o \in Nat : o = r.offset
        BY <1>3, <3>1
      <4>2. 7 + 4 * (i - 1) <= o
        BY <1>2, <3>1, <4>1
      <4>3. 7 <= o
        BY <3>1, <4>2
      <4> QED
        BY <4>1, <4>3
    <3> HIDE DEF r
    <3>4. Fits(w, r) /\ At(w, r.offset + 1) = At(p, r.offset + 1)
      <4>1. 1 \in 0..3
        OBVIOUS
      <4> QED
        BY <3>2, <3>3, <4>1, NextKeySame
    <3> QED
      BY <3>2, <3>4
  <2>2. CASE i = n + 1
    <3>1. i - 1 = n
      BY <1>1, <2>2
    <3> QED
      BY <1>2, <1>4, <3>1
  <2> QED
    BY <1>1, <2>1, <2>2
<1> QED
  BY <1>5, <1>6 DEF KeysLaid

MoreKeys(m, type, data) ==
  IF type \in {1, 4}
    THEN [m EXCEPT !.keys = Append(@, [type |-> type, data |-> data])] ELSE m

LEMMA KeyAdded ==
  ASSUME NEW p, NEW m, NEW n, KeysWith(p, m, n), n + 1 \in Byte,
         NEW type \in {1, 2, 4}, NEW data \in Seq(Byte), Len(data) < 256
  PROVE  KeysWith(Extended(p, KeyEntry(type, data)), MoreKeys(m, type, data), n + 1)
<1> DEFINE e == KeyEntry(type, data)
           w == Extended(p, e)
           key == [type |-> type, data |-> data]
           m2 == MoreKeys(m, type, data)
<1> HIDE DEF m2
<1>1. /\ n \in Byte /\ m \in KeyMeanings
      /\ Begins(p, 4, 49) /\ p[6] = 0 /\ p[7] = n /\ 7 <= Len(p)
      /\ KeysLaid(p, n) /\ KeyTurn(p, n).keys = m.keys
      /\ \A i \in 0..n : IsPrefix(KeyTurn(p, i).keys, m.keys)
  BY DEF KeysWith
<1>2. p \in Seq(Byte) /\ n \in Nat
  BY <1>1, UpToByte DEF Begins
<1>3. PICK l \in Nat : l = Len(p)
  BY <1>2
<1>4. PICK k \in Nat : k = Len(data) /\ k < 256
  OBVIOUS
<1>5. 7 <= l /\ Long(p, l)
  BY <1>1, <1>2, <1>3 DEF Long
<1>6. IsKeyEntry(e, type, data, k)
  BY <1>4, KeyEntryBytes
<1> HIDE DEF e
<1>7. Begins(w, 4, 49) /\ w[6] = 0 /\ w[7] = n + 1 /\ Grown(w, p, l, e, 4 + k)
  <2>1. Long(e, 4 + k) /\ 4 + k \in Nat
    BY <1>6 DEF IsKeyEntry
  <2> QED
    BY <1>1, <1>2, <1>5, <2>1, EntryAppended
<1> HIDE DEF w
<1>8. /\ w \in Seq(Byte) /\ l <= Len(w) /\ l + 4 <= Len(w) /\ Len(w) = l + 4 + k
      /\ \A j \in 8..l : w[j] = p[j]
  BY <1>7 DEF Grown, Long
<1>9. \A i \in 0..n : KeyTurn(w, i) = KeyTurn(p, i)
  BY <1>1, <1>2, <1>3, <1>8, KeyTurnsSame
<1> DEFINE r == KeyTurn(p, n)
           ks == m.keys
<1>10. ks \in Seq(KeyRecords)
  BY <1>1 DEF KeyMeanings
<1>11. r \in Progress /\ r.offset = l /\ r.keys = ks
  <2>1. r.offset = l /\ r.keys = ks
    BY <1>1, <1>3 DEF KeysLaid
  <2>2. r \in Progress
    <3>1. n \in 0..255
      BY <1>1, <1>2, UpToByte
    <3> QED
      BY <1>2, <3>1, KeyTurns
  <2> QED
    BY <2>1, <2>2
<1> HIDE DEF r, ks
<1>12. /\ Fits(w, r) /\ At(w, l + 1) = 0
       /\ NextKey(w, r).offset = l + 4 + k
       /\ NextKey(w, r).keys = WithKey(ks, type, data)
  <2>1. HasKey(w, p, l, type, data, k)
    BY <1>6, <1>7 DEF HasKey
  <2>2. FindsKey(w, r, l, type, data, k)
    BY <1>11, <2>1, NewKey
  <2> QED
    BY <1>11, <2>2 DEF FindsKey
<1>13. KeyTurn(w, n + 1) = NextKey(w, r)
  <2>1. n + 1 \in 1..255 /\ (n + 1) - 1 = n
    <3>1. n + 1 <= 255
      BY BytesAreNumbers
    <3> QED
      BY <1>2, <3>1
  <2>2. n \in 0..n
    BY <1>2
  <2>3. KeyTurn(w, n + 1) = NextKey(w, KeyTurn(w, n))
    BY <1>8, <2>1, KeyTurns
  <2> QED
    BY <1>9, <2>2, <2>3 DEF r
<1>14. ASSUME NEW s \in Seq(KeyRecords), IsPrefix(s, ks)
       PROVE  WithKey(ks, type, data) \in Seq(KeyRecords) /\ IsPrefix(s, WithKey(ks, type, data))
  <2>1. CASE type \in {1, 4}
    <3>1. key \in KeyRecords
      BY <2>1 DEF KeyRecords
    <3>2. WithKey(ks, type, data) = Append(ks, key)
      BY <2>1 DEF WithKey
    <3> HIDE DEF key
    <3>3. Append(ks, key) \in Seq(KeyRecords)
      BY <1>10, <3>1, AppendProperties
    <3> QED
      BY <1>10, <1>14, <3>1, <3>2, <3>3, PrefixOfMore
  <2>2. CASE type \notin {1, 4}
    BY <1>10, <1>14, <2>2 DEF WithKey
  <2> QED
    BY <2>1, <2>2
<1>15. m2.keys = WithKey(ks, type, data) /\ m2 \in KeyMeanings
  <2>1. m2.keys = WithKey(ks, type, data)
    BY <1>1 DEF KeyMeanings, ks, m2, MoreKeys, WithKey
  <2>2. IsPrefix(ks, ks)
    BY <1>10, PrefixByBytes
  <2>3. m2.keys \in Seq(KeyRecords)
    BY <1>10, <1>14, <2>1, <2>2
  <2>4. m2 = [t |-> "ProximityKeys", keys |-> m2.keys]
    BY <1>1 DEF KeyMeanings, m2, MoreKeys
  <2> HIDE DEF ks
  <2> QED
    BY <2>1, <2>3, <2>4 DEF KeyMeanings
<1>16. KeyTurn(w, n + 1).keys = m2.keys /\ KeyTurn(w, n + 1).offset = l + 4 + k
  BY <1>12, <1>13, <1>15
<1>17. KeysLaid(w, n + 1)
  <2>1. KeyTurn(w, n + 1).offset = Len(w)
    BY <1>8, <1>16
  <2> QED
    BY <1>1, <1>2, <1>3, <1>8, <1>9, <1>12, <2>1, LaidMore DEF r
<1>18. \A i \in 0..n + 1 : IsPrefix(KeyTurn(w, i).keys, m2.keys)
  <2> TAKE i \in 0..n + 1
  <2>1. CASE i \in 0..n
    <3>1. KeyTurn(w, i) = KeyTurn(p, i) /\ IsPrefix(KeyTurn(p, i).keys, ks)
      BY <1>1, <1>9, <2>1 DEF ks
    <3>2. KeyTurn(p, i).keys \in Seq(KeyRecords)
      BY <1>1, <1>2, <2>1, UpToByte, KeyTurns DEF Progress
    <3>3. IsPrefix(KeyTurn(p, i).keys, WithKey(ks, type, data))
      BY <1>14, <3>1, <3>2
    <3> QED
      BY <1>15, <3>1, <3>3
  <2>2. CASE i = n + 1
    <3>1. m2.keys \in Seq(KeyRecords)
      BY <1>15 DEF KeyMeanings
    <3>2. IsPrefix(m2.keys, m2.keys)
      BY <3>1, PrefixByBytes
    <3> QED
      BY <1>16, <2>2, <3>2
  <2> QED
    BY <1>2, <2>1, <2>2
<1>19. 7 <= Len(w)
  BY <1>5, <1>8
<1>20. KeysWith(w, m2, n + 1)
  BY <1>7, <1>15, <1>16, <1>17, <1>18, <1>19 DEF KeysWith
<1> QED
  BY <1>20 DEF w, e, m2

(* The loop turns as often as there are entries.                           *)
LEMMA TurnsIs ==
  ASSUME NEW p, NEW m, NEW n, KeysWith(p, m, n) PROVE Turns(p) = n
<1>1. n \in Byte /\ p \in Seq(Byte) /\ p[7] = n /\ KeysLaid(p, n)
  BY DEF KeysWith, Begins
<1>2. n \in Nat /\ n \in 0..n
  BY <1>1, UpToByte
<1>3. 7 + 4 * n <= Len(p)
  <2>1. 7 + 4 * n <= KeyTurn(p, n).offset /\ KeyTurn(p, n).offset = Len(p)
    BY <1>1, <1>2 DEF KeysLaid
  <2> QED
    BY <2>1
<1>4. PICK l \in Nat : l = Len(p)
  BY <1>1
<1>5. l \div 4 \in Nat /\ n <= l \div 4
  BY <1>2, <1>3, <1>4
<1>6. At(p, 6) = n
  BY <1>1 DEF At
<1> DEFINE S == {n, l \div 4}
<1>7. S \subseteq Nat /\ n \in S /\ \A j \in S : n <= j
  BY <1>2, <1>5
<1>8. Turns(p) = Min(S)
  BY <1>4, <1>6 DEF Turns
<1> HIDE DEF S
<1> QED
  BY <1>7, <1>8, LeastIs

LEMMA KeysAreRead ==
  ASSUME NEW p, NEW m, NEW n, KeysWith(p, m, n) PROVE ParseProximityKeys(p) = m
<1>1. p \in Seq(Byte) /\ 7 <= Len(p) /\ m \in KeyMeanings /\ KeyTurn(p, n).keys = m.keys
  BY DEF KeysWith, Begins
<1>2. ParseProximityKeys(p) = [t |-> "ProximityKeys", keys |-> KeysRead(p)[Turns(p)].keys]
  <2>1. ~(Len(p) < 7)
    BY <1>1
  <2> QED
    BY <2>1 DEF ParseProximityKeys
<1>3. KeysRead(p)[Turns(p)].keys = m.keys
  BY <1>1, TurnsIs DEF KeyTurn
<1> QED
  BY <1>1, <1>2, <1>3 DEF KeyMeanings

(* Of the beginning of a response the loop reads the first keys.           *)
LEMMA CutTurns ==
  ASSUME NEW p, NEW m, NEW n, KeysWith(p, m, n),
         NEW q, Beginning(q, p), Len(q) < Len(p)
  PROVE  \A i \in 0..n : \E j \in 0..n : KeyTurn(q, i) = KeyTurn(p, j)
<1> DEFINE Reached(i) == \E j \in 0..n : KeyTurn(q, i) = KeyTurn(p, j)
           g == [i \in 0..n |-> IF Reached(i) THEN 0 ELSE 1]
           R == {0}
<1>1. n \in Byte /\ p \in Seq(Byte) /\ KeysLaid(p, n)
  BY DEF KeysWith, Begins
<1>2. /\ n \in Nat /\ \A i \in 0..n : i \in 0..255
      /\ \A i \in 1..n : i \in 1..255 /\ i - 1 \in 0..n /\ i - 1 \in 0..255
  BY <1>1, UpToByte
<1>3. q \in Seq(Byte) /\ Len(q) <= Len(p) /\ \A i \in 1..Len(q) : q[i] = p[i]
  BY DEF Beginning
<1>4. Reached(0)
  BY <1>1, <1>2, <1>3, KeyTurns
<1>5. ASSUME NEW i \in 1..n, Reached(i - 1) PROVE Reached(i)
  <2>1. PICK j \in 0..n : KeyTurn(q, i - 1) = KeyTurn(p, j)
    BY <1>5
  <2> DEFINE r == KeyTurn(p, j)
  <2>2. r \in Progress /\ j \in 0..255
    BY <1>1, <1>2, KeyTurns
  <2>3. KeyTurn(q, i) = NextKey(q, r)
    BY <1>2, <1>3, <2>1, KeyTurns
  <2>4. PICK o \in Nat : o = r.offset
    BY <2>2 DEF Progress
  <2>5. 7 <= o
    <3>1. 7 + 4 * j <= o
      BY <1>1, <2>4 DEF KeysLaid
    <3> QED
      BY <2>2, <3>1
  <2> HIDE DEF r
  <2>6. CASE Fits(q, r)
    <3>1. j # n
      <4>1. o + 4 <= Len(q)
        BY <2>4, <2>6 DEF Fits
      <4>2. j = n => o = Len(p)
        BY <1>1, <2>4 DEF KeysLaid, r
      <4> QED
        BY <1>1, <1>3, <4>1, <4>2
    <3>2. j + 1 \in 1..n /\ j + 1 \in 0..n /\ (j + 1) - 1 = j
      BY <1>2, <3>1
    <3>3. NextKey(p, r) = NextKey(q, r)
      <4>1. \A k \in 8..Len(q) : p[k] = q[k]
        BY <1>3
      <4> QED
        BY <1>1, <1>3, <2>2, <2>4, <2>5, <2>6, <4>1, NextKeySame
    <3>4. KeyTurn(p, j + 1) = NextKey(p, r)
      BY <1>1, <1>2, <3>2, KeyTurns DEF r
    <3> QED
      BY <2>3, <3>2, <3>3, <3>4
  <2>7. CASE ~Fits(q, r)
    <3>1. NextKey(q, r) = r
      BY <1>3, <2>2, <2>7, NextKeyIs
    <3> QED
      BY <2>3, <3>1 DEF r
  <2> QED
    BY <2>6, <2>7
<1> HIDE DEF Reached
<1>6. g[0] \in R
  BY <1>2, <1>4
<1>7. \A i \in 1..n : g[i - 1] \in R => g[i] \in R
  <2> TAKE i \in 1..n
  <2>1. i - 1 \in 0..n /\ i \in 0..n
    BY <1>2
  <2>2. g[i - 1] \in R => Reached(i - 1)
    BY <2>1
  <2> QED
    BY <1>5, <2>1, <2>2
<1>8. \A i \in 0..n : g[i] \in R
  <2> HIDE DEF g, R
  <2> QED
    BY <1>2, <1>6, <1>7, RecursionKeeps
<1>9. \A i \in 0..n : Reached(i)
  BY <1>8
<1> QED
  BY <1>9 DEF Reached

LEMMA CutKeys ==
  ASSUME NEW p, NEW m, NEW n, KeysWith(p, m, n),
         NEW q, Beginning(q, p), Len(q) < Len(p), 7 <= Len(q)
  PROVE  SaysNoMore(ParseProximityKeys(q), m)
<1>1. /\ n \in Byte /\ p \in Seq(Byte) /\ p[7] = n /\ m \in KeyMeanings
      /\ \A i \in 0..n : IsPrefix(KeyTurn(p, i).keys, m.keys)
  BY DEF KeysWith, Begins
<1>2. q \in Seq(Byte) /\ q[7] = p[7]
  BY DEF Beginning
<1>3. n \in Nat /\ At(q, 6) = n
  BY <1>1, <1>2, UpToByte DEF At
<1>4. Turns(q) \in 0..n
  <2>1. PICK l \in Nat : l = Len(q) \div 4
    BY <1>2
  <2> DEFINE S == {n, l}
  <2>2. Turns(q) = Min(S)
    BY <1>3, <2>1 DEF Turns
  <2>3. S \subseteq Nat /\ S # {} /\ n \in S
    BY <1>3
  <2> HIDE DEF S
  <2>4. Min(S) \in Nat /\ Min(S) <= n
    BY <2>3, MinOfNaturals
  <2> QED
    BY <1>3, <2>2, <2>4
<1>5. PICK j \in 0..n : KeyTurn(q, Turns(q)) = KeyTurn(p, j)
  BY <1>4, CutTurns
<1> DEFINE keys == KeysRead(q)[Turns(q)].keys
<1>6. IsPrefix(keys, m.keys)
  BY <1>1, <1>5 DEF KeyTurn
<1>7. ParseProximityKeys(q) = [t |-> "ProximityKeys", keys |-> keys]
  <2>1. ~(Len(q) < 7)
    BY <1>2
  <2> QED
    BY <2>1 DEF ParseProximityKeys
<1> HIDE DEF keys
<1>8. m.t = "ProximityKeys"
  BY <1>1 DEF KeyMeanings
<1> QED
  BY <1>6, <1>7, <1>8 DEF SaysNoMore

(* The key at r is as long as its length byte says.                        *)
LEMMA KeyLength ==
  ASSUME NEW p \in Seq(Byte), NEW r \in Progress, Fits(p, r)
  PROVE  Len(KeyAt(p, r).data) = At(p, r.offset + 2)
<1>1. PICK o \in Nat : o = r.offset
  BY DEF Progress
<1>2. PICK b \in Nat : b = At(p, o + 2)
  BY <1>1, NextKeyIs, BytesAreNumbers
<1>3. PICK i \in Nat : i = o + 4
  OBVIOUS
<1>4. i + b <= Len(p)
  BY <1>1, <1>2, <1>3 DEF Fits
<1> DEFINE d == SubSeq(p, i + 1, i + b)
<1>5. Len(d) = b
  BY <1>4, PartAt
<1>6. KeyAt(p, r).data = d
  BY <1>1, <1>2, <1>3 DEF KeyAt, EndOfKey, Slice
<1> HIDE DEF d
<1> QED
  BY <1>1, <1>2, <1>5, <1>6

(* A turn reads one key or none.                                           *)
LEMMA OneKeyRead ==
  ASSUME NEW p \in Seq(Byte), NEW r \in Progress, Fits(p, r)
  PROVE  \/ NextKey(p, r).keys = r.keys
         \/ /\ NextKey(p, r).keys = Append(r.keys, KeyAt(p, r))
            /\ KeyAt(p, r) \in KeyRecords
<1>1. NextKey(p, r).keys = KeysWithNext(p, r) /\ NextKey(p, r) \in Progress
  BY NextKeyIs, NextKeyType
<1>2. CASE At(p, r.offset) \in {1, 4}
  <2>1. PICK o \in Nat : o = r.offset
    BY DEF Progress
  <2>2. PICK b \in Nat : b = At(p, o + 2)
    BY <2>1, NextKeyIs, BytesAreNumbers
  <2>3. PICK i \in Nat : i = o + 4
    OBVIOUS
  <2>4. i + b <= Len(p)
    BY <2>1, <2>2, <2>3 DEF Fits
  <2>5. SubSeq(p, i + 1, i + b) \in Seq(Byte)
    BY <2>4, PartAt
  <2>6. Slice(p, o + 4, EndOfKey(p, r)) \in Seq(Byte)
    BY <2>1, <2>2, <2>3, <2>5 DEF EndOfKey, Slice
  <2>7. KeyAt(p, r) \in KeyRecords
    BY <1>2, <2>1, <2>6 DEF KeyAt, KeyRecords
  <2> QED
    BY <1>1, <1>2, <2>7 DEF KeysWithNext
<1>3. CASE At(p, r.offset) \notin {1, 4}
  BY <1>1, <1>3 DEF KeysWithNext
<1> QED
  BY <1>2, <1>3

(* p is a response with the two keys that a cloud response has.            *)
CloudKeys(p) ==
  <<[type |-> 1, data |-> Slice(p, 11, 27)], [type |-> 4, data |-> Slice(p, 31, 47)]>>

LEMMA TwoLong ==
  ASSUME NEW S, NEW s \in Seq(S), NEW a, NEW b, DOMAIN [i \in DOMAIN s |-> 0] = DOMAIN <<a, b>>
  PROVE  2 <= Len(s) /\ Len(s) <= 2 /\ 1 \in DOMAIN s /\ 2 \in DOMAIN s
<1>1. DOMAIN s = {1, 2}
  OBVIOUS
<1>2. PICK n \in Nat : n = Len(s) /\ 1..n = {1, 2}
  BY <1>1
<1>3. n = 2
  <2>1. n \in 1..n \/ n = 0
    OBVIOUS
  <2>2. 2 \in 1..n
    BY <1>2
  <2> QED
    BY <1>2, <2>1, <2>2
<1> QED
  BY <1>1, <1>2, <1>3

(* t is s and one more element.                                            *)
OneMore(S, t, s, e) ==
  /\ t \in Seq(S) /\ Len(t) = Len(s) + 1
  /\ \A i \in 1..Len(s) : t[i] = s[i]
  /\ t[Len(s) + 1] = e

LEMMA AppendIsOneMore ==
  ASSUME NEW S, NEW s \in Seq(S), NEW e \in S PROVE OneMore(S, Append(s, e), s, e)
BY AppendProperties DEF OneMore

LEMMA PairIs ==
  ASSUME NEW S, NEW s \in Seq(S), 2 <= Len(s), Len(s) <= 2
  PROVE  s = <<s[1], s[2]>>
<1> DEFINE u == <<s[1], s[2]>>
<1>1. s[1] \in S /\ s[2] \in S
  OBVIOUS
<1>2. u \in Seq(S) /\ 2 <= Len(u) /\ Len(u) <= 2 /\ u[1] = s[1] /\ u[2] = s[2]
  BY <1>1
<1> HIDE DEF u
<1>3. Len(s) = Len(u) /\ \A i \in 1..Len(s) : i \in {1, 2}
  BY <1>2
<1>4. s = u
  BY <1>2, <1>3, SeqEqual
<1> QED
  BY <1>4 DEF u

LEMMA FirstTwo ==
  ASSUME NEW S, NEW a, NEW b, NEW s \in Seq(S), NEW l \in Nat, l = Len(s), l = 2,
         NEW s0 \in Seq(S), NEW l0 \in Nat, l0 = Len(s0), l0 = 0,
         NEW s1 \in Seq(S), s1 = s0 \/ OneMore(S, s1, s0, a),
         s = s1 \/ OneMore(S, s, s1, b)
  PROVE  s = <<a, b>>
<1>1. PICK l1 \in Nat : l1 = Len(s1)
  OBVIOUS
<1>2. /\ l1 = l0 \/ l1 = l0 + 1
      /\ l = l1 \/ l = l1 + 1
  BY <1>1 DEF OneMore
<1>3. l1 = 1
  BY <1>2
<1>4. OneMore(S, s1, s0, a) /\ OneMore(S, s, s1, b)
  <2>1. (s1 = s0 => l1 = l0) /\ (s = s1 => l = l1)
    BY <1>1
  <2>2. s1 # s0 /\ s # s1
    BY <1>3, <2>1
  <2> QED
    BY <2>2
<1>5. l0 + 1 = 1 /\ l1 + 1 = 2 /\ 1 \in 1..l1
  BY <1>3
<1>6. s1[1] = a /\ s[2] = b /\ s[1] = s1[1]
  BY <1>1, <1>4, <1>5 DEF OneMore
<1>7. s = <<s[1], s[2]>>
  <2>1. 2 <= Len(s) /\ Len(s) <= 2
    OBVIOUS
  <2> QED
    BY <2>1, PairIs
<1> QED
  BY <1>6, <1>7

(* A first key of 16 bytes and type 1, a second of 16 bytes and type 4.    *)
IsCloudResponse(p) ==
  /\ Long(p, 47)
  /\ At(p, 7) = 1 /\ At(p, 8) = 0 /\ At(p, 9) = 16
  /\ At(p, 27) = 4 /\ At(p, 28) = 0 /\ At(p, 29) = 16

LEMMA CloudKeysLaid ==
  ASSUME NEW p, NEW m, KeysWith(p, m, 2), ~OtherTwoKeys(p, m)
  PROVE  IsCloudResponse(p) /\ m.keys = CloudKeys(p)
<1> DEFINE r0 == KeyTurn(p, 0)
           r1 == KeyTurn(p, 1)
           r2 == KeyTurn(p, 2)
           ks == m.keys
           k0 == KeyAt(p, r0)
           k1 == KeyAt(p, r1)
<1>1. /\ p \in Seq(Byte) /\ m \in KeyMeanings /\ KeysLaid(p, 2) /\ r2.keys = ks
      /\ Begins(p, 4, 49) /\ p[6] = 0 /\ p[7] = 2 /\ 7 <= Len(p)
  BY DEF KeysWith, Begins
<1>2. /\ Fits(p, r0) /\ At(p, r0.offset + 1) = 0
      /\ Fits(p, r1) /\ At(p, r1.offset + 1) = 0
      /\ r2.offset = Len(p)
  <2>1. 1 \in 1..2 /\ 2 \in 1..2 /\ 1 - 1 = 0 /\ 2 - 1 = 1
    OBVIOUS
  <2> QED
    BY <1>1, <2>1 DEF KeysLaid
<1>3. /\ r0 = AtFirst /\ r1 = NextKey(p, r0) /\ r2 = NextKey(p, r1)
      /\ r0 \in Progress /\ r1 \in Progress
  <2>1. /\ 1 \in 1..255 /\ 2 \in 1..255 /\ 1 - 1 = 0 /\ 2 - 1 = 1
        /\ 0 \in 0..255 /\ 1 \in 0..255
    OBVIOUS
  <2> QED
    BY <1>1, <2>1, KeyTurns
<1>4. ks \in Seq(KeyRecords)
  BY <1>1 DEF KeyMeanings
<1>5. StartsWith(p, MAGIC_CLOUD_KEYS_HEADER)
  BY <1>1, BeginsWith
<1>6. /\ [i \in DOMAIN ks |-> ks[i].type] = <<1, 4>>
      /\ \A i \in DOMAIN ks : Len(ks[i].data) = 16
  BY <1>5 DEF OtherTwoKeys
<1>7. 2 <= Len(ks) /\ Len(ks) <= 2 /\ 1 \in DOMAIN ks /\ 2 \in DOMAIN ks
  <2>1. DOMAIN [i \in DOMAIN ks |-> ks[i].type] = DOMAIN [i \in DOMAIN ks |-> 0]
    OBVIOUS
  <2>2. DOMAIN [i \in DOMAIN ks |-> 0] = DOMAIN <<1, 4>>
    BY <1>6, <2>1
  <2> HIDE DEF ks
  <2> QED
    BY <1>4, <2>2, TwoLong
<1>8. /\ ks[1].type = 1 /\ Len(ks[1].data) = 16
      /\ ks[2].type = 4 /\ Len(ks[2].data) = 16
  BY <1>6, <1>7
<1>9. ks = <<k0, k1>>
  <2> DEFINE s0 == r0.keys
             s1 == r1.keys
  <2>1. /\ s1 = s0 \/ (s1 = Append(s0, k0) /\ k0 \in KeyRecords)
        /\ ks = s1 \/ (ks = Append(s1, k1) /\ k1 \in KeyRecords)
    BY <1>1, <1>2, <1>3, OneKeyRead
  <2>2. s0 \in Seq(KeyRecords) /\ s1 \in Seq(KeyRecords)
    BY <1>3 DEF Progress
  <2>3. PICK l0 \in Nat : l0 = Len(s0) /\ l0 = 0
    <3>1. s0 = <<>>
      BY <1>3 DEF AtFirst
    <3> QED
      BY <3>1
  <2>4. PICK l \in Nat : l = Len(ks) /\ l = 2
    BY <1>4, <1>7
  <2> HIDE DEF s0, s1, ks, k0, k1
  <2>5. /\ s1 = s0 \/ OneMore(KeyRecords, s1, s0, k0)
        /\ ks = s1 \/ OneMore(KeyRecords, ks, s1, k1)
    BY <2>1, <2>2, AppendIsOneMore
  <2> QED
    BY <1>4, <2>2, <2>3, <2>4, <2>5, FirstTwo
<1>10. k0.type = 1 /\ Len(k0.data) = 16 /\ k1.type = 4 /\ Len(k1.data) = 16
  <2> HIDE DEF ks, k0, k1
  <2> QED
    BY <1>8, <1>9
<1>11. /\ At(p, r0.offset) = 1 /\ At(p, r0.offset + 2) = 16
       /\ At(p, r1.offset) = 4 /\ At(p, r1.offset + 2) = 16
  <2>1. /\ Len(k0.data) = At(p, r0.offset + 2)
        /\ Len(k1.data) = At(p, r1.offset + 2)
    BY <1>1, <1>2, <1>3, KeyLength
  <2>2. k0.type = At(p, r0.offset) /\ k1.type = At(p, r1.offset)
    BY DEF KeyAt
  <2> HIDE DEF k0, k1
  <2> QED
    BY <1>10, <2>1, <2>2
<1>12. r1.offset = EndOfKey(p, r0) /\ r2.offset = EndOfKey(p, r1)
  BY <1>1, <1>2, <1>3, NextKeyIs
<1>13. r0.offset = 7
  BY <1>3 DEF AtFirst
<1>14. r1.offset = 27
  <2>1. EndOfKey(p, r0) = 7 + 4 + 16
    BY <1>11, <1>13 DEF EndOfKey
  <2> QED
    BY <1>12, <2>1
<1>15. r2.offset = 47
  <2>1. EndOfKey(p, r1) = 27 + 4 + 16
    BY <1>11, <1>14 DEF EndOfKey
  <2> QED
    BY <1>12, <2>1
<1>16. IsCloudResponse(p)
  <2>1. Long(p, 47)
    BY <1>1, <1>2, <1>15 DEF Long
  <2>2. 7 + 1 = 8 /\ 7 + 2 = 9 /\ 27 + 1 = 28 /\ 27 + 2 = 29
    OBVIOUS
  <2> HIDE DEF r0, r1
  <2> QED
    BY <1>2, <1>11, <1>13, <1>14, <2>1, <2>2 DEF IsCloudResponse
<1>17. /\ k0 = [type |-> 1, data |-> Slice(p, 11, 27)]
       /\ k1 = [type |-> 4, data |-> Slice(p, 31, 47)]
  <2>1. r0.offset + 4 = 11 /\ r1.offset + 4 = 31
    BY <1>13, <1>14
  <2>2. EndOfKey(p, r0) = 27 /\ EndOfKey(p, r1) = 47
    BY <1>12, <1>14, <1>15
  <2> HIDE DEF r0, r1
  <2> QED
    BY <1>11, <2>1, <2>2 DEF KeyAt
<1> QED
  BY <1>9, <1>16, <1>17 DEF CloudKeys

LEMMA CloudKeysRead ==
  ASSUME NEW p, IsCloudResponse(p)
  PROVE  ParseMagicCloudKeys(p) =
           [t |-> "MagicCloudKeys", irk |-> Slice(p, 11, 27), encKey |-> Slice(p, 31, 47)]
<1>1. ~(Len(p) < 47)
  BY DEF IsCloudResponse, Long
<1>2. At(p, 7) = 1 /\ At(p, 7 + 1) = 0 /\ At(p, 7 + 2) = 16
  BY DEF IsCloudResponse
<1>3. At(p, 27) = 4 /\ At(p, 27 + 1) = 0 /\ At(p, 27 + 2) = 16
  BY DEF IsCloudResponse
<1>4. IsTlv(p, 7, 1) /\ IsTlv(p, 27, 4)
  BY <1>2, <1>3 DEF IsTlv
<1> QED
  BY <1>1, <1>4 DEF ParseMagicCloudKeys, Reading

LEMMA CloudKeysEnd ==
  ASSUME NEW p, NEW m, KeysWith(p, m, 2), At(p, 9) = 16, At(p, 29) = 16
  PROVE  Long(p, 47)
<1> DEFINE r0 == KeyTurn(p, 0)
           r1 == KeyTurn(p, 1)
           r2 == KeyTurn(p, 2)
<1>1. p \in Seq(Byte) /\ KeysLaid(p, 2)
  BY DEF KeysWith, Begins
<1>2. Fits(p, r0) /\ Fits(p, r1) /\ r2.offset = Len(p)
  <2>1. 1 \in 1..2 /\ 2 \in 1..2 /\ 1 - 1 = 0 /\ 2 - 1 = 1
    OBVIOUS
  <2> QED
    BY <1>1, <2>1 DEF KeysLaid
<1>3. /\ r0 = AtFirst /\ r1 = NextKey(p, r0) /\ r2 = NextKey(p, r1)
      /\ r0 \in Progress /\ r1 \in Progress
  <2>1. /\ 1 \in 1..255 /\ 2 \in 1..255 /\ 1 - 1 = 0 /\ 2 - 1 = 1
        /\ 0 \in 0..255 /\ 1 \in 0..255
    OBVIOUS
  <2> QED
    BY <1>1, <2>1, KeyTurns
<1>4. r1.offset = EndOfKey(p, r0) /\ r2.offset = EndOfKey(p, r1)
  BY <1>1, <1>2, <1>3, NextKeyIs
<1>5. r0.offset = 7
  BY <1>3 DEF AtFirst
<1>6. r1.offset = 27
  <2>1. EndOfKey(p, r0) = 7 + 4 + 16
    BY <1>5 DEF EndOfKey
  <2> QED
    BY <1>4, <2>1
<1>7. r2.offset = 47
  <2>1. EndOfKey(p, r1) = 27 + 4 + 16
    BY <1>6 DEF EndOfKey
  <2> QED
    BY <1>4, <2>1
<1> QED
  BY <1>1, <1>2, <1>7 DEF Long

(* Of a response of two keys nothing is read unless both are there.        *)
LEMMA CutCloudKeys ==
  ASSUME NEW p, NEW m, KeysWith(p, m, 2),
         NEW q, Beginning(q, p), Len(q) < Len(p)
  PROVE  ParseMagicCloudKeys(q) = ParseError
<1>1. CASE Len(q) < 47 \/ ~IsTlv(q, 7, 1) \/ ~IsTlv(q, 27, 4)
  BY <1>1 DEF ParseMagicCloudKeys
<1>2. CASE ~(Len(q) < 47) /\ IsTlv(q, 7, 1) /\ IsTlv(q, 27, 4)
  <2>1. p \in Seq(Byte) /\ q \in Seq(Byte) /\ 47 <= Len(q)
    BY <1>2 DEF KeysWith, Begins, Beginning
  <2>2. \A i \in 0..46 : At(q, i) = At(p, i) /\ At(q, i) \in Nat
    <3> TAKE i \in 0..46
    <3>1. i + 1 \in 1..Len(q) /\ i \in Nat /\ i < Len(q)
      BY <2>1
    <3> QED
      BY <2>1, <3>1, AtType, BytesAreNumbers DEF Beginning, At
  <2>3. At(p, 9) = 16
    <3>1. 256 * At(q, 8) + At(q, 9) = 16
      <4>1. 7 + 1 = 8 /\ 7 + 2 = 9
        OBVIOUS
      <4> QED
        BY <1>2, <4>1 DEF IsTlv
    <3>2. PICK hi \in Nat, lo \in Nat : hi = At(q, 8) /\ lo = At(q, 9)
      <4>1. 8 \in 0..46 /\ 9 \in 0..46
        OBVIOUS
      <4> QED
        BY <2>2, <4>1
    <3>3. lo = 16
      BY <3>1, <3>2
    <3>4. 9 \in 0..46
      OBVIOUS
    <3> QED
      BY <2>2, <3>2, <3>3, <3>4
  <2>4. At(p, 29) = 16
    <3>1. 256 * At(q, 28) + At(q, 29) = 16
      <4>1. 27 + 1 = 28 /\ 27 + 2 = 29
        OBVIOUS
      <4> QED
        BY <1>2, <4>1 DEF IsTlv
    <3>2. PICK hi \in Nat, lo \in Nat : hi = At(q, 28) /\ lo = At(q, 29)
      <4>1. 28 \in 0..46 /\ 29 \in 0..46
        OBVIOUS
      <4> QED
        BY <2>2, <4>1
    <3>3. lo = 16
      BY <3>1, <3>2
    <3>4. 29 \in 0..46
      OBVIOUS
    <3> QED
      BY <2>2, <3>2, <3>3, <3>4
  <2>5. Len(p) <= 47
    BY <2>3, <2>4, CloudKeysEnd DEF Long
  <2> QED
    BY <2>1, <2>5
<1> QED
  BY <1>1, <1>2

LEMMA KeysUnderstood ==
  ASSUME NEW p, NEW m, NEW n, KeysWith(p, m, n), ~OtherTwoKeys(p, m)
  PROVE  Understand(p) = m
<1>1. /\ Begins(p, 4, 49) /\ p[6] = 0 /\ p[7] = n /\ 7 <= Len(p)
      /\ m \in KeyMeanings
  BY DEF KeysWith
<1>2. CASE n = 2
  <2>1. IsCloudResponse(p) /\ m.keys = CloudKeys(p)
    BY <1>2, CloudKeysLaid
  <2>2. Parse(p) = [t |-> "MagicCloudKeys", irk |-> Slice(p, 11, 27),
                    encKey |-> Slice(p, 31, 47)]
    BY <1>1, <1>2, <2>1, ParseDispatches, CloudKeysRead
  <2> DEFINE irk == Slice(p, 11, 27)
             encKey == Slice(p, 31, 47)
             r == Parse(p)
  <2>3. Understand(p) = [t |-> "ProximityKeys", keys |-> CloudKeys(p)]
    <3>1. r.t = "MagicCloudKeys" /\ r.irk = irk /\ r.encKey = encKey
      BY <2>2
    <3>2. Understand(p) = [t |-> "ProximityKeys",
                           keys |-> <<[type |-> 1, data |-> r.irk],
                                      [type |-> 4, data |-> r.encKey]>>]
      <4>1. r.t # "ControlCommand" /\ r # Unknown
        BY <3>1 DEF Unknown
      <4> HIDE DEF r
      <4>2. r = Parse(p)
        BY DEF r
      <4> QED
        BY <3>1, <4>1, <4>2 DEF Understand
    <3> HIDE DEF r
    <3> QED
      BY <3>1, <3>2 DEF CloudKeys
  <2>4. m = [t |-> "ProximityKeys", keys |-> m.keys]
    BY <1>1 DEF KeyMeanings
  <2> QED
    BY <2>1, <2>3, <2>4
<1>3. CASE n # 2
  <2>1. Parse(p) = ParseProximityKeys(p)
    BY <1>1, <1>3, ParseDispatches
  <2>2. Parse(p) = m
    BY <2>1, KeysAreRead
  <2>3. m.t = "ProximityKeys"
    BY <1>1 DEF KeyMeanings
  <2>4. m # Unknown
    BY <2>3 DEF Unknown
  <2> QED
    BY <2>2, <2>3, <2>4 DEF Understand
<1> QED
  BY <1>2, <1>3

LEMMA KeysSent ==
  ASSUME NEW p, NEW m, NEW n, KeysWith(p, m, n)
  PROVE  Sent(p, m)
<1>1. /\ Begins(p, 4, 49) /\ p[6] = 0 /\ p[7] = n /\ 7 <= Len(p)
      /\ m \in KeyMeanings
  BY DEF KeysWith
<1>2. m.t = "ProximityKeys"
  BY <1>1 DEF KeyMeanings
<1>3. m # Nothing
  BY <1>2 DEF Nothing
<1>4. Intended(m) = m
  BY <1>2 DEF Intended
<1>5. ASSUME NEW q, Beginning(q, p), Len(q) < Len(p) PROVE SaysNoMore(Parse(q), m)
  <2>1. CASE Begins(q, 4, 49) /\ Len(q) < 7
    <3>1. Parse(q) = ParseProximityKeys(q)
      <4>1. ~(Len(q) >= 7)
        BY <2>1 DEF Begins
      <4> QED
        BY <2>1, <4>1, ParseDispatches
    <3>2. Parse(q) = ParseError
      BY <2>1, <3>1 DEF ParseProximityKeys
    <3> QED
      BY <3>2 DEF SaysNoMore, ParseError
  <2>2. CASE Begins(q, 4, 49) /\ Len(q) >= 7
    <3>1. q[6] = 0 /\ q[7] = n
      BY <1>1, <1>5, <2>2 DEF Begins, Beginning
    <3>2. CASE n = 2
      <4>1. Parse(q) = ParseMagicCloudKeys(q)
        BY <2>2, <3>1, <3>2, ParseDispatches
      <4>2. Parse(q) = ParseError
        BY <1>5, <3>2, <4>1, CutCloudKeys
      <4> QED
        BY <4>2 DEF SaysNoMore, ParseError
    <3>3. CASE n # 2
      <4>1. Parse(q) = ParseProximityKeys(q)
        BY <2>2, <3>1, <3>3, ParseDispatches
      <4>2. 7 <= Len(q)
        BY <2>2 DEF Begins
      <4> QED
        BY <1>5, <4>1, <4>2, CutKeys
    <3> QED
      BY <3>2, <3>3
  <2>3. CASE Parse(q) = ParseError
    BY <2>3 DEF SaysNoMore, ParseError
  <2>4. Begins(q, 4, 49) => Len(q) < 7 \/ Len(q) >= 7
    BY DEF Begins
  <2> QED
    BY <1>1, <1>5, <2>1, <2>2, <2>3, <2>4, BeginningOfPacket
<1>6. ~OtherTwoKeys(p, m) => Understand(p) = Intended(m)
  BY <1>4, KeysUnderstood
<1>7. p \in Seq(Byte) /\ Len(p) >= 6 /\ p[3] = 4 /\ p[5] = 49
  BY <1>1 DEF Begins
<1> QED
  BY <1>2, <1>3, <1>5, <1>6, <1>7 DEF Sent

-----------------------------------------------------------------------------
(* The inductive invariant.                                                *)

(* What parse takes for sensor data, the receive loop reads as such.       *)
Tracks(p) == Len(p) >= 70 /\ p[5] = 23 => IsHeadTrackingData(p)

(* Beside what is true of every packet that is sent, the entries of one    *)
(* that may get more of them say what is meant so far.                     *)
Whole(p, m) ==
  /\ Sent(p, m)
  /\ m.t = "Battery" => \E n : BatteryWith(p, m, n)
  /\ m.t = "ProximityKeys" => \E n : KeysWith(p, m, n)

WireInv ==
  /\ packet \in Seq(Byte)
  /\ fault \in {"none", "cut", "odd"}
  /\ meant = Nothing => packet = <<>> /\ fault = "none"
  /\ meant # Nothing /\ fault = "none" => Whole(packet, meant)
  /\ fault = "cut" => \A q : Beginning(q, packet) => SaysNoMore(Parse(q), meant)
  /\ fault # "odd" => Tracks(packet)

LEMMA TracksStill ==
  ASSUME NEW p \in Seq(Byte), NEW q, Beginning(q, p), Tracks(p)
  PROVE  Tracks(q)
<1> SUFFICES ASSUME Len(q) >= 70, q[5] = 23 PROVE IsHeadTrackingData(q)
  BY DEF Tracks
<1>1. q \in Seq(Byte) /\ Len(q) <= Len(p) /\ \A i \in 1..Len(q) : q[i] = p[i]
  BY DEF Beginning
<1>2. \A i \in 1..12 : q[i] = p[i]
  <2>1. \A i \in 1..12 : i \in 1..Len(q)
    BY <1>1
  <2> QED
    BY <1>1, <2>1
<1>3. Len(p) >= 70 /\ p[5] = 23
  <2>1. 5 \in 1..12
    OBVIOUS
  <2>2. p[5] = 23
    BY <1>2, <2>1
  <2>3. Len(p) >= 70
    BY <1>1
  <2> QED
    BY <2>2, <2>3
<1>4. IsHeadTrackingData(p)
  BY <1>3 DEF Tracks
<1> DEFINE h == HEADER \o <<23, 0, 0, 0, 16, 0>>
<1>5. Long(h, 10)
  BY DEF HEADER, Byte, Long
<1>6. IsPrefix(h, p) /\ At(p, 10) \in {68, 69} /\ At(p, 11) = 0
  BY <1>4 DEF IsHeadTrackingData, StartsWith
<1> HIDE DEF h
<1>7. \A i \in 1..Len(h) : h[i] = p[i] /\ i \in 1..12
  BY <1>5, <1>6, PrefixByBytes DEF Long
<1>8. Len(h) <= Len(q)
  BY <1>1, <1>5 DEF Long
<1>9. IsPrefix(h, q)
  BY <1>1, <1>2, <1>5, <1>7, <1>8, PrefixByBytes DEF Long
<1>10. At(q, 10) \in {68, 69} /\ At(q, 11) = 0
  <2>1. 10 + 1 \in 1..12 /\ 11 + 1 \in 1..12
    OBVIOUS
  <2> QED
    BY <1>2, <1>6, <2>1 DEF At
<1>11. Len(q) > 60
  BY <1>1
<1> QED
  BY <1>9, <1>10, <1>11 DEF IsHeadTrackingData, StartsWith, h

LEMMA SentIsWhole ==
  ASSUME NEW p, NEW m, Sent(p, m), m.t \notin {"Battery", "ProximityKeys"}
  PROVE  Whole(p, m)
BY DEF Whole

LEMMA WholeKeeps ==
  ASSUME NEW p, NEW m, Whole(p, m), fault = "none",
         packet' = p, meant' = m, fault' = fault
  PROVE  WireInv'
<1>1. p \in Seq(Byte) /\ m # Nothing /\ Tracks(p)
  BY DEF Whole, Sent, Tracks
<1> QED
  BY <1>1 DEF WireInv

LEMMA SaysKeeps ==
  ASSUME WireInv, NEW p, NEW m, Says(p, m), Whole(p, m)
  PROVE  WireInv'
BY WholeKeeps DEF Says, WireInv

LEMMA FieldsOfMeanings ==
  ASSUME NEW m, m.t \in {"Battery", "ProximityKeys"} PROVE m # Nothing
BY DEF Nothing

LEMMA AddReadingKeeps ==
  ASSUME WireInv, NEW c \in Components, NEW level \in Byte, NEW status \in DOMAIN StatusByte,
         AddReading(c, level, status)
  PROVE  WireInv'
<1> DEFINE e == <<ComponentByte[c], 1, level, StatusByte[status], 1>>
           said == [meant EXCEPT ![Field[c]] = [level |-> level, status |-> status]]
           listed == {d \in Components : Listed(d)}
           m2 == IF c = "Case" \/ "Left" \in listed \/ "Right" \in listed
                   THEN said ELSE [said EXCEPT !.primary = c]
<1>1. fault = "none" /\ meant.t = "Battery" /\ c \notin listed /\ fault' = fault
  BY DEF AddReading
<1>2. packet' = Extended(packet, e)
  BY DEF AddReading, WithEntry, Extended
<1>3. meant' = m2
  <2>1. "Left" \in Components /\ "Right" \in Components
    BY DEF Components
  <2>2. "Left" \in listed <=> Listed("Left")
    BY <2>1
  <2>3. "Right" \in listed <=> Listed("Right")
    BY <2>1
  <2>4. meant' = IF c = "Case" \/ Listed("Left") \/ Listed("Right")
                   THEN said ELSE [said EXCEPT !.primary = c]
    BY DEF AddReading
  <2> HIDE DEF listed, said
  <2> QED
    BY <2>2, <2>3, <2>4
<1>4. PICK n : BatteryWith(packet, meant, n)
  BY <1>1, FieldsOfMeanings DEF WireInv, Whole
<1>5. listed = {d \in Components : \E i \in 1..n : packet[Offset(i) + 1] = ComponentByte[d]}
  <2>1. packet[7] = n
    BY <1>4 DEF BatteryWith
  <2> QED
    BY <2>1 DEF Listed
<1>6. BatteryWith(Extended(packet, e), m2, n + 1)
  <2> HIDE DEF listed
  <2> QED
    BY <1>1, <1>4, <1>5, ReadingAdded
<1> HIDE DEF e, m2
<1>7. BatteryWith(packet', meant', n + 1)
  BY <1>2, <1>3, <1>6
<1>8. Sent(packet', meant')
  BY <1>7, BatterySent
<1>9. meant'.t = "Battery"
  BY <1>7 DEF BatteryWith, BatteryMeanings
<1>10. Whole(packet', meant')
  BY <1>7, <1>8, <1>9 DEF Whole
<1> QED
  BY <1>1, <1>10, WholeKeeps

LEMMA AddKeyKeeps ==
  ASSUME WireInv, NEW type \in {1, 2, 4}, NEW data \in KeyData, AddKey(type, data)
  PROVE  WireInv'
<1>1. /\ fault = "none" /\ meant.t = "ProximityKeys" /\ packet[7] < MaxKeys
      /\ fault' = fault
  BY DEF AddKey
<1>2. packet' = Extended(packet, KeyEntry(type, data))
  BY DEF AddKey, WithEntry, Extended, KeyEntry
<1>3. meant' = MoreKeys(meant, type, data)
  BY DEF AddKey, MoreKeys
<1>4. PICK n : KeysWith(packet, meant, n)
  BY <1>1, FieldsOfMeanings DEF WireInv, Whole
<1>5. n \in Byte /\ packet[7] = n
  BY <1>4 DEF KeysWith
<1>6. n + 1 \in Byte
  <2>1. MaxKeys \in Nat /\ MaxKeys <= 255 /\ n \in Nat
    BY <1>5, WireAssumption, BytesAreNumbers
  <2>2. n + 1 \in Nat /\ n + 1 < 256
    BY <1>1, <1>5, <2>1
  <2> QED
    BY <2>2, SmallNumbersAreBytes
<1>7. data \in Seq(Byte) /\ Len(data) < 256
  BY WireAssumption
<1>8. KeysWith(packet', meant', n + 1)
  <2>1. KeysWith(Extended(packet, KeyEntry(type, data)), MoreKeys(meant, type, data), n + 1)
    BY <1>4, <1>6, <1>7, KeyAdded
  <2> QED
    BY <1>2, <1>3, <2>1
<1>9. Sent(packet', meant')
  BY <1>8, KeysSent
<1>10. meant'.t = "ProximityKeys"
  BY <1>8 DEF KeysWith, KeyMeanings
<1>11. Whole(packet', meant')
  BY <1>8, <1>9, <1>10 DEF Whole
<1> QED
  BY <1>1, <1>11, WholeKeeps

LEMMA AirPodsKeep == ASSUME WireInv, AirPods PROVE WireInv'
<1>1. CASE BeginBattery
  <2> DEFINE p == BATTERY_PREFIX \o <<0>>
  <2>1. BatteryWith(p, NoReadings, 0) /\ Says(p, NoReadings)
    BY <1>1, BatteryBegun DEF BeginBattery
  <2> HIDE DEF p
  <2>2. NoReadings.t = "Battery"
    BY DEF NoReadings
  <2>3. Whole(p, NoReadings)
    BY <2>1, <2>2, BatterySent DEF Whole
  <2> QED
    BY <2>1, <2>3, SaysKeeps
<1>2. CASE BeginKeys
  <2> DEFINE p == HEADER \o <<49, 0, 0>>
             m == [t |-> "ProximityKeys", keys |-> <<>>]
  <2>1. KeysWith(p, m, 0) /\ Says(p, m)
    BY <1>2, KeysBegun DEF BeginKeys
  <2>2. m.t = "ProximityKeys"
    OBVIOUS
  <2> HIDE DEF p, m
  <2>3. Whole(p, m)
    BY <2>1, <2>2, KeysSent DEF Whole
  <2> QED
    BY <2>1, <2>3, SaysKeeps
<1>3. CASE Acknowledge
  <2> DEFINE p1 == HANDSHAKE_ACK_PREFIX \o <<1, 2>>
             m1 == [t |-> "HandshakeAck"]
             p2 == FEATURES_ACK_PREFIX \o <<1>>
             m2 == [t |-> "FeaturesAck"]
  <2>1. Says(p1, m1) \/ Says(p2, m2)
    BY <1>3 DEF Acknowledge
  <2>2. Sent(p1, m1) /\ Sent(p2, m2)
    BY AcksSent
  <2>3. m1.t \notin {"Battery", "ProximityKeys"} /\ m2.t \notin {"Battery", "ProximityKeys"}
    OBVIOUS
  <2> HIDE DEF p1, m1, p2, m2
  <2> QED
    BY <2>1, <2>2, <2>3, SentIsWhole, SaysKeeps
<1>4. ASSUME NEW c \in Components, NEW level \in Levels, NEW status \in DOMAIN StatusByte,
             AddReading(c, level, status)
      PROVE  WireInv'
  BY <1>4, AddReadingKeeps, WireAssumption
<1>5. ASSUME NEW type \in {1, 2, 4}, NEW data \in KeyData, AddKey(type, data)
      PROVE  WireInv'
  BY <1>5, AddKeyKeeps
<1>6. ASSUME NEW primary \in 0..2, NEW secondary \in 0..2, ReportEars(primary, secondary)
      PROVE  WireInv'
  <2> DEFINE p == EAR_DETECTION_PREFIX \o <<primary, secondary>>
             m == [t |-> "EarDetection", primary |-> primary = 0, secondary |-> secondary = 0]
  <2>1. Says(p, m) /\ Sent(p, m)
    BY <1>6, EarsSent DEF ReportEars
  <2>2. m.t \notin {"Battery", "ProximityKeys"}
    OBVIOUS
  <2> HIDE DEF p, m
  <2> QED
    BY <2>1, <2>2, SentIsWhole, SaysKeeps
<1>7. ASSUME NEW name \in Texts, NEW number \in Texts, NEW maker \in Texts,
             ReportMetadata(name, number, maker)
      PROVE  WireInv'
  <2> DEFINE p == METADATA_PREFIX \o Zeros(6) \o name \o <<0>> \o number \o <<0>> \o maker \o <<0>>
             m == [t |-> "Metadata", name |-> name, modelNumber |-> number,
                   manufacturer |-> maker]
  <2>1. Says(p, m)
    BY <1>7 DEF ReportMetadata
  <2>2. name \in Seq(Ascii) /\ number \in Seq(Ascii) /\ maker \in Seq(Ascii)
    BY WireAssumption DEF Ascii
  <2>3. p = MetadataPacket(name, number, maker)
    BY DEF MetadataPacket, WithText
  <2>4. m.t \notin {"Battery", "ProximityKeys"}
    OBVIOUS
  <2>5. Sent(MetadataPacket(name, number, maker), m)
    BY <2>2, MetadataSent
  <2> HIDE DEF p, m
  <2> QED
    BY <2>1, <2>3, <2>4, <2>5, SentIsWhole, SaysKeeps
<1>8. ASSUME NEW status \in Levels, ReportConversation(status) PROVE WireInv'
  <2> DEFINE p == CA_DATA_PREFIX \o <<1, status>>
             m == [t |-> "ConversationalAwareness", status |-> status]
  <2>1. Says(p, m) /\ Sent(p, m)
    BY <1>8, ConversationSent, WireAssumption DEF ReportConversation
  <2>2. m.t \notin {"Battery", "ProximityKeys"}
    OBVIOUS
  <2> HIDE DEF p, m
  <2> QED
    BY <2>1, <2>2, SentIsWhole, SaysKeeps
<1>9. ASSUME NEW tag \in {68, 69}, ReportSensors(tag) PROVE WireInv'
  <2> DEFINE p == HEADER \o <<23, 0, 0, 0, 16, 0, tag, 0>> \o Zeros(59)
             m == [t |-> "HeadTracking"]
  <2>1. Says(p, m) /\ Sent(p, m)
    BY <1>9, SensorsSent DEF ReportSensors
  <2>2. m.t \notin {"Battery", "ProximityKeys"}
    OBVIOUS
  <2> HIDE DEF p, m
  <2> QED
    BY <2>1, <2>2, SentIsWhole, SaysKeeps
<1>10. ASSUME NEW id \in {27, 40}, NEW on \in BOOLEAN, ReportSetting(id, on) PROVE WireInv'
  <2> DEFINE p == IF on THEN Enabled(id) ELSE Disabled(id)
             m == [t |-> "ControlCommand", id |-> id, data |-> <<IF on THEN 1 ELSE 2, 0, 0, 0>>]
  <2>1. Says(p, m) /\ Sent(p, m)
    BY <1>10, SettingsSent DEF ReportSetting
  <2>2. m.t \notin {"Battery", "ProximityKeys"}
    OBVIOUS
  <2> HIDE DEF p, m
  <2> QED
    BY <2>1, <2>2, SentIsWhole, SaysKeeps
<1> QED
  BY <1>1, <1>2, <1>3, <1>4, <1>5, <1>6, <1>7, <1>8, <1>9, <1>10 DEF AirPods

LEMMA LibraryKeeps == ASSUME WireInv, Library PROVE WireInv'
<1>1. ASSUME NEW mode \in NoiseControlModes, SetMode(mode) PROVE WireInv'
  <2> DEFINE p == BuildNoiseControl(mode)
             m == [t |-> "NoiseControl", mode |-> mode]
  <2>1. Says(p, m) /\ Sent(p, m)
    BY <1>1, ModesSent DEF SetMode
  <2>2. m.t \notin {"Battery", "ProximityKeys"}
    OBVIOUS
  <2> HIDE DEF p, m
  <2> QED
    BY <2>1, <2>2, SentIsWhole, SaysKeeps
<1>2. ASSUME NEW level \in Levels, SetNoiseLevel(level) PROVE WireInv'
  <2> DEFINE p == BuildAdaptiveNoiseLevel(level)
             m == [t |-> "NoiseLevel", level |-> level]
  <2>1. Says(p, m) /\ Sent(p, m)
    BY <1>2, NoiseLevelsSent, WireAssumption DEF SetNoiseLevel
  <2>2. m.t \notin {"Battery", "ProximityKeys"}
    OBVIOUS
  <2> HIDE DEF p, m
  <2> QED
    BY <2>1, <2>2, SentIsWhole, SaysKeeps
<1>3. ASSUME NEW modes \in BoundedSeq(NoiseControlModes, 3), SetLongPress(modes)
      PROVE  WireInv'
  <2> DEFINE p == BuildListeningModeConfig(modes)
             m == [t |-> "LongPress", modes |-> ToSet(modes)]
  <2>1. ToSet(modes) \subseteq NoiseControlModes
    BY DEF BoundedSeq, SeqOf, ToSet
  <2>2. Says(p, m) /\ Sent(p, m)
    BY <1>3, <2>1, LongPressesSent DEF SetLongPress
  <2>3. m.t \notin {"Battery", "ProximityKeys"}
    OBVIOUS
  <2> HIDE DEF p, m
  <2> QED
    BY <2>2, <2>3, SentIsWhole, SaysKeeps
<1>4. ASSUME NEW name \in Texts, Rename(name) PROVE WireInv'
  <2> DEFINE p == BuildRename(name)
             m == [t |-> "Name", name |-> name]
  <2>1. name \in Seq(Ascii) /\ Len(name) < 256
    BY WireAssumption DEF Ascii
  <2>2. Says(p, m) /\ Sent(p, m)
    BY <1>4, <2>1, NamesSent DEF Rename
  <2>3. m.t \notin {"Battery", "ProximityKeys"}
    OBVIOUS
  <2> HIDE DEF p, m
  <2> QED
    BY <2>2, <2>3, SentIsWhole, SaysKeeps
<1>5. CASE Request
  <2> DEFINE m == [t |-> "Request"]
  <2>1. PICK p \in Requests : Says(p, m)
    BY <1>5 DEF Request
  <2>2. Sent(p, m)
    BY RequestsSent
  <2>3. m.t \notin {"Battery", "ProximityKeys"}
    OBVIOUS
  <2> HIDE DEF m
  <2> QED
    BY <2>1, <2>2, <2>3, SentIsWhole, SaysKeeps
<1> QED
  BY <1>1, <1>2, <1>3, <1>4, <1>5 DEF Library

LEMMA BeginningOfBeginning ==
  ASSUME NEW p \in Seq(Byte), NEW q, Beginning(q, p), NEW r, Beginning(r, q)
  PROVE  Beginning(r, p)
BY DEF Beginning

LEMMA CutKeeps == ASSUME WireInv, Cut PROVE WireInv'
<1> DEFINE p == packet
           w == Front(p)
<1>1. /\ p # <<>> /\ fault \in {"none", "cut"} /\ packet' = w
      /\ fault' = "cut" /\ meant' = meant
  BY DEF Cut
<1>2. p \in Seq(Byte) /\ meant # Nothing /\ Tracks(p)
  BY <1>1 DEF WireInv
<1>3. Beginning(w, p) /\ Len(w) < Len(p)
  BY <1>1, <1>2, FrontIsBeginning
<1> HIDE DEF w
<1>4. ASSUME NEW q, Beginning(q, w) PROVE SaysNoMore(Parse(q), meant)
  <2>1. Beginning(q, p)
    BY <1>2, <1>3, <1>4, BeginningOfBeginning
  <2>2. CASE fault = "none"
    <3>1. Len(q) < Len(p)
      BY <1>2, <1>3, <1>4 DEF Beginning
    <3> QED
      BY <1>2, <2>1, <2>2, <3>1 DEF WireInv, Whole, Sent
  <2>3. CASE fault = "cut"
    BY <2>1, <2>3 DEF WireInv
  <2> QED
    BY <1>1, <2>2, <2>3
<1>5. Tracks(w)
  BY <1>2, <1>3, TracksStill
<1>6. w \in Seq(Byte)
  BY <1>3 DEF Beginning
<1> QED
  BY <1>1, <1>2, <1>4, <1>5, <1>6 DEF WireInv

LEMMA ByteChangesKeeps == ASSUME WireInv, ByteChanges PROVE WireInv'
<1>1. PICK i \in DOMAIN packet, b \in OddBytes : packet' = [packet EXCEPT ![i] = b]
  BY DEF ByteChanges
<1>2. packet \in Seq(Byte) /\ b \in Byte
  BY WireAssumption DEF WireInv
<1>3. packet' \in Seq(Byte)
  BY <1>1, <1>2
<1>4. packet # <<>>
  BY <1>1
<1>5. meant # Nothing
  BY <1>4 DEF WireInv
<1> QED
  BY <1>3, <1>5 DEF WireInv, ByteChanges

LEMMA ReadKeeps == ASSUME WireInv, Read PROVE WireInv'
BY DEF WireInv, Read, Tracks

(* Every step keeps the invariant: a packet that is composed is read as it  *)
(* is meant at each entry that is added, and so is each of its beginnings. *)
THEOREM WireIsInvariant == Spec => []WireInv
<1>1. Init => WireInv
  BY DEF Init, WireInv, Tracks
<1>2. WireInv /\ [Next]_vars => WireInv'
  <2> SUFFICES ASSUME WireInv, [Next]_vars PROVE WireInv'
    OBVIOUS
  <2>1. CASE UNCHANGED vars
    BY <2>1 DEF WireInv, vars
  <2> QED
    BY <2>1, AirPodsKeep, LibraryKeeps, CutKeeps, ByteChangesKeeps, ReadKeeps DEF Next
<1> QED
  BY <1>1, <1>2, PTL DEF Spec

-----------------------------------------------------------------------------
(* The properties.                                                         *)

LEMMA TypeFollows == WireInv => WireTypeOK
BY ParseIsTotal DEF WireInv, WireTypeOK

LEMMA UnderstoodFollows == WireInv => Understood
<1> SUFFICES ASSUME WireInv, fault = "none", meant.t \notin {"Nothing", "Request"},
                    ~OtherTwoKeys(packet, meant)
             PROVE  Understand(packet) = Intended(meant)
  BY DEF Understood
<1>1. meant # Nothing
  BY DEF Nothing
<1> QED
  BY <1>1 DEF WireInv, Whole, Sent

LEMMA CutFollows == WireInv => CutIsNotMistaken
<1> SUFFICES ASSUME WireInv, fault = "cut" PROVE SaysNoMore(Parse(packet), meant)
  BY DEF CutIsNotMistaken
<1>1. Beginning(packet, packet)
  BY DEF WireInv, Beginning
<1> QED
  BY <1>1 DEF WireInv

(* What a packet is taken for tells which byte the dispatch went by.       *)
LEMMA TagsOfReadings ==
  ASSUME NEW p
  PROVE  /\ ParseBattery(p).t \in {"ParseError", "Panic", "Battery"}
         /\ ParseEarDetection(p).t \in {"ParseError", "Panic", "EarDetection"}
         /\ ParseHeadTracking(p).t \in {"ParseError", "HeadTracking"}
         /\ ParseMetadata(p).t \in {"ParseError", "Metadata"}
         /\ ParseProximityKeys(p).t \in {"ParseError", "ProximityKeys"}
         /\ ParseMagicCloudKeys(p).t \in {"ParseError", "Panic", "MagicCloudKeys"}
         /\ ParseConversationalAwareness(p).t
              \in {"Panic", "Unknown", "ConversationalAwareness"}
         /\ ParseControlCommand(p).t
              \in {"ParseError", "Panic", "Unknown", "NoiseControl", "ControlCommand"}
<1>1. ParseBattery(p).t \in {"ParseError", "Panic", "Battery"}
  BY DEF ParseBattery, Reading, BatteryOf, ParseError, Panic
<1>2. ParseEarDetection(p).t \in {"ParseError", "Panic", "EarDetection"}
  BY DEF ParseEarDetection, Reading, ParseError, Panic
<1>3. ParseHeadTracking(p).t \in {"ParseError", "HeadTracking"}
  BY DEF ParseHeadTracking, ParseError
<1>4. ParseMetadata(p).t \in {"ParseError", "Metadata"}
  BY DEF ParseMetadata, ParseError
<1>5. ParseProximityKeys(p).t \in {"ParseError", "ProximityKeys"}
  BY DEF ParseProximityKeys, ParseError
<1>6. ParseMagicCloudKeys(p).t \in {"ParseError", "Panic", "MagicCloudKeys"}
  BY DEF ParseMagicCloudKeys, Reading, ParseError, Panic
<1>7. ParseConversationalAwareness(p).t \in {"Panic", "Unknown", "ConversationalAwareness"}
  BY DEF ParseConversationalAwareness, Reading, Unknown, Panic
<1>8. ParseControlCommand(p).t
        \in {"ParseError", "Panic", "Unknown", "NoiseControl", "ControlCommand"}
  BY DEF ParseControlCommand, ControlCommandOf, Reading, ParseError, Panic, Unknown
<1> QED
  BY <1>1, <1>2, <1>3, <1>4, <1>5, <1>6, <1>7, <1>8

LEMMA DispatchedOn ==
  ASSUME NEW p \in Seq(Byte), Parse(p).t \in {"ControlCommand", "HeadTracking"}
  PROVE  /\ Parse(p).t = "ControlCommand" =>
              Begins(p, 4, 9) /\ Parse(p) = ParseControlCommand(p)
         /\ Parse(p).t = "HeadTracking" =>
              Begins(p, 4, 23) /\ Parse(p) = ParseHeadTracking(p)
<1>1. /\ StartsWith(p, HEADER) /\ ~(Len(p) < 6)
      /\ Parse(p) = DispatchOnOpcode(p)
  BY TagsOfReadings DEF Parse, ParseError
<1>2. Begins(p, 4, p[5])
  BY <1>1 DEF Begins, StartsWith, IsPrefix, HEADER
<1>3. At(p, 4) = p[5]
  BY DEF At
<1>4. /\ Parse(p).t = "ControlCommand" => p[5] = 9 /\ Parse(p) = ParseControlCommand(p)
      /\ Parse(p).t = "HeadTracking" => p[5] = 23 /\ Parse(p) = ParseHeadTracking(p)
  BY <1>1, <1>3, TagsOfReadings DEF DispatchOnOpcode, Unknown
<1> QED
  BY <1>2, <1>4

(* A mode has a byte of its own.                                           *)
LEMMA OneModePerByte ==
  ASSUME NEW b, NEW m \in ModeFromByte(b) PROVE ModeFromByte(b) = {m}
BY DEF ModeFromByte, NoiseControlModes, ModeByte

LEMMA CommandsAgree ==
  ASSUME NEW p \in Seq(Byte), NEW id \in ParseId(p), NEW data \in ParseData(p)
  PROVE  /\ ParseValue(p) = Some(data[1])
         /\ (data[1] = 1) = (ParseState(p) = Some(TRUE))
         /\ \/ Parse(p).t = "ControlCommand" /\ Parse(p).id = id /\ Parse(p).data = data
            \/ /\ Parse(p).t = "NoiseControl" /\ id = ListeningMode
               /\ ModeFromByte(data[1]) = {Parse(p).mode}
            \/ /\ Parse(p) = Unknown
               /\ \/ id \notin ControlCommandIds
                  \/ id = ListeningMode /\ ModeFromByte(data[1]) = None
<1>1. IsCommand(p, 11)
  BY DEF ParseData, None
<1>2. Len(p) >= 11 /\ StartsWith(p, CONTROL_COMMAND_HEADER)
  BY <1>1 DEF IsCommand
<1>3. Begins(p, 4, 9)
  BY <1>2 DEF Begins, StartsWith, IsPrefix, CONTROL_COMMAND_HEADER, HEADER
<1>4. ~(Len(p) < 11) /\ Len(p) >= 8 /\ Len(p) >= 7
  BY <1>2
<1>5. Parse(p) = ControlCommandOf(p)
  BY <1>3, <1>4, ParseDispatches DEF ParseControlCommand, Reading
<1> DEFINE d == Slice(p, 7, 11)
           v == At(p, 7)
<1>6. ParseId(p) = {At(p, 6)} /\ ParseValue(p) = {v} /\ ParseData(p) = {d}
  BY <1>2, <1>4 DEF ParseId, ParseValue, ParseData, Some, IsCommand
<1>7. d[1] = v
  <2>1. d = <<p[8], p[9], p[10], p[11]>>
    BY <1>2, FourOfPacket
  <2> QED
    BY <2>1 DEF At
<1> HIDE DEF d, v
<1>8. id = At(p, 6) /\ data = d /\ data[1] = v
  BY <1>6, <1>7
<1>9. (v = 1) = (ParseState(p) = Some(TRUE))
  <2>1. CASE v = 1
    <3>1. ParseState(p) = Some(TRUE)
      <4>1. ParseValue(p) = Some(1) /\ ParseValue(p) # Some(2)
        BY <1>6, <2>1 DEF Some
      <4> QED
        BY <4>1 DEF ParseState
    <3> QED
      BY <2>1, <3>1
  <2>2. CASE v # 1
    <3>1. ParseValue(p) # Some(1)
      BY <1>6, <2>2 DEF Some
    <3>2. ParseState(p) \in {Some(FALSE), None}
      BY <3>1 DEF ParseState
    <3>3. Some(FALSE) # Some(TRUE) /\ None # Some(TRUE)
      BY DEF Some, None
    <3> QED
      BY <2>2, <3>2, <3>3
  <2> QED
    BY <2>1, <2>2
<1>a. ParseValue(p) = Some(data[1])
  BY <1>6, <1>8 DEF Some
<1>b. (data[1] = 1) = (ParseState(p) = Some(TRUE))
  BY <1>8, <1>9
<1>c. SUFFICES
        \/ Parse(p).t = "ControlCommand" /\ Parse(p).id = id /\ Parse(p).data = data
        \/ /\ Parse(p).t = "NoiseControl" /\ id = ListeningMode
           /\ ModeFromByte(data[1]) = {Parse(p).mode}
        \/ /\ Parse(p) = Unknown
           /\ \/ id \notin ControlCommandIds
              \/ id = ListeningMode /\ ModeFromByte(data[1]) = None
  BY <1>a, <1>b
<1>10. CASE At(p, 6) \notin ControlCommandIds
  <2>1. Parse(p) = Unknown
    BY <1>5, <1>10 DEF ControlCommandOf, ControlCommandIds, ListeningMode
  <2> QED
    BY <1>8, <1>10, <2>1
<1>11. CASE At(p, 6) = ListeningMode
  <2>1. At(p, 6) \in ControlCommandIds
    BY <1>11 DEF ControlCommandIds, ListeningMode
  <2>2. CASE ModeFromByte(v) = None
    <3>1. Parse(p) = Unknown
      BY <1>5, <1>11, <2>1, <2>2 DEF ControlCommandOf, v
    <3> QED
      BY <1>8, <1>11, <2>2, <3>1
  <2>3. CASE ModeFromByte(v) # None
    <3> DEFINE mode == CHOOSE m \in ModeFromByte(v) : TRUE
    <3>1. mode \in ModeFromByte(v)
      BY <2>3 DEF None
    <3>2. Parse(p) = [t |-> "NoiseControl", mode |-> mode]
      BY <1>5, <1>11, <2>1, <2>3 DEF ControlCommandOf, v
    <3> HIDE DEF mode
    <3>3. ModeFromByte(v) = {mode}
      BY <3>1, OneModePerByte
    <3>4. Parse(p).t = "NoiseControl" /\ Parse(p).mode = mode
      BY <3>2
    <3> QED
      BY <1>8, <1>11, <3>3, <3>4
  <2> QED
    BY <2>2, <2>3
<1>12. CASE At(p, 6) \in ControlCommandIds /\ At(p, 6) # ListeningMode
  <2>1. Parse(p) = [t |-> "ControlCommand", id |-> At(p, 6),
                    data |-> IF ParseData(p) = None
                               THEN Zeros(4) ELSE CHOOSE x \in ParseData(p) : TRUE]
    BY <1>5, <1>12 DEF ControlCommandOf
  <2>2. ParseData(p) # None /\ (CHOOSE x \in ParseData(p) : TRUE) = d
    BY <1>6 DEF None
  <2>3. Parse(p) = [t |-> "ControlCommand", id |-> At(p, 6), data |-> d]
    BY <2>1, <2>2
  <2>4. /\ Parse(p).t = "ControlCommand"
        /\ Parse(p).id = At(p, 6) /\ Parse(p).data = d
    BY <2>3
  <2> QED
    BY <1>8, <2>4
<1> QED
  BY <1>10, <1>11, <1>12

(* What is_head_tracking_data recognises has the opcode of sensor data, at *)
(* whatever length.                                                        *)
LEMMA UnloggedAreSensors ==
  ASSUME NEW p \in Seq(Byte), IsHeadTrackingData(p)
  PROVE  Parse(p).t \in {"HeadTracking", "ParseError"}
<1> DEFINE h == HEADER \o <<23, 0, 0, 0, 16, 0>>
<1>1. Begins(h, 4, 23) /\ Long(h, 10)
  BY DEF Begins, HEADER, Byte, Long
<1>2. IsPrefix(h, p) /\ Len(p) > 60
  BY DEF IsHeadTrackingData, StartsWith
<1> HIDE DEF h
<1>3. \A i \in 1..Len(h) : h[i] = p[i]
  BY <1>1, <1>2, PrefixByBytes DEF Long
<1>4. Begins(p, 4, 23)
  <2>1. \A i \in {1, 2, 3, 4, 5} : i \in 1..Len(h)
    BY <1>1 DEF Long
  <2>2. p[1] = h[1] /\ p[2] = h[2] /\ p[3] = h[3] /\ p[4] = h[4] /\ p[5] = h[5]
    BY <1>3, <2>1
  <2>3. Len(p) >= 6
    BY <1>2
  <2> QED
    BY <1>1, <2>2, <2>3 DEF Begins
<1>5. Parse(p) = ParseHeadTracking(p)
  BY <1>4, ParseDispatches
<1> QED
  BY <1>5, TagsOfReadings

LEMMA AccessorsFollow == WireInv => AccessorsAgree
<1> SUFFICES ASSUME WireInv PROVE AccessorsAgree
  OBVIOUS
<1>1. packet \in Seq(Byte)
  BY DEF WireInv
<1>2. Parse(packet).t = "HeadTracking" /\ fault # "odd" => IsHeadTrackingData(packet)
  <2> SUFFICES ASSUME Parse(packet).t = "HeadTracking", fault # "odd"
               PROVE  IsHeadTrackingData(packet)
    OBVIOUS
  <2>1. Begins(packet, 4, 23) /\ Parse(packet) = ParseHeadTracking(packet)
    BY <1>1, DispatchedOn
  <2>2. ~(Len(packet) < 70)
    BY <2>1 DEF ParseHeadTracking, ParseError
  <2>3. Len(packet) >= 70 /\ packet[5] = 23
    BY <1>1, <2>1, <2>2 DEF Begins
  <2> QED
    BY <2>3 DEF WireInv, Tracks
<1>3. IsHeadTrackingData(packet) => Parse(packet).t \in {"HeadTracking", "ParseError"}
  BY <1>1, UnloggedAreSensors
<1>4. \A id \in ParseId(packet), data \in ParseData(packet) :
        /\ ParseValue(packet) = Some(data[1])
        /\ (data[1] = 1) = (ParseState(packet) = Some(TRUE))
        /\ \/ /\ Parse(packet).t = "ControlCommand"
              /\ Parse(packet).id = id /\ Parse(packet).data = data
           \/ /\ Parse(packet).t = "NoiseControl" /\ id = ListeningMode
              /\ ModeFromByte(data[1]) = {Parse(packet).mode}
           \/ /\ Parse(packet) = Unknown
              /\ \/ id \notin ControlCommandIds
                 \/ id = ListeningMode /\ ModeFromByte(data[1]) = None
  <2> SUFFICES ASSUME NEW id \in ParseId(packet), NEW data \in ParseData(packet)
               PROVE  /\ ParseValue(packet) = Some(data[1])
                      /\ (data[1] = 1) = (ParseState(packet) = Some(TRUE))
                      /\ \/ /\ Parse(packet).t = "ControlCommand"
                            /\ Parse(packet).id = id /\ Parse(packet).data = data
                         \/ /\ Parse(packet).t = "NoiseControl" /\ id = ListeningMode
                            /\ ModeFromByte(data[1]) = {Parse(packet).mode}
                         \/ /\ Parse(packet) = Unknown
                            /\ \/ id \notin ControlCommandIds
                               \/ id = ListeningMode /\ ModeFromByte(data[1]) = None
    OBVIOUS
  <2> QED
    BY <1>1, CommandsAgree
<1> QED
  BY <1>2, <1>3, <1>4 DEF AccessorsAgree

LEMMA Relayed ==
  ASSUME NEW p \in Seq(Byte)
  PROVE  HandlePacket(DATA_HEADER \o p) = [t |-> "RelayedData", payload |-> p]
<1> DEFINE h == DATA_HEADER
           w == h \o p
<1>1. PICK n \in Nat : n = Len(p)
  OBVIOUS
<1>2. Long(h, 4)
  BY DEF DATA_HEADER, Byte, Long
<1>3. IsJoin(w, h, 4, p, n)
  <2>1. Long(p, n) /\ 4 \in Nat
    BY <1>1 DEF Long
  <2> HIDE DEF h
  <2> QED
    BY <1>2, <2>1, JoinIs
<1> HIDE DEF w, h
<1>4. w \in Seq(Byte) /\ Len(w) = 4 + n
  BY <1>3 DEF IsJoin, Long
<1>5. SubSeq(w, 1, 4) = h
  <2>1. \A i \in 1..4 : w[0 + i] = h[i]
    BY <1>3 DEF IsJoin
  <2>2. SubSeq(w, 0 + 1, 0 + 4) = h
    <3>1. 4 = Len(h) /\ h \in Seq(Byte)
      <4>1. PICK k \in Nat : k = Len(h)
        BY <1>2 DEF Long
      <4>2. k = 4
        BY <1>2, <4>1 DEF Long
      <4> QED
        BY <1>2, <4>1, <4>2 DEF Long
    <3>2. 0 + 4 <= Len(w) /\ 0 \in Nat /\ 4 \in Nat
      BY <1>4
    <3> QED
      BY <1>4, <2>1, <3>1, <3>2, PartOf
  <2> QED
    BY <2>2
<1>6. SubSeq(w, 5, Len(w)) = p
  <2>1. \A i \in 1..n : w[4 + i] = p[i]
    <3> TAKE i \in 1..n
    <3>1. 4 + i \in 4 + 1..4 + n /\ (4 + i) - 4 = i
      OBVIOUS
    <3> QED
      BY <1>3, <3>1 DEF IsJoin
  <2>2. SubSeq(w, 4 + 1, 4 + n) = p
    BY <1>1, <1>4, <2>1, PartOf
  <2> QED
    BY <1>4, <2>2
<1>7. ~(Len(w) < 4)
  BY <1>4
<1>8. /\ h # CONNECTED /\ h # DISCONNECTED /\ h # REQUEST_DISCONNECT
      /\ h # REQUEST_BATTERY /\ h # REQUEST_ANC /\ h # REQUEST_STATUS
  BY DEF h, DATA_HEADER, CONNECTED, DISCONNECTED, REQUEST_DISCONNECT, REQUEST_BATTERY,
     REQUEST_ANC, REQUEST_STATUS
<1>9. h = DATA_HEADER
  BY DEF h
<1>10. HandlePacket(w) = [t |-> "RelayedData", payload |-> p]
  BY <1>5, <1>6, <1>7, <1>8, <1>9 DEF HandlePacket
<1> QED
  BY <1>10 DEF w, h

LEMMA NotRelayed ==
  ASSUME NEW p \in Seq(Byte), Len(p) < 4 \/ p[3] = 4
  PROVE  HandlePacket(p) = [t |-> "Unknown"]
<1> DEFINE prefix == IF Len(p) < 4 THEN <<>> ELSE SubSeq(p, 1, 4)
<1>1. prefix = <<>> \/ prefix[3] = 4
  <2>1. CASE Len(p) < 4
    BY <2>1
  <2>2. CASE ~(Len(p) < 4)
    <3>1. 0 + 4 <= Len(p) /\ 0 \in Nat /\ 4 \in Nat /\ 3 \in 1..4
      BY <2>2
    <3>2. SubSeq(p, 0 + 1, 0 + 4)[3] = p[0 + 3]
      BY <3>1, PartAt
    <3> QED
      BY <2>2, <3>2
  <2> QED
    BY <2>1, <2>2
<1>2. /\ prefix # CONNECTED /\ prefix # DISCONNECTED /\ prefix # REQUEST_DISCONNECT
      /\ prefix # REQUEST_BATTERY /\ prefix # REQUEST_ANC /\ prefix # REQUEST_STATUS
      /\ prefix # DATA_HEADER
  <2> DEFINE headers == {CONNECTED, DISCONNECTED, REQUEST_DISCONNECT, REQUEST_BATTERY,
                         REQUEST_ANC, REQUEST_STATUS, DATA_HEADER}
  <2>1. \A h \in headers : h # <<>> /\ h[3] = 0
    <3>1. /\ CONNECTED # <<>> /\ CONNECTED[3] = 0
          /\ DISCONNECTED # <<>> /\ DISCONNECTED[3] = 0
      BY DEF CONNECTED, DISCONNECTED
    <3>2. /\ REQUEST_DISCONNECT # <<>> /\ REQUEST_DISCONNECT[3] = 0
          /\ REQUEST_BATTERY # <<>> /\ REQUEST_BATTERY[3] = 0
      BY DEF REQUEST_DISCONNECT, REQUEST_BATTERY
    <3>3. /\ REQUEST_ANC # <<>> /\ REQUEST_ANC[3] = 0
          /\ REQUEST_STATUS # <<>> /\ REQUEST_STATUS[3] = 0
      BY DEF REQUEST_ANC, REQUEST_STATUS
    <3>4. DATA_HEADER # <<>> /\ DATA_HEADER[3] = 0
      BY DEF DATA_HEADER
    <3> QED
      BY <3>1, <3>2, <3>3, <3>4
  <2>2. prefix \notin headers
    <3> HIDE DEF prefix, headers
    <3> QED
      BY <1>1, <2>1
  <2> HIDE DEF prefix
  <2> QED
    BY <2>2
<1> QED
  BY <1>2 DEF HandlePacket

LEMMA ApartFollows == WireInv => ProtocolsApart
<1> SUFFICES ASSUME WireInv PROVE ProtocolsApart
  OBVIOUS
<1>1. packet \in Seq(Byte)
  BY DEF WireInv
<1>2. fault = "none" => Len(packet) < 4 \/ packet[3] = 4
  <2>1. CASE meant = Nothing
    BY <2>1 DEF WireInv
  <2>2. CASE meant # Nothing
    BY <2>2 DEF WireInv, Whole, Sent
  <2> QED
    BY <2>1, <2>2
<1>3. fault = "none" /\ meant.t = "Request" => Parse(packet) \in {ParseError, Unknown}
  <2>1. meant.t = "Request" => meant # Nothing
    BY DEF Nothing
  <2> QED
    BY <2>1 DEF WireInv, Whole, Sent
<1> QED
  BY <1>1, <1>2, <1>3, Relayed, NotRelayed DEF ProtocolsApart

(* Whatever is sent and whatever happens to it on the way, parse returns a *)
(* packet of one of its types or an error.                                 *)
THEOREM WireTypes == Spec => []WireTypeOK
BY WireIsInvariant, TypeFollows, PTL

(* Whatever the AirPods or the library say, for all levels, texts and      *)
(* keys, is understood by parse, by the accessors of the settings and by   *)
(* the reader of a name, as it was meant.                                  *)
THEOREM WholeIsUnderstood == Spec => []Understood
BY WireIsInvariant, UnderstoodFollows, PTL

(* Wherever a packet is cut, what parse makes of the rest is an error or   *)
(* says less: the first keys, the beginnings of the texts.                 *)
THEOREM CutIsNeverMistaken == Spec => []CutIsNotMistaken
BY WireIsInvariant, CutFollows, PTL

(* For every packet, composed, cut or changed, what the accessors of       *)
(* ControlCommand say of it is what parse says, and is_head_tracking_data, *)
(* which the receive loop asks first, keeps nothing from the log that      *)
(* changes the state.  (Where parse accepts a command, or sensor data with *)
(* a byte that was not sent, the accessors may still say nothing.)         *)
THEOREM AccessorsAlwaysAgree == Spec => []AccessorsAgree
BY WireIsInvariant, AccessorsFollow, PTL

(* The relay gives back the packet it was given, and no AAP packet that    *)
(* arrives whole is taken for one of its own.                              *)
THEOREM ProtocolsStayApart == Spec => []ProtocolsApart
BY WireIsInvariant, ApartFollows, PTL
=============================================================================
