--------------------------- MODULE SpaCodecProofs ---------------------------
(* Theorems about SpaCodec, for all values of its constants. *)
EXTENDS SpaCodec, TLAPS

\* The optional fields of a message as Encode writes them: those after the NAT
\* access, and all of them.
AfterNAT(m) == Optional(m.auth # Empty, B64(m.auth))
               \o Optional(m.timeout > 0 /\ EffectiveType(m) # Command, Dec(m.timeout))
OptionalFields(m) == Optional(m.nat # Empty, B64(m.nat)) \o AfterNAT(m)

\* Encode writes six fields and then the optional ones that are there.
LEMMA FieldsShape ==
    ASSUME NEW m \in Message
    PROVE  /\ Len(Fields(m)) = 6 + Len(OptionalFields(m))
           /\ Len(OptionalFields(m)) \in 0..3
           /\ \A i \in 1..Len(OptionalFields(m)) : Fields(m)[6 + i] = OptionalFields(m)[i]
           /\ Fields(m)[1] = m.rand
           /\ Fields(m)[2] = B64(m.user)
           /\ Fields(m)[3] = Dec(m.stamp)
           /\ Fields(m)[5] = Dec(EffectiveType(m))
           /\ Fields(m)[6] = B64(m.text)
  BY DEF Fields, Optional, OptionalFields, AfterNAT

\* The NAT access, if there is one, comes first among the optional fields.
LEMMA OptionalShape ==
    ASSUME NEW m \in Message
    PROVE  /\ Len(AfterNAT(m)) \in 0..2
           /\ m.nat = Empty =>
                /\ Len(OptionalFields(m)) = Len(AfterNAT(m))
                /\ \A i \in 1..Len(AfterNAT(m)) : OptionalFields(m)[i] = AfterNAT(m)[i]
           /\ m.nat # Empty =>
                /\ Len(OptionalFields(m)) = 1 + Len(AfterNAT(m))
                /\ OptionalFields(m)[1] = B64(m.nat)
                /\ \A i \in 1..Len(AfterNAT(m)) : OptionalFields(m)[1 + i] = AfterNAT(m)[i]
  BY DEF Optional, OptionalFields, AfterNAT

\* The type on the wire is a type, with a NAT access or a timeout as it should.
LEMMA TypeSent ==
    ASSUME NEW m \in Message
    PROVE  /\ EffectiveType(m) \in MessageType
           /\ Number(Dec(EffectiveType(m))) = EffectiveType(m)
           /\ EffectiveType(m) \in NATTypes <=> m.type \in NATTypes
           /\ EffectiveType(m) = Command <=> m.type = Command
  BY CodecAssumption DEF Message, EffectiveType, MessageType, NATTypes, Command, Access,
     NATAccess, TimeoutAccess, TimeoutNATAccess, LocalNATAccess, TimeoutLocalNATAccess

\* After the NAT access of a valid well-formed message come its auth and its
\* timeout, as far as they are there.
LEMMA RestSent ==
    ASSUME NEW m \in Message, WellFormed(m), Validate(m)
    PROVE  /\ HasNAT(Fields(m), EffectiveType(m)) <=> m.nat # Empty
           /\ m.nat # Empty => Fields(m)[7] = B64(m.nat)
           /\ Len(Rest(Fields(m), EffectiveType(m))) = Len(AfterNAT(m))
           /\ \A i \in 1..Len(AfterNAT(m)) :
                 Rest(Fields(m), EffectiveType(m))[i] = AfterNAT(m)[i]
<1> DEFINE f == Fields(m)
           n == Len(AfterNAT(m))
<1>0. n \in 0..2
  BY OptionalShape
<1>1. CASE m.nat = Empty
  <2>1. m.type \notin NATTypes
    BY <1>1, CodecAssumption DEF Validate, ValidNATAccess
  <2>2. ~ HasNAT(f, EffectiveType(m))
    BY <2>1, TypeSent DEF HasNAT
  <2>3. Len(f) = 6 + n /\ \A i \in 1..n : f[6 + i] = AfterNAT(m)[i]
    BY <1>0, <1>1, FieldsShape, OptionalShape
  <2>4. Rest(f, EffectiveType(m)) = SubSeq(f, 7, Len(f))
    BY <2>2 DEF Rest
  <2>5. /\ Len(SubSeq(f, 7, Len(f))) = n
        /\ \A i \in 1..n : SubSeq(f, 7, Len(f))[i] = AfterNAT(m)[i]
    BY <1>0, <2>3
  <2> QED
    BY <1>1, <2>2, <2>4, <2>5
<1>2. CASE m.nat # Empty
  <2>1. m.type \in NATTypes
    BY <1>2 DEF WellFormed
  <2>2. /\ Len(f) = 7 + n
        /\ f[7] = B64(m.nat)
        /\ \A i \in 1..n : f[7 + i] = AfterNAT(m)[i]
    <3>1. Len(OptionalFields(m)) = 1 + n
      BY <1>2, OptionalShape
    <3>2. f[6 + 1] = B64(m.nat)
      BY <1>0, <1>2, <3>1, FieldsShape, OptionalShape
    <3>3. \A i \in 1..n : f[6 + (1 + i)] = OptionalFields(m)[1 + i]
      BY <1>0, <3>1, FieldsShape
    <3> QED
      BY <1>0, <1>2, <3>1, <3>2, <3>3, FieldsShape, OptionalShape
  <2>3. HasNAT(f, EffectiveType(m))
    BY <1>0, <2>1, <2>2, TypeSent DEF HasNAT
  <2>4. Rest(f, EffectiveType(m)) = SubSeq(f, 8, Len(f))
    BY <2>3 DEF Rest
  <2>5. /\ Len(SubSeq(f, 8, Len(f))) = n
        /\ \A i \in 1..n : SubSeq(f, 8, Len(f))[i] = AfterNAT(m)[i]
    BY <1>0, <2>2
  <2> QED
    BY <1>2, <2>2, <2>3, <2>4, <2>5
<1> QED
  BY <1>1, <1>2

\* The fields before the optional ones are read back as they were written.
LEMMA HeadRead ==
    ASSUME NEW m \in Message
    PROVE  /\ Fields(m)[1] = m.rand
           /\ Unb64(Fields(m)[2]) = m.user
           /\ Number(Fields(m)[3]) = m.stamp
           /\ Number(Fields(m)[5]) = EffectiveType(m)
           /\ Unb64(Fields(m)[6]) = m.text
<1>1. /\ Unb64(B64(m.user)) = m.user
      /\ Unb64(B64(m.text)) = m.text
      /\ Number(Dec(m.stamp)) = m.stamp
  BY CodecAssumption DEF Message
<1> QED
  BY <1>1, TypeSent, FieldsShape

\* Decode undoes Fields on the valid well-formed messages.
THEOREM DecodeUndoesFields ==
    ASSUME NEW m \in Message, WellFormed(m), Validate(m)
    PROVE  Decode(Fields(m), m.digest) = Meant(m)
<1> DEFINE f == Fields(m)
           type == EffectiveType(m)
           rest == Rest(f, type)
           timeoutFirst == Len(rest) >= 1 /\ ParseTimeout(rest[1]) # -1
           timed == m.timeout > 0 /\ type # Command
<1>1. /\ Len(rest) = Len(AfterNAT(m))
      /\ \A i \in 1..Len(AfterNAT(m)) : rest[i] = AfterNAT(m)[i]
  BY RestSent
<1>2. m.auth # Empty => ParseTimeout(B64(m.auth)) = -1 /\ Unb64(B64(m.auth)) = m.auth
  BY CodecAssumption DEF WellFormed, Message
<1>3. ParseTimeout(Dec(m.timeout)) = m.timeout /\ m.timeout \in Nat
  BY CodecAssumption DEF Message, ParseTimeout
<1>4. /\ (IF Len(rest) = 0 \/ timeoutFirst THEN Empty ELSE Unb64(rest[1])) = m.auth
      /\ (IF timeoutFirst THEN ParseTimeout(rest[1])
          ELSE IF Len(rest) >= 2 THEN ParseTimeout(rest[2]) ELSE 0) = IF timed THEN m.timeout ELSE 0
  <2>1. CASE m.auth = Empty /\ ~ timed
    <3>1. Len(rest) = 0
      BY <1>1, <2>1 DEF AfterNAT, Optional
    <3> QED
      BY <2>1, <3>1
  <2>2. CASE m.auth = Empty /\ timed
    <3>1. Len(AfterNAT(m)) = 1 /\ AfterNAT(m)[1] = Dec(m.timeout)
      BY <2>2 DEF AfterNAT, Optional
    <3> QED
      BY <1>1, <1>3, <2>2, <3>1
  <2>3. CASE m.auth # Empty /\ ~ timed
    <3>1. Len(AfterNAT(m)) = 1 /\ AfterNAT(m)[1] = B64(m.auth)
      BY <2>3 DEF AfterNAT, Optional
    <3> QED
      BY <1>1, <1>2, <2>3, <3>1
  <2>4. CASE m.auth # Empty /\ timed
    <3>1. /\ Len(AfterNAT(m)) = 2
          /\ AfterNAT(m)[1] = B64(m.auth)
          /\ AfterNAT(m)[2] = Dec(m.timeout)
      BY <2>4 DEF AfterNAT, Optional
    <3> QED
      BY <1>1, <1>2, <1>3, <2>4, <3>1
  <2> QED
    BY <2>1, <2>2, <2>3, <2>4
<1>5. (IF HasNAT(f, type) THEN Unb64(f[7]) ELSE Empty) = m.nat
  BY RestSent, CodecAssumption DEF Message
<1>6. Decode(f, m.digest) =
        [rand |-> m.rand, user |-> m.user, stamp |-> m.stamp, type |-> type,
         text |-> m.text, nat |-> m.nat, auth |-> m.auth,
         timeout |-> IF timed THEN m.timeout ELSE 0, digest |-> Detected(m.digest)]
  BY <1>4, <1>5, HeadRead DEF Decode
<1>7. (IF timed THEN m.timeout ELSE 0) = IF type = Command THEN 0 ELSE m.timeout
  BY <1>3
<1> QED
  BY <1>6, <1>7 DEF Meant

\* The state of an exchange: the packet carries the fields of the message and
\* is made with the sender's keys, what was decoded was decoded from it, and
\* what was rejected was too long, did not open or did not decode.
CodecInv ==
    /\ phase \notin {"start", "refused"} =>
          /\ msg \in Message
          /\ byClient => \E o \in ClientOptions : msg = ClientMessage(o)
    /\ phase \in {"sent", "rejected", "decoded"} =>
          /\ Validate(msg)
          /\ packet = [fields |-> Fields(msg), digest |-> msg.digest,
                       key |-> Passphrase(SenderKeys(sender).enc, SenderKeys(sender).mode),
                       mac |-> SenderKeys(sender).mac,
                       macType |-> SenderKeys(sender).macType]
    /\ phase = "decoded" => /\ Decodes(packet.fields)
                            /\ got = Decode(packet.fields, packet.digest)
    /\ phase = "rejected" => \/ ~ FitsBuffer(packet)
                             \/ ~ Opens(packet)
                             \/ ~ Decodes(packet.fields)

\* The client's options make a Message: its timeout fits 32 bits.
LEMMA ClientMessageType ==
    ASSUME NEW o \in ClientOptions
    PROVE  ClientMessage(o) \in Message
<1>1. o \in Option
  BY CodecAssumption
<1>2. ToUint(o.fwTimeout) \in Timeouts
  <2>1. \A n \in Nat, k \in Nat \ {0} : n % k \in 0..(k - 1)
    OBVIOUS
  <2>2. o.fwTimeout \in Nat /\ 2^TimeoutBits \in Nat \ {0}
    BY <1>1, CodecAssumption DEF Option
  <2> QED
    BY <2>1, <2>2 DEF ToUint, Timeouts
<1>3. (IF o.nat # Empty THEN IF o.natLocal THEN LocalNATAccess ELSE NATAccess
       ELSE IF o.command # Empty THEN Command ELSE Access) \in MessageType
  BY DEF LocalNATAccess, NATAccess, Command, Access, MessageType
<1> QED
  BY <1>1, <1>2, <1>3, CodecAssumption DEF ClientMessage, Message, Option

\* No step of an exchange changes the message or the packet once it is there.
LEMMA CodecInvariant == Spec => []CodecInv
<1>1. Init => CodecInv
  BY DEF Init, CodecInv
<1>2. CodecInv /\ [Next]_vars => CodecInv'
  <2> SUFFICES ASSUME CodecInv, [Next]_vars PROVE CodecInv'
    OBVIOUS
  <2>1. CASE ComposeByClient
    BY <2>1, ClientMessageType DEF ComposeByClient, CodecInv
  <2>2. CASE ComposeByLibrary
    BY <2>2, CodecAssumption DEF ComposeByLibrary, CodecInv
  <2>3. CASE Encrypt
    BY <2>3 DEF Encrypt, Encodes, CodecInv
  <2>4. CASE Receive
    BY <2>4 DEF Receive, CodecInv, Opens
  <2>5. CASE UNCHANGED vars
    BY <2>5 DEF vars, CodecInv, Opens
  <2> QED
    BY <2>1, <2>2, <2>3, <2>4, <2>5 DEF Next
<1> QED
  BY <1>1, <1>2, PTL DEF Spec

\* The server decodes a well-formed message as it was meant, for every text,
\* key, buffer size and width of the timeout.
THEOREM MessagesRoundTrip == Spec => []RoundTrip
<1>1. CodecInv => RoundTrip
  BY DecodeUndoesFields DEF CodecInv, RoundTrip
<1> QED
  BY <1>1, CodecInvariant, PTL

\* A decoded well-formed message asks for a time only if its type says so.
THEOREM TimeoutsFitTypes == Spec => []TimeoutFitsType
<1>1. CodecInv => TimeoutFitsType
  <2> SUFFICES ASSUME CodecInv, phase = "decoded", WellFormed(msg), got.timeout > 0
               PROVE  got.type \in TimeoutTypes
    BY DEF TimeoutFitsType
  <2>1. msg \in Message /\ Validate(msg) /\ got = Meant(msg)
    BY DecodeUndoesFields DEF CodecInv
  <2>2. EffectiveType(msg) # Command /\ msg.timeout > 0
    BY <2>1 DEF Meant
  <2> QED
    BY <2>1, <2>2 DEF Meant, Message, EffectiveType, MessageType, TimeoutTypes, Command,
       Access, NATAccess, TimeoutAccess, TimeoutNATAccess, LocalNATAccess,
       TimeoutLocalNATAccess
<1> QED
  BY <1>1, CodecInvariant, PTL

\* The fields that identify a request are decoded from any valid message as
\* they were written, and so is the NAT access where the type has one.
LEMMA CoreDecoded ==
    ASSUME NEW m \in Message, Validate(m), NEW g, g = Decode(Fields(m), m.digest)
    PROVE  /\ \A f \in {"rand", "user", "stamp", "type", "text"} : g[f] = Meant(m)[f]
           /\ m.type \in NATTypes => g.nat = m.nat
           /\ m.type \notin NATTypes => g.nat = Empty
<1> DEFINE f == Fields(m)
           type == EffectiveType(m)
<1>1. /\ g.rand = m.rand /\ g.user = m.user /\ g.stamp = m.stamp
      /\ g.type = type /\ g.text = m.text
      /\ g.nat = IF HasNAT(f, type) THEN Unb64(f[7]) ELSE Empty
  BY HeadRead DEF Decode
<1>2. /\ Meant(m).rand = m.rand /\ Meant(m).user = m.user /\ Meant(m).stamp = m.stamp
      /\ Meant(m).type = type /\ Meant(m).text = m.text
  BY DEF Meant
<1>3. ASSUME m.type \in NATTypes PROVE g.nat = m.nat
  <2>1. m.nat # Empty
    BY <1>3, CodecAssumption DEF Validate, ValidNATAccess
  <2>2. Len(OptionalFields(m)) \in 1..3 /\ OptionalFields(m)[1] = B64(m.nat)
    BY <2>1, FieldsShape, OptionalShape
  <2>3. Len(f) > 6 /\ f[6 + 1] = B64(m.nat)
    BY <2>2, FieldsShape
  <2>4. HasNAT(f, type)
    BY <1>3, <2>3, TypeSent DEF HasNAT
  <2> QED
    BY <1>1, <2>3, <2>4, CodecAssumption DEF Message
<1>4. m.type \notin NATTypes => g.nat = Empty
  BY <1>1, TypeSent DEF HasNAT
<1> QED
  BY <1>1, <1>2, <1>3, <1>4

\* Whatever optional fields of whatever valid message are misread, the server
\* never mistakes who asks for what.
THEOREM CoreAlwaysArrives == Spec => []CoreArrives
<1>1. CodecInv => CoreArrives
  BY CoreDecoded DEF CodecInv, CoreArrives
<1> QED
  BY <1>1, CodecInvariant, PTL

\* What the server decodes is valid, though it does not validate it again.
THEOREM DecodedStaysValid == Spec => []DecodedIsValid
<1>1. CodecInv => DecodedIsValid
  <2> SUFFICES ASSUME CodecInv, phase = "decoded" PROVE Validate(got)
    BY DEF DecodedIsValid
  <2>1. /\ msg \in Message /\ Validate(msg)
        /\ got = Decode(Fields(msg), msg.digest)
    BY DEF CodecInv
  <2>2. /\ got.rand = msg.rand /\ got.user = msg.user /\ got.text = msg.text
        /\ got.type = EffectiveType(msg)
        /\ msg.type \in NATTypes => got.nat = msg.nat
    BY <2>1, CoreDecoded DEF Meant
  <2> QED
    BY <2>1, <2>2, TypeSent DEF Validate
<1> QED
  BY <1>1, CodecInvariant, PTL

\* A stanza with the settings of the client opens what the client sends.
LEMMA SameKeysOpen ==
    ASSUME SameSettings, phase \in {"rejected", "decoded"}, CodecInv
    PROVE  Opens(packet)
<1>1. /\ SenderKeys(sender).enc = StanzaKeys(stanza).enc
      /\ SenderKeys(sender).mode = StanzaKeys(stanza).mode
  BY DEF SameSettings, SenderKeys, StanzaKeys, Chosen
<1>2. SenderKeys(sender).mac = StanzaKeys(stanza).mac
  <2>1. CASE sender.useMac
    BY <2>1 DEF SameSettings, SenderKeys, StanzaKeys, Chosen
  <2>2. CASE ~ sender.useMac
    <3>1. stanza.mac = Empty /\ stanza.macB64 = Empty
      BY <2>2 DEF SameSettings
    <3> QED
      BY <2>2, <3>1 DEF SenderKeys, StanzaKeys, Chosen
  <2> QED
    BY <2>1, <2>2
<1>3. SenderKeys(sender).mac # Empty
        => SenderKeys(sender).macType = StanzaKeys(stanza).macType
  BY DEF SameSettings, SenderKeys, StanzaKeys
<1> QED
  BY <1>1, <1>2, <1>3 DEF CodecInv, Opens

\* With no server auth at most a timeout follows the NAT access, which is
\* never malformed.
LEMMA OneOptionalDecodes ==
    ASSUME NEW m \in Message, Validate(m), WellFormed(m), m.auth = Empty
    PROVE  Decodes(Fields(m))
<1>1. Len(AfterNAT(m)) \in 0..1
  BY DEF AfterNAT, Optional
<1>2. Len(Rest(Fields(m), EffectiveType(m))) \in 0..1
  BY <1>1, RestSent
<1>3. Len(Fields(m)) = 6 + Len(OptionalFields(m)) /\ Len(OptionalFields(m)) \in 0..3
  BY FieldsShape
<1>4. Len(Fields(m)) \in 6..9
  <2> \A n \in 0..3 : 6 + n \in 6..9
    OBVIOUS
  <2> QED
    BY <1>3, Zenon
<1>5. Number(Fields(m)[5]) = EffectiveType(m)
  BY HeadRead
<1> QED
  BY <1>2, <1>4, <1>5 DEF Decodes

\* Whatever options the user of the client gives, a stanza with the same
\* settings understands the packet, unless it outgrows the server's buffer.
THEOREM ClientIsUnderstood == Spec => []ClientUnderstood
<1>1. CodecInv => ClientUnderstood
  <2> SUFFICES ASSUME CodecInv, byClient, phase \in {"rejected", "decoded"}, SameSettings
               PROVE  \/ phase = "decoded" /\ got = Meant(msg)
                      \/ ~ FitsBuffer(packet)
    BY DEF ClientUnderstood
  <2>1. /\ msg \in Message /\ Validate(msg)
        /\ packet.fields = Fields(msg) /\ packet.digest = msg.digest
    BY DEF CodecInv
  <2>2. PICK o \in ClientOptions : msg = ClientMessage(o)
    BY DEF CodecInv
  <2>3. msg.auth = Empty /\ WellFormed(msg)
    BY <2>2 DEF ClientMessage, WellFormed, NATTypes
  <2>4. CASE phase = "decoded"
    BY <2>1, <2>3, <2>4, DecodeUndoesFields DEF CodecInv
  <2>5. CASE phase = "rejected"
    <3>1. Decodes(packet.fields)
      BY <2>1, <2>3, OneOptionalDecodes
    <3> QED
      BY <2>5, <3>1, SameKeysOpen DEF CodecInv
  <2> QED
    BY <2>4, <2>5
<1> QED
  BY <1>1, CodecInvariant, PTL

\* A field of which the decoder has to find out what it is.
IsOptional(w) ==
    \/ \E t \in Text : w = B64(t)
    \/ ParseTimeout(w) # -1

\* The decoder finds the optional fields of the message and no others.
LEMMA RestIsOptional ==
    ASSUME NEW m \in Message, NEW i \in 1..Len(Rest(Fields(m), EffectiveType(m)))
    PROVE  IsOptional(Rest(Fields(m), EffectiveType(m))[i])
<1> DEFINE f == Fields(m)
           rest == Rest(f, EffectiveType(m))
<1>1. Len(f) = 6 + Len(OptionalFields(m)) /\ Len(OptionalFields(m)) \in 0..3
  BY FieldsShape
<1>2. PICK k \in 7..8 : rest = SubSeq(f, k, Len(f))
  BY DEF Rest
<1>3. Len(f) \in Nat /\ Len(f) \in 6..9
  <2> \A n \in 0..3 : 6 + n \in Nat /\ 6 + n \in 6..9
    OBVIOUS
  <2> QED
    BY <1>1, Zenon
<1>4. Len(rest) = IF k <= Len(f) THEN Len(f) - k + 1 ELSE 0
  BY <1>2, <1>3
<1>5. rest[i] = f[k + i - 1] /\ k + i - 1 \in 7..Len(f)
  <2> k \in Nat /\ i \in Nat /\ i \in 1..Len(rest)
    BY <1>3, <1>4
  <2>1. k <= Len(f) /\ i <= Len(f) - k + 1
    BY <1>3, <1>4
  <2>2. rest[i] = f[k + i - 1]
    BY <1>2, <1>3, <2>1
  <2> QED
    BY <1>3, <2>1, <2>2
<1>6. PICK j \in 1..Len(OptionalFields(m)) : rest[i] = OptionalFields(m)[j]
  <2>1. k + i - 1 - 6 \in 1..Len(OptionalFields(m)) /\ 6 + (k + i - 1 - 6) = k + i - 1
    BY <1>1, <1>5
  <2> QED
    BY <1>5, <2>1, FieldsShape
<1>7. \/ OptionalFields(m)[j] \in {B64(m.nat), B64(m.auth)}
      \/ OptionalFields(m)[j] = Dec(m.timeout)
  BY DEF OptionalFields, AfterNAT, Optional
<1>8. ParseTimeout(Dec(m.timeout)) # -1
  BY CodecAssumption DEF Message, ParseTimeout
<1>9. m.nat \in Text /\ m.auth \in Text
  BY DEF Message
<1> QED
  BY <1>6, <1>7, <1>8, <1>9 DEF IsOptional

\* What the decoder makes of any valid message is a Message: no optional field
\* that is misread is out of its range.
LEMMA DecodedIsMessage ==
    ASSUME NEW m \in Message, Validate(m), Decodes(Fields(m))
    PROVE  Decode(Fields(m), m.digest) \in Message
<1> DEFINE f == Fields(m)
           type == EffectiveType(m)
           rest == Rest(f, type)
           timeoutFirst == Len(rest) >= 1 /\ ParseTimeout(rest[1]) # -1
           auth == IF Len(rest) = 0 \/ timeoutFirst THEN Empty ELSE Unb64(rest[1])
           timeout == IF timeoutFirst THEN ParseTimeout(rest[1])
                      ELSE IF Len(rest) >= 2 THEN ParseTimeout(rest[2]) ELSE 0
           nat == IF HasNAT(f, type) THEN Unb64(f[7]) ELSE Empty
<1>0. Len(rest) \in Nat
  <2>1. Len(f) = 6 + Len(OptionalFields(m)) /\ Len(OptionalFields(m)) \in 0..3
    BY FieldsShape
  <2> QED
    BY <2>1 DEF Rest
<1>1. auth \in Text
  <2>1. CASE Len(rest) = 0 \/ timeoutFirst
    BY <2>1, CodecAssumption
  <2>2. CASE Len(rest) # 0 /\ ~ timeoutFirst
    <3>1. 1 \in 1..Len(rest) /\ ParseTimeout(rest[1]) = -1
      BY <1>0, <2>2
    <3>2. PICK t \in Text : rest[1] = B64(t)
      BY <3>1, RestIsOptional DEF IsOptional
    <3> QED
      BY <2>2, <3>2, CodecAssumption
  <2> QED
    BY <2>1, <2>2
<1>2. timeout \in Timeouts
  <2>1. \A w : ParseTimeout(w) # -1 => ParseTimeout(w) \in Timeouts
    BY DEF ParseTimeout
  <2>2. 0 \in Timeouts
    BY CodecAssumption DEF Timeouts
  <2>3. Number(f[5]) = type
    BY HeadRead
  <2>4. Len(rest) >= 2 /\ ParseTimeout(rest[1]) = -1 => ParseTimeout(rest[2]) # -1
    BY <2>3 DEF Decodes
  <2>5. ~ timeoutFirst /\ Len(rest) >= 2 => ParseTimeout(rest[2]) # -1
    BY <1>0, <2>4
  <2> QED
    BY <2>1, <2>2, <2>5
<1>3. Decode(f, m.digest) =
        [rand |-> m.rand, user |-> m.user, stamp |-> m.stamp, type |-> type,
         text |-> m.text, nat |-> nat, auth |-> auth, timeout |-> timeout,
         digest |-> Detected(m.digest)]
  BY HeadRead DEF Decode
<1>4. nat \in Text
  <2>1. Decode(f, m.digest).nat \in {m.nat, Empty}
    BY CoreDecoded
  <2> QED
    BY <1>3, <2>1, CodecAssumption DEF Message
<1>5. Detected(m.digest) \in Digests
  BY DEF Detected, Digests, Message
<1> QED
  BY <1>1, <1>2, <1>3, <1>4, <1>5, TypeSent DEF Message

\* Whatever is sent, the server's message keeps its types: a timeout fits 32
\* bits even where it is a server auth misread.
THEOREM TypeCorrect == Spec => []TypeOK
<1> DEFINE Placed == /\ phase \in {"start", "composed", "refused", "sent", "rejected", "decoded"}
                     /\ byClient \in BOOLEAN
                     /\ sender \in SenderSettings /\ stanza \in StanzaSettings
<1>1. Init => Placed
  BY DEF Init
<1>2. Placed /\ [Next]_vars => Placed'
  BY DEF Next, ComposeByClient, ComposeByLibrary, Encrypt, Receive, vars
<1>3. CodecInv /\ Placed => TypeOK
  BY DecodedIsMessage DEF CodecInv, TypeOK
<1> QED
  BY <1>1, <1>2, <1>3, CodecInvariant, PTL DEF Spec
=============================================================================
