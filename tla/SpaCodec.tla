------------------------------ MODULE SpaCodec ------------------------------
(***************************************************************************)
(* One SPA message on its way from a sender to fwknopd: composed by the    *)
(* client (cmd/fwknop) or by a user of the library, with keys resolved     *)
(* from settings on either side (config.go, access.go); validated,         *)
(* encoded and encrypted (fkospa/spa_encode.go), received into a buffer of *)
(* fixed size (cmd/fwknopd/server.go), decrypted and decoded               *)
(* (fkospa/spa_decode.go).                                                 *)
(*                                                                         *)
(* A field of the wire format is a text without colons.  Base64 and        *)
(* decimal notation are two ways of writing that share texts: some server  *)
(* auth strings have a base64 form that reads as a number, and the decoder *)
(* tells the optional fields apart by the message type and by that alone.  *)
(***************************************************************************)
EXTENDS Integers, Sequences, Functions

CONSTANTS
    Text,             \* usernames, requests, commands, NAT and auth strings
    Size(_),          \* the length of a text, in bytes
    Printable,        \* texts of printable characters without spaces
    Requests,         \* texts of the form IP,proto/port
    PortOf(_),        \* the port number in such a text
    Rand, Digits,     \* random values, and those of digits only
    Stamp,            \* timestamps
    B64(_), Unb64(_), \* base64 without padding, and its decoder
    Dec(_), Number(_),\* decimal notation, and its parser: -1 for no number
    Length(_),        \* length of a field, in bytes
    Version,          \* ProtocolVersion
    TimeoutBits,      \* width of the timeout, uint32
    ClientOptions,    \* what the user of the client asks for
    LibraryMessages,  \* the messages a user of the library fills in
    MinEncoded, MaxEncoded,   \* limits of Encode, in bytes
    BufferSize,       \* the buffer ReadFromUDP reads into
    KeyText,          \* keys as they are written in settings
    KeyBytes(_),      \* what such a text is the base64 of, or Invalid
    Padded(_),        \* a passphrase filled up with '0' to 16 bytes
    Lower(_),         \* a text in lower case
    SenderSettings, StanzaSettings  \* key settings of senders and of stanzas

Empty == ""          \* an optional text that is not there
Invalid == "invalid" \* not base64
Unknown == "unknown" \* not the name of a digest or mode
Timeouts == 0..(2^TimeoutBits - 1)

Command == 0
Access == 1
NATAccess == 2
TimeoutAccess == 3
TimeoutNATAccess == 4
LocalNATAccess == 5
TimeoutLocalNATAccess == 6
MessageType == 0..6

NATTypes == {NATAccess, TimeoutNATAccess, LocalNATAccess, TimeoutLocalNATAccess}
TimeoutTypes == {TimeoutAccess, TimeoutNATAccess, TimeoutLocalNATAccess}

Digests == {"md5", "sha1", "sha256", "sha384", "sha512", "sha3_256", "sha3_512"}

Message == [rand : Rand, user : Text, stamp : Stamp, type : MessageType, text : Text,
            nat : Text, auth : Text, timeout : Timeouts, digest : Digests]

\* Options of the client; Empty where an option is not given.
Option == [user : Text, access : Text, command : Text, nat : Text, natLocal : BOOLEAN,
           fwTimeout : Nat, rand : Rand, stamp : Stamp, digest : Digests]

\* The key settings of a client or of a stanza; useMac is the client's alone.
\* A user of the library passes keys directly, as settings without base64 do.
IsSetting(c) ==
    /\ {c.key, c.keyB64, c.mac, c.macB64} \subseteq KeyText
    /\ c.useMac \in BOOLEAN

ASSUME CodecAssumption ==
    /\ TimeoutBits \in Nat /\ 2^TimeoutBits \in Nat \ {0}
    /\ ClientOptions \subseteq Option
    /\ LibraryMessages \subseteq Message
    /\ \A c \in SenderSettings \union StanzaSettings : IsSetting(c)
    /\ Empty \in Text
    /\ Size(Empty) = 0
    /\ \A t \in Text : Unb64(B64(t)) = t /\ Length(B64(t)) = (4 * Size(t) + 2) \div 3
    /\ \A n \in Timeouts \union MessageType \union Stamp : Number(Dec(n)) = n
    /\ Timeouts \union Stamp \subseteq Nat

VARIABLES
    phase,    \* composed, refused (by the sender), sent, rejected or decoded
    msg,      \* the Message of the sender
    byClient, \* cmd/fwknop made it
    sender,   \* the key settings of the sender
    packet,   \* the datagram
    stanza,   \* the key settings of the server's stanza
    got       \* the Message of the server

vars == <<phase, msg, byClient, sender, packet, stanza, got>>
-----------------------------------------------------------------------------
(* Keys *)

\* A base64 key goes before a plain one.
Chosen(b64, plain) == IF b64 # Empty THEN KeyBytes(b64) ELSE plain

\* resolveDigestType, resolveHMACType: SHA-3 has two spellings.
DigestNamed(w) ==
    LET l == Lower(w) IN
    IF l \in Digests THEN l
    ELSE IF l = "sha3-256" THEN "sha3_256"
    ELSE IF l = "sha3-512" THEN "sha3_512" ELSE Unknown

\* resolveEncMode.
ModeNamed(w) == IF Lower(w) \in {"cbc", "legacy"} THEN Lower(w) ELSE Unknown

Default(w, default) == IF w = Empty THEN default ELSE w

\* legacyPadPassphrase: the modes differ in nothing but this.
Passphrase(key, mode) == IF mode = "legacy" THEN Padded(key) ELSE key

\* resolveEncKey, resolveHMACKey: without --use-hmac there is no HMAC, and its
\* type is not looked at.
SenderKeys(c) ==
    [enc |-> Chosen(c.keyB64, c.key), mode |-> ModeNamed(c.mode),
     mac |-> IF c.useMac THEN Chosen(c.macB64, c.mac) ELSE Empty,
     macType |-> IF c.useMac THEN DigestNamed(c.macType) ELSE "sha256"]

\* resolve, of a stanza: type and mode have defaults.
StanzaKeys(c) ==
    [enc |-> Chosen(c.keyB64, c.key), mode |-> ModeNamed(Default(c.mode, "cbc")),
     mac |-> Chosen(c.macB64, c.mac),
     macType |-> DigestNamed(Default(c.macType, "sha256"))]

Usable(k) ==
    /\ k.enc \notin {Empty, Invalid}
    /\ k.mac # Invalid
    /\ k.macType # Unknown /\ k.mode # Unknown

\* The client wants an HMAC key if it is to use one, a stanza does not.
SenderUsable(c) == Usable(SenderKeys(c)) /\ (c.useMac => SenderKeys(c).mac # Empty)
-----------------------------------------------------------------------------
(* The sender *)

\* A fault: the timeout is not converted to 32 bits.
ToUintWide(n) == n

\* Go's conversion of the --fw-timeout to uint32.
ToUint(n) == n % 2^TimeoutBits

\* run of the client: the message its options make.  NAT options override the
\* type of a command.
ClientMessage(o) ==
    [rand |-> o.rand, user |-> o.user, stamp |-> o.stamp, digest |-> o.digest,
     text |-> IF o.command # Empty THEN o.command ELSE o.access,
     type |-> IF o.nat # Empty THEN IF o.natLocal THEN LocalNATAccess ELSE NATAccess
              ELSE IF o.command # Empty THEN Command ELSE Access,
     nat |-> o.nat, auth |-> Empty, timeout |-> ToUint(o.fwTimeout)]

ValidRandVal(r) == r \in Digits /\ Length(r) = 16
ValidUsername(u) == u \in Printable /\ Size(u) \in 1..64
ValidAccessMsg(t) == t \in Requests /\ Size(t) \in 1..256 /\ PortOf(t) \in 1..65535
ValidCmdMsg(t) == Size(t) \in 1..1400
ValidNATAccess(n) == Size(n) \in 1..128

Validate(m) ==
    /\ ValidRandVal(m.rand)
    /\ ValidUsername(m.user)
    /\ IF m.type = Command THEN ValidCmdMsg(m.text) ELSE ValidAccessMsg(m.text)
    /\ m.type \in NATTypes => ValidNATAccess(m.nat)

\* A fault: a request keeps its type whatever its timeout.
KeptType(m) == m.type

\* effectiveMessageType.
EffectiveType(m) ==
    IF m.timeout = 0 THEN m.type
    ELSE IF m.type = Access THEN TimeoutAccess
    ELSE IF m.type = NATAccess THEN TimeoutNATAccess
    ELSE IF m.type = LocalNATAccess THEN TimeoutLocalNATAccess
    ELSE m.type

Optional(present, field) == IF present THEN <<field>> ELSE <<>>

\* A fault: the timeout of a command is sent like any other.
FieldsAnyTimeout(m) ==
    <<m.rand, B64(m.user), Dec(m.stamp), Version, Dec(EffectiveType(m)), B64(m.text)>>
    \o Optional(m.nat # Empty, B64(m.nat))
    \o Optional(m.auth # Empty, B64(m.auth))
    \o Optional(m.timeout > 0, Dec(m.timeout))

\* Encode, before the digest.
Fields(m) ==
    <<m.rand, B64(m.user), Dec(m.stamp), Version, Dec(EffectiveType(m)), B64(m.text)>>
    \o Optional(m.nat # Empty, B64(m.nat))
    \o Optional(m.auth # Empty, B64(m.auth))
    \o Optional(m.timeout > 0 /\ EffectiveType(m) # Command, Dec(m.timeout))

\* The length of the fields and the colons between them.
EncodedLength(f) == SumFunction([i \in DOMAIN f |-> Length(f[i])]) + Len(f) - 1

Encodes(m) == Validate(m) /\ EncodedLength(Fields(m)) \in MinEncoded..MaxEncoded

\* Base64 lengths of digests and HMACs; SHA-3 shares those of SHA-2.
HashLength(d) ==
    CASE d = "md5" -> 22
      [] d = "sha1" -> 27
      [] d \in {"sha256", "sha3_256"} -> 43
      [] d = "sha384" -> 64
      [] d \in {"sha512", "sha3_512"} -> 86

\* Encrypt: the salt header and the padded blocks in base64, less the ten
\* characters every ciphertext begins with, and the HMAC.
PacketLength(p) ==
    LET plain == EncodedLength(p.fields) + 1 + HashLength(p.digest)
        bytes == 16 + 16 * (plain \div 16 + 1)
    IN  (4 * bytes + 2) \div 3 - 10 + (IF p.mac = Empty THEN 0 ELSE HashLength(p.macType))

\* ReadFromUDP cuts a datagram off at the buffer's end; what is left does not
\* decrypt.
FitsBuffer(p) == PacketLength(p) <= BufferSize
-----------------------------------------------------------------------------
(* The server *)

\* A fault: the NAT field is looked for whatever the type.
HasNATAlways(f, type) == Len(f) > 6

\* A fault: the types with a timeout are left out.
HasNATPlain(f, type) == Len(f) > 6 /\ type \in {NATAccess, LocalNATAccess}

\* Field 6, counted from 0, is the NAT access of the types that require one.
HasNAT(f, type) == Len(f) > 6 /\ type \in NATTypes

\* detectDigestType, on the length of the digest; verifyDigest then tries the
\* SHA-3 variant too but leaves the type as detected.
Detected(d) ==
    IF d = "sha3_256" THEN "sha256" ELSE IF d = "sha3_512" THEN "sha512" ELSE d

\* strconv.ParseUint of 32 bits: -1 for a text that is no timeout.
ParseTimeout(w) == IF Number(w) \in Timeouts THEN Number(w) ELSE -1

\* The fields after the message and the NAT access.
Rest(f, type) == SubSeq(f, IF HasNAT(f, type) THEN 8 ELSE 7, Len(f))

\* A fault: seven fields at least.
DecodesSeven(f) ==
    LET rest == Rest(f, Number(f[5])) IN
    /\ Len(f) \in 7..9
    /\ Len(rest) >= 2 /\ ParseTimeout(rest[1]) = -1 => ParseTimeout(rest[2]) # -1

\* A second field after these is a timeout, or the packet is malformed.
Decodes(f) ==
    LET rest == Rest(f, Number(f[5])) IN
    /\ Len(f) \in 6..9
    /\ Len(rest) >= 2 /\ ParseTimeout(rest[1]) = -1 => ParseTimeout(rest[2]) # -1

\* decodePlaintext: what follows is the timeout when it reads as one, and the
\* server auth and perhaps a timeout when it does not.
Decode(f, digest) ==
    LET type == Number(f[5])
        rest == Rest(f, type)
        timeoutFirst == Len(rest) >= 1 /\ ParseTimeout(rest[1]) # -1
    IN  [rand |-> f[1], user |-> Unb64(f[2]), stamp |-> Number(f[3]), type |-> type,
         text |-> Unb64(f[6]),
         nat |-> IF HasNAT(f, type) THEN Unb64(f[7]) ELSE Empty,
         auth |-> IF Len(rest) = 0 \/ timeoutFirst THEN Empty ELSE Unb64(rest[1]),
         timeout |-> IF timeoutFirst THEN ParseTimeout(rest[1])
                     ELSE IF Len(rest) >= 2 THEN ParseTimeout(rest[2]) ELSE 0,
         digest |-> Detected(digest)]

\* Decrypt, up to the plaintext: HMAC first, then the cipher.  A stanza without
\* an HMAC key takes an HMAC for part of the ciphertext.
Opens(p) ==
    LET k == StanzaKeys(stanza) IN
    /\ p.mac = k.mac
    /\ p.mac # Empty => p.macType = k.macType
    /\ p.key = Passphrase(k.enc, k.mode)
-----------------------------------------------------------------------------
NoMessage == [type |-> -1]

Init ==
    /\ phase = "start"
    /\ msg = NoMessage
    /\ byClient \in BOOLEAN
    /\ sender \in SenderSettings
    /\ packet = NoMessage
    /\ stanza \in {c \in StanzaSettings : Usable(StanzaKeys(c))}
    /\ got = NoMessage

\* cmd/fwknop resolves its keys and composes a message from its options.
ComposeByClient ==
    /\ phase = "start"
    /\ byClient
    /\ IF SenderUsable(sender)
       THEN phase' = "composed" /\ \E o \in ClientOptions : msg' = ClientMessage(o)
       ELSE phase' = "refused" /\ UNCHANGED msg
    /\ UNCHANGED <<byClient, sender, packet, stanza, got>>

\* A user of the library fills in the fields at will.
ComposeByLibrary ==
    /\ phase = "start"
    /\ ~ byClient
    /\ SenderUsable(sender)
    /\ msg' \in LibraryMessages
    /\ phase' = "composed"
    /\ UNCHANGED <<byClient, sender, packet, stanza, got>>

\* Encrypt: refused by Encode, or a packet.
Encrypt ==
    /\ phase = "composed"
    /\ LET k == SenderKeys(sender) IN
       IF Encodes(msg)
       THEN /\ phase' = "sent"
            /\ packet' = [fields |-> Fields(msg), digest |-> msg.digest,
                          key |-> Passphrase(k.enc, k.mode),
                          mac |-> k.mac, macType |-> k.macType]
       ELSE phase' = "refused" /\ UNCHANGED packet
    /\ UNCHANGED <<msg, byClient, sender, stanza, got>>

\* processSPAPacket, up to the decoded message.
Receive ==
    /\ phase = "sent"
    /\ IF FitsBuffer(packet) /\ Opens(packet) /\ Decodes(packet.fields)
       THEN phase' = "decoded" /\ got' = Decode(packet.fields, packet.digest)
       ELSE phase' = "rejected" /\ UNCHANGED got
    /\ UNCHANGED <<msg, byClient, sender, packet, stanza>>

Next == ComposeByClient \/ ComposeByLibrary \/ Encrypt \/ Receive

Spec == Init /\ [][Next]_vars
-----------------------------------------------------------------------------
(* Properties *)

\* What the sender means: the type and the timeout as Encode adjusts them, the
\* digest as the length of it shows.
Meant(m) ==
    [rand |-> m.rand, user |-> m.user, stamp |-> m.stamp, type |-> EffectiveType(m),
     text |-> m.text, nat |-> m.nat, auth |-> m.auth,
     timeout |-> IF EffectiveType(m) = Command THEN 0 ELSE m.timeout,
     digest |-> Detected(m.digest)]

\* The messages whose optional fields the decoder can tell apart: NAT access
\* only with a type that has it, and no server auth that reads as a timeout.
WellFormed(m) ==
    /\ m.nat # Empty => m.type \in NATTypes
    /\ m.auth # Empty => ParseTimeout(B64(m.auth)) = -1

\* Every variable holds a value of its type.
TypeOK ==
    /\ phase \in {"start", "composed", "refused", "sent", "rejected", "decoded"}
    /\ phase \notin {"start", "refused"} => msg \in Message
    /\ byClient \in BOOLEAN
    /\ sender \in SenderSettings /\ stanza \in StanzaSettings
    /\ phase = "decoded" => got \in Message

\* A well-formed message that the server decodes is the one that was meant, in
\* every field, though the optional fields have no names on the wire.
RoundTrip == phase = "decoded" /\ WellFormed(msg) => got = Meant(msg)

\* The two sides were given the same keys: the same texts in the same places,
\* with the stanza's defaults spelled out or left out.
SameSettings ==
    /\ \A f \in {"key", "keyB64", "mac", "macB64"} : sender[f] = stanza[f]
    /\ sender.useMac <=> stanza.mac # Empty \/ stanza.macB64 # Empty
    /\ sender.macType = Default(stanza.macType, "sha256")
    /\ sender.mode = Default(stanza.mode, "cbc")

\* What the client sends to a stanza with the same settings is decoded as meant
\* whatever its options were, unless the packet outgrows the server's buffer.
ClientUnderstood ==
    byClient /\ phase \in {"rejected", "decoded"} /\ SameSettings =>
        \/ phase = "decoded" /\ got = Meant(msg)
        \/ ~ FitsBuffer(packet)

\* Whatever optional fields are misread, what a request is and who makes it
\* never is, and nothing else is ever taken for the NAT access: a misread
\* message asks for no other service than the one that was meant.
CoreArrives ==
    phase = "decoded" =>
        /\ \A f \in {"rand", "user", "stamp", "type", "text"} : got[f] = Meant(msg)[f]
        /\ got.nat \in {Empty, msg.nat}

\* A decoded message asks for a time only if its type says so, for messages
\* the decoder can tell apart; the server looks at the time alone.
TimeoutFitsType ==
    phase = "decoded" /\ WellFormed(msg) /\ got.timeout > 0 => got.type \in TimeoutTypes

\* What was decoded passes the sender's validation, which the server does not
\* repeat before it acts.
DecodedIsValid == phase = "decoded" => Validate(got)

\* Every field the sender filled in is there after decryption.  The code does
\* not give this: an access message with a NAT field, or a server auth whose
\* base64 is all digits, comes out as something else.
AllFieldsAvailable == phase = "decoded" => got = Meant(msg)
=============================================================================
