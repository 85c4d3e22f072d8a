----------------------------- MODULE MCSpaCodec -----------------------------
(* An instance of SpaCodec for TLC. *)
EXTENDS SpaCodec, TLC

\* A user and a name that is none, a request, a short, a long and a very long
\* command, a NAT access, a server auth string, and two of two bytes whose
\* base64 is all digits, one of them a number beyond the width of a timeout.
MCText == {"", "alice", "1.2.3.4,tcp/22", "1.2.3.4,tcp/65536", "id", "c800", "c1200",
           "10.0.0.1,22", "secret", "bytes", "wide", "bad user"}
MCSizeOf == ("" :> 0) @@ ("alice" :> 5) @@ ("1.2.3.4,tcp/22" :> 14)
            @@ ("1.2.3.4,tcp/65536" :> 17) @@ ("id" :> 2) @@ ("c800" :> 800)
            @@ ("c1200" :> 1200) @@ ("10.0.0.1,22" :> 11) @@ ("secret" :> 6)
            @@ ("bytes" :> 2) @@ ("wide" :> 2) @@ ("bad user" :> 8)
MCSize(t) == MCSizeOf[t]
MCPrintable == MCText \ {"bad user", "bytes", "wide"}
MCRequests == {"1.2.3.4,tcp/22", "1.2.3.4,tcp/65536"}
MCPortOf(t) == IF t = "1.2.3.4,tcp/22" THEN 22 ELSE 65536

MCB64Of ==
    ("" :> "") @@ ("alice" :> "YWxpY2U") @@ ("1.2.3.4,tcp/22" :> "MS4yLjMuNCx0Y3AvMjI")
    @@ ("1.2.3.4,tcp/65536" :> "MS4yLjMuNCx0Y3AvNjU1MzY") @@ ("id" :> "aWQ")
    @@ ("c800" :> "b64 of c800") @@ ("c1200" :> "b64 of c1200")
    @@ ("10.0.0.1,22" :> "MTAuMC4wLjEsMjI") @@ ("secret" :> "c2VjcmV0") @@ ("bytes" :> "120") @@ ("wide" :> "200")
    @@ ("bad user" :> "YmFkIHVzZXI")
MCB64(t) == MCB64Of[t]
MCUnb64(w) == IF \E t \in MCText : MCB64Of[t] = w
              THEN CHOOSE t \in MCText : MCB64Of[t] = w ELSE "undecodable"

MCNumberOf == [w \in {ToString(n) : n \in 0..255} |->
                 CHOOSE n \in 0..255 : ToString(n) = w]
MCDec(n) == ToString(n)
MCNumber(w) == IF w \in DOMAIN MCNumberOf THEN MCNumberOf[w] ELSE -1

MCLengthOf ==
    ("" :> 0) @@ ("YWxpY2U" :> 7) @@ ("MS4yLjMuNCx0Y3AvMjI" :> 19) @@ ("aWQ" :> 3)
    @@ ("MS4yLjMuNCx0Y3AvNjU1MzY" :> 23) @@ ("b64 of c800" :> 1067)
    @@ ("b64 of c1200" :> 1600) @@ ("MTAuMC4wLjEsMjI" :> 15)
    @@ ("c2VjcmV0" :> 8) @@ ("120" :> 3) @@ ("200" :> 3) @@ ("YmFkIHVzZXI" :> 11) @@ ("3.0.0" :> 5) @@ ("1234567890123456" :> 16)
MCLength(w) == IF w \in DOMAIN MCLengthOf THEN MCLengthOf[w] ELSE 2

MCRand == {"1234567890123456", "123"}
MCDigits == MCRand
MCGoodRand == {"1234567890123456"}
MCStamp == {99}

\* Requests, commands and both at once; no timeout, one within the width, and
\* two beyond it.
MCClientOptions ==
    [user : {"alice", "bad user"}, access : {"1.2.3.4,tcp/22", "1.2.3.4,tcp/65536"},
     command : {"", "id", "1.2.3.4,tcp/22", "c800"}, nat : {"", "10.0.0.1,22", "c800"},
     natLocal : BOOLEAN, fwTimeout : {0, 5, 128, 133}, rand : MCGoodRand, stamp : MCStamp,
     digest : {"sha256", "sha3_512"}]

\* Every type with every choice of optional fields.
MCLibraryMessages ==
    [rand : MCRand, user : {"alice"}, stamp : MCStamp, type : 0..6,
     text : {"1.2.3.4,tcp/22", "c1200"}, nat : {"", "10.0.0.1,22"},
     auth : {"", "secret", "bytes", "wide"}, timeout : {0, 5, 120}, digest : {"md5", "sha3_256"}]

\* Keys: a short passphrase, its base64, a long one, and no base64 at all.
MCKeyText == {"", "short", "c2hvcnQ=", "long", "???"}
MCKeyBytes(t) == IF t = "c2hvcnQ=" THEN "short" ELSE "invalid"
MCPadded(k) == IF k = "short" THEN "short00000000000" ELSE k
MCLower(w) == IF w = "SHA256" THEN "sha256" ELSE IF w = "Legacy" THEN "legacy" ELSE w

Setting(key, keyB64, mac, macB64, useMac, macType, mode) ==
    [key |-> key, keyB64 |-> keyB64, mac |-> mac, macB64 |-> macB64, useMac |-> useMac,
     macType |-> macType, mode |-> mode]

\* Plain and base64 keys, both at once, HMAC or none, the names of types and
\* modes and their spellings, and settings that are refused.
MCSenderSettings ==
    {Setting("short", "", "long", "", TRUE, "sha256", "cbc"),
     Setting("long", "c2hvcnQ=", "", "c2hvcnQ=", TRUE, "sha3-256", "Legacy"),
     Setting("long", "", "", "", FALSE, "sha256", "legacy"),
     Setting("short", "", "", "", TRUE, "sha256", "cbc"),
     Setting("short", "???", "long", "", TRUE, "sha256", "cbc")}
MCStanzaSettings ==
    {Setting("short", "", "long", "", TRUE, "", ""),
     Setting("long", "c2hvcnQ=", "", "c2hvcnQ=", TRUE, "sha3-256", "Legacy"),
     Setting("long", "", "", "", FALSE, "SHA256", "cbc"),
     Setting("long", "", "", "", FALSE, "sha256", "legacy"),
     Setting("short", "", "long", "", TRUE, "md4", "cbc")}
=============================================================================
