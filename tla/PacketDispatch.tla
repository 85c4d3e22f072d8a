--------------------------- MODULE PacketDispatch ---------------------------
(***************************************************************************)
(* How fwknopd decides about a packet: processSPAPacket and dispatchAction *)
(* of cmd/fwknopd/server.go with the helpers of access.go and actions.go.  *)
(* The stanzas of access.yaml are tried in order; the first one that       *)
(* admits the sender and whose keys open the packet decides, whatever it   *)
(* decides.  The cache is taken at its word (Admission): a packet once     *)
(* recorded is a duplicate until it is too old anyway.                     *)
(***************************************************************************)
EXTENDS Integers, Sequences

CONSTANTS
    Packet,       \* the packets in circulation
    Msg,          \* Msg[p]: what p decrypts to, and the keys that open it
    Address,      \* source addresses of datagrams
    AddrOf,       \* the address a text of an access message denotes
    Fold,         \* a proto/port text in lower case
    Unspecified,  \* the texts 0.0.0.0 and ::
    NoUser,       \* require_username is not set
    Policies,     \* the access.yaml files considered: sequences of stanzas
    Covers,       \* the addresses of each network that parses
    AnySource, AllNets, \* the source ANY, and the networks it stands for
    NoKey,        \* a stanza without an encryption key
    DefaultTimeout, DefaultMaxTimeout,  \* for stanzas that say 0
    Test,         \* the daemon runs with --test
    IntBits,      \* width of int
    TimeoutBits   \* width of the client timeout, an unsigned number

ASSUME DispatchAssumption ==
    /\ IntBits \in Nat \ {0}
    /\ TimeoutBits \in Nat
    /\ \A p \in Packet : Msg[p].timeout \in 0..(2^TimeoutBits - 1)
    /\ \A f \in Policies :
          /\ Len(f) \in Nat /\ DOMAIN f = 1..Len(f)
          /\ \A i \in 1..Len(f) : f[i].timeout \in Nat /\ f[i].maxTimeout \in Nat
    /\ \A a \in Address : AddrOf[a] = a
    /\ DefaultTimeout \in Nat \ {0} /\ DefaultMaxTimeout \in Nat \ {0}
    /\ AllNets \subseteq DOMAIN Covers

VARIABLES
    stanzas,   \* the loaded access file
    stale,     \* packets older than max_spa_packet_age
    seen,      \* packets recorded in the replay cache
    pc,        \* where processSPAPacket stands
    idx,       \* the stanza being tried
    pkt, src,  \* the packet being served and the sender of this copy
    effects,   \* history: the rules opened and commands run
    refused    \* history: packets recorded and then turned down

vars == <<stanzas, stale, seen, pc, idx, pkt, src, effects, refused>>

msg == Msg[pkt]
stanza == stanzas[idx]
-----------------------------------------------------------------------------
(* Loading access.yaml *)

\* resolve refuses a stanza without a source, with one that is no network, or
\* without a key.
Resolves(s) ==
    /\ s.source # {}
    /\ s.source = {AnySource} \/ s.source \subseteq DOMAIN Covers
    /\ s.key # NoKey

\* What resolve makes of a stanza: its networks, and defaults for timeouts.
Resolve(s) ==
    [nets |-> IF s.source = {AnySource} THEN AllNets ELSE s.source,
     key |-> s.key, user |-> s.user, ports |-> s.ports,
     requireSource |-> s.requireSource, cmdExec |-> s.cmdExec,
     timeout |-> IF s.timeout = 0 THEN DefaultTimeout ELSE s.timeout,
     maxTimeout |-> IF s.maxTimeout = 0 THEN DefaultMaxTimeout ELSE s.maxTimeout]

\* loadAccessConfig: one stanza that does not resolve, and the daemon does not
\* start.
AccessConfigs ==
    {[i \in DOMAIN f |-> Resolve(f[i])] :
        f \in {g \in Policies : \A i \in DOMAIN g : Resolves(g[i])}}

(* The helpers *)

\* matchSource, on the networks the source field was parsed to.
MatchSource(s, ip) == \E n \in s.nets : ip \in Covers[n]

\* Decrypt succeeds with the encryption key, HMAC key and mode it was made with.
\* A packet stands for its text, as it does for the digest of the text: without an
\* HMAC lenient base64 opens several texts as one message, each a packet here.
Decrypts(s, m) == s.key = m.key

\* A fault: the text must be an address, whoever's.
ContainsAddress(text, ip) == \E a \in Address : AddrOf[text] = a

\* containsIP compares addresses, not texts; a text that is none never matches.
ContainsIP(text, ip) == AddrOf[text] = ip

\* allowsPort: an empty list allows everything, even a port that is missing.
AllowsPort(s, port) == s.ports = {} \/ \E a \in s.ports : Fold[a] = Fold[port]

\* Go's conversion of an unsigned number to int.
ToInt(n) ==
    LET m == n % 2^IntBits IN IF m >= 2^(IntBits - 1) THEN m - 2^IntBits ELSE m

\* A fault: what the client asks for is not capped.
UncappedTimeout(m, s) == IF m.timeout > 0 THEN ToInt(m.timeout) ELSE s.timeout

\* effectiveTimeout: the client's wish up to the stanza's cap, or the default.
EffectiveTimeout(m, s) ==
    IF m.timeout = 0 THEN s.timeout
    ELSE IF ToInt(m.timeout) > s.maxTimeout THEN s.maxTimeout ELSE ToInt(m.timeout)

\* buildTemplateContext: the address in the message, or the sender for 0.0.0.0.
RuleIP(m, ip) == IF m.ip \in Unspecified THEN ip ELSE m.ip
-----------------------------------------------------------------------------
Init ==
    /\ stanzas \in AccessConfigs
    /\ stale = {}
    /\ seen = {}
    /\ pc = "idle"
    /\ idx = 1
    /\ pkt \in Packet
    /\ src \in Address
    /\ effects = {}
    /\ refused = {}

\* A packet grows too old.
GrowStale(p) ==
    /\ stale' = stale \union {p}
    /\ UNCHANGED <<stanzas, seen, pc, idx, pkt, src, effects, refused>>

\* udpServer reads a copy of p that comes from ip.
Receive(p, ip) ==
    /\ pc = "idle"
    /\ pkt' = p
    /\ src' = ip
    /\ idx' = 1
    /\ pc' = "match"
    /\ UNCHANGED <<stanzas, stale, seen, effects, refused>>

\* A fault: a stanza that does not match is looked at again.
SkipNothing ==
    /\ pc = "match"
    /\ idx <= Len(stanzas)
    /\ ~ (MatchSource(stanza, src) /\ Decrypts(stanza, msg))
    /\ UNCHANGED vars

\* The loop goes on past a stanza that does not admit the sender or whose keys
\* do not open the packet.
SkipStanza ==
    /\ pc = "match"
    /\ idx <= Len(stanzas)
    /\ ~ (MatchSource(stanza, src) /\ Decrypts(stanza, msg))
    /\ idx' = idx + 1
    /\ UNCHANGED <<stanzas, stale, seen, pc, pkt, src, effects, refused>>

\* A fault: one stanza too many is looked at.
NoStanzaLate ==
    /\ pc = "match"
    /\ idx > Len(stanzas)
    /\ IF idx > Len(stanzas) + 1 THEN pc' = "idle" /\ UNCHANGED idx
                                 ELSE idx' = idx + 1 /\ UNCHANGED pc
    /\ UNCHANGED <<stanzas, stale, seen, pkt, src, effects, refused>>

\* The loop ends without a stanza for the packet.
NoStanza ==
    /\ pc = "match"
    /\ idx > Len(stanzas)
    /\ pc' = "idle"
    /\ UNCHANGED <<stanzas, stale, seen, idx, pkt, src, effects, refused>>

\* A stanza decrypts the packet; from here on it decides.
CheckAge ==
    /\ pc = "match"
    /\ idx <= Len(stanzas)
    /\ MatchSource(stanza, src)
    /\ Decrypts(stanza, msg)
    /\ pc' = IF pkt \in stale THEN "idle" ELSE "replay"
    /\ UNCHANGED <<stanzas, stale, seen, idx, pkt, src, effects, refused>>

\* A fault: the digest is looked up and never recorded.
CheckReplayOnly ==
    /\ pc = "replay"
    /\ pc' = IF pkt \in seen THEN "idle" ELSE "user"
    /\ UNCHANGED <<stanzas, stale, seen, idx, pkt, src, effects, refused>>

\* isDuplicate and add.  The packet is recorded before anything else about it
\* is checked, so a refusal below holds for every later copy too.
CheckReplay ==
    /\ pc = "replay"
    /\ pc' = IF pkt \in seen THEN "idle" ELSE "user"
    /\ seen' = seen \union {pkt}
    /\ UNCHANGED <<stanzas, stale, idx, pkt, src, effects, refused>>

\* A fault: a stanza for another user is skipped like one with other keys.
SkipOtherUser ==
    /\ pc = "user"
    /\ IF stanza.user \in {NoUser, msg.user}
       THEN pc' = "source" /\ UNCHANGED idx
       ELSE pc' = (IF idx < Len(stanzas) THEN "user" ELSE "idle")
            /\ idx' = (IF idx < Len(stanzas) THEN idx + 1 ELSE idx)
    /\ UNCHANGED <<stanzas, stale, seen, pkt, src, effects, refused>>

\* Whether the checks so far let the packet pass, and where it goes next.
PassOrRefuse(ok, next) ==
    /\ pc' = IF ok THEN next ELSE "idle"
    /\ refused' = IF ok THEN refused ELSE refused \union {pkt}
    /\ UNCHANGED <<stanzas, stale, idx, pkt, src, effects>>

\* A fault: the digest of a packet for another user is taken back.
CheckUserForgets ==
    /\ pc = "user"
    /\ PassOrRefuse(stanza.user \in {NoUser, msg.user}, "source")
    /\ seen' = IF stanza.user \in {NoUser, msg.user} THEN seen ELSE seen \ {pkt}

\* require_username.
CheckUser ==
    /\ pc = "user"
    /\ PassOrRefuse(stanza.user \in {NoUser, msg.user}, "source")
    /\ UNCHANGED seen

\* require_source_address, on the text of a command as on an access message;
\* with --test a packet goes no further.
CheckSource ==
    /\ pc = "source"
    /\ PassOrRefuse((stanza.requireSource => ContainsIP(msg.ip, src)) /\ ~ Test,
                    "dispatch")
    /\ UNCHANGED seen

\* The effect of a packet that dispatchAction serves, or its refusal.
ActOrRefuse(ok, effect) ==
    /\ pc = "dispatch"
    /\ pc' = "idle"
    /\ effects' = IF ok THEN effects \union {effect} ELSE effects
    /\ refused' = IF ok THEN refused ELSE refused \union {pkt}
    /\ UNCHANGED <<stanzas, stale, seen, idx, pkt, src>>

\* dispatchAction for a command.
RunCommand ==
    /\ msg.command
    /\ ActOrRefuse(stanza.cmdExec,
                   [pkt |-> pkt, src |-> src, idx |-> idx, kind |-> "exec"])

\* dispatchAction for an access message of any other type.
OpenAccess ==
    /\ ~ msg.command
    /\ ActOrRefuse(AllowsPort(stanza, msg.port),
                   [pkt |-> pkt, src |-> src, idx |-> idx, kind |-> "open",
                    ip |-> RuleIP(msg, src), port |-> msg.port,
                    timeout |-> EffectiveTimeout(msg, stanza)])

Step ==
    \/ SkipStanza
    \/ NoStanza
    \/ CheckAge
    \/ CheckReplay
    \/ CheckUser
    \/ CheckSource
    \/ RunCommand
    \/ OpenAccess

Next ==
    \/ \E p \in Packet : GrowStale(p)
    \/ \E p \in Packet, ip \in Address : Receive(p, ip)
    \/ Step

Spec == Init /\ [][Next]_vars

\* The listener goes on as long as it can: each step is local, commands end.
FairSpec == Spec /\ WF_vars(Step)
-----------------------------------------------------------------------------
(* Properties *)

\* Every variable holds a value of its type; the loop never leaves the stanzas.
TypeOK ==
    /\ stanzas \in AccessConfigs
    /\ stale \subseteq Packet
    /\ seen \subseteq Packet
    /\ refused \subseteq Packet
    /\ pc \in {"idle", "match", "replay", "user", "source", "dispatch"}
    /\ idx \in 1..(Len(stanzas) + 1)
    /\ pc \in {"replay", "user", "source", "dispatch"} => idx <= Len(stanzas)
    /\ pkt \in Packet
    /\ src \in Address
    /\ \A e \in effects : /\ e.pkt \in Packet /\ e.src \in Address
                          /\ e.idx \in 1..Len(stanzas) /\ e.kind \in {"open", "exec"}

\* Whatever the daemon did, one stanza allowed all of it: its networks admit
\* the sender, its keys opened the packet, and its user, port, command and
\* source-address rules hold of what was done, not just of what was asked.
ActsWithinPolicy ==
    \A e \in effects :
        LET s == stanzas[e.idx]
            m == Msg[e.pkt]
        IN  /\ ~ Test
            /\ (\E n \in s.nets : e.src \in Covers[n]) /\ s.key = m.key
            /\ s.user # NoUser => s.user = m.user
            /\ e.kind = "exec" => s.cmdExec /\ m.command
            /\ e.kind = "open" =>
                  /\ ~ m.command
                  /\ s.ports # {} => Fold[e.port] \in {Fold[a] : a \in s.ports}
                  /\ s.requireSource => AddrOf[e.ip] = e.src

\* Stanzas are tried in the order of the file: what was done was decided by
\* the first stanza that admits the sender and opens the packet, so a later
\* stanza never widens what an earlier one refused.
FirstMatchDecides ==
    \A e \in effects : \A i \in 1..(e.idx - 1) :
        ~ /\ \E n \in stanzas[i].nets : e.src \in Covers[n]
          /\ stanzas[i].key = Msg[e.pkt].key

\* A packet is acted upon at most once, whichever senders deliver copies of it
\* and whichever stanzas its copies reach.
ActsOnce ==
    \A e, f \in effects : e.pkt = f.pkt => e = f

\* A refusal is final: a packet that was recorded and then turned down (for its
\* user, its source, its port, a disabled command) is never acted upon, though
\* later copies may come from elsewhere and reach a stanza that allows more.
RefusalIsFinal == \A e \in effects : e.pkt \notin refused

\* The timer of a rule is never negative and stays within its stanza's bounds.
TimeoutBounded ==
    \A e \in effects : e.kind = "open" =>
        LET s == stanzas[e.idx]
        IN  /\ e.timeout >= 0
            /\ e.timeout <= s.maxTimeout \/ e.timeout = s.timeout

\* Every packet read is dealt with: the listener comes back for the next one.
ListenerReturns == pc # "idle" ~> pc = "idle"
=============================================================================
