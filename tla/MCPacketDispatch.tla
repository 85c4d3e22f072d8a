-------------------------- MODULE MCPacketDispatch --------------------------
(* An instance of PacketDispatch for TLC. *)
EXTENDS PacketDispatch, TLC

\* Texts of addresses: a's address has a second spelling, ::ffff:a.
MCAddress == {"a", "b"}
MCAddrOf == ("a" :> "a") @@ ("::ffff:a" :> "a") @@ ("b" :> "b")
            @@ ("0.0.0.0" :> "zero") @@ ("none" :> "none")
MCUnspecified == {"0.0.0.0"}
MCFold == ("tcp/22" :> "tcp/22") @@ ("TCP/22" :> "tcp/22") @@ ("tcp/80" :> "tcp/80")
          @@ ("" :> "")

Request(key, user, ip, port, timeout) ==
    [key |-> key, user |-> user, command |-> FALSE, ip |-> ip, port |-> port,
     timeout |-> timeout]
Command(key, user, ip) ==
    [key |-> key, user |-> user, command |-> TRUE, ip |-> ip, port |-> "", timeout |-> 0]

\* Requests by two users under two keys, for their own address, for another
\* one and for 0.0.0.0, one with a timeout beyond every cap, and commands.
MCMsg == <<Request("k1", "u", "0.0.0.0", "TCP/22", 7),
           Request("k1", "v", "::ffff:a", "tcp/80", 0),
           Request("k2", "u", "b", "tcp/22", 2),
           Command("k1", "u", "none"),
           Command("k2", "u", "a")>>
MCPacket == 1..5

\* Networks: one address, and all addresses.
MCCovers == ("a/32" :> {"a"}) @@ ("b/32" :> {"b"}) @@ ("0.0.0.0/0" :> {"a", "b"})
            @@ ("::/0" :> {})
MCAllNets == {"0.0.0.0/0", "::/0"}

Stanza(source, key, user, ports, requireSource, cmdExec, timeout, maxTimeout) ==
    [source |-> source, key |-> key, user |-> user, ports |-> ports,
     requireSource |-> requireSource, cmdExec |-> cmdExec,
     timeout |-> timeout, maxTimeout |-> maxTimeout]

\* Access files: stanzas that overlap in source, share a key, or differ in
\* what they require; and two that do not load.
MCPolicies ==
    {<<Stanza({"a/32"}, "k1", "u", {"tcp/22"}, TRUE, FALSE, 0, 4),
       Stanza({"ANY"}, "k1", "none", {}, FALSE, TRUE, 3, 0)>>,
     <<Stanza({"a/32", "b/32"}, "k2", "none", {"tcp/22"}, FALSE, TRUE, 2, 4),
       Stanza({"b/32"}, "k1", "v", {"tcp/22", "tcp/80"}, FALSE, FALSE, 5, 4)>>,
     <<Stanza({"ANY"}, "k1", "none", {"tcp/80", "tcp/22"}, TRUE, TRUE, 1, 4),
       Stanza({"a/32"}, "k2", "u", {}, TRUE, TRUE, 1, 2)>>,
     <<Stanza({"ANY", "b/32"}, "k1", "none", {}, FALSE, TRUE, 1, 4)>>,
     <<Stanza({"ANY"}, "no key", "none", {}, FALSE, TRUE, 1, 4)>>}
=============================================================================
