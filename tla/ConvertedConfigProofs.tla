----------------------- MODULE ConvertedConfigProofs -----------------------
(***************************************************************************)
(* Proofs about ConvertedConfig.                                           *)
(***************************************************************************)
EXTENDS ConvertedConfig, FiniteSetTheorems, WellFoundedInduction, TLAPS

-----------------------------------------------------------------------------
(* Sets of lines *)

\* A set of natural numbers that is not empty has a least one.
LEMMA LeastNatural ==
    ASSUME NEW T \in SUBSET Nat, T # {}
    PROVE  \E x \in T : \A y \in T : x <= y
<1> DEFINE R == OpToRel(<, Nat)
<1>1. \E x \in T : \A y \in T : ~ (<<y, x>> \in R)
  BY NatLessThanWellFounded, WFMin
<1>2. PICK x \in T : \A y \in T : ~ (<<y, x>> \in R)
  BY <1>1
<1>3. \A y \in T : ~ (y < x)
  BY <1>2 DEF OpToRel
<1> QED
  BY <1>3

\* A set of line numbers that is not empty has a last one.
LEMMA MaxOfLines ==
    ASSUME NEW n \in Nat, NEW S \in SUBSET (1..n), S # {}
    PROVE  Max(S) \in S /\ \A i \in S : i <= Max(S)
<1> DEFINE D == {n - i : i \in S}
<1>1. D \in SUBSET Nat /\ D # {}
  <2>1. \A i \in S : n - i \in Nat
    OBVIOUS
  <2>2. PICK i \in S : TRUE
    OBVIOUS
  <2>3. n - i \in D
    BY <2>2
  <2> QED
    BY <2>1, <2>3
<1>2. PICK d \in D : \A e \in D : d <= e
  BY <1>1, LeastNatural
<1>3. PICK i \in S : d = n - i
  OBVIOUS
<1>4. \A j \in S : j <= i
  <2> TAKE j \in S
  <2>1. d <= n - j
    BY <1>2
  <2> QED
    BY <1>3, <2>1
<1>5. \E x \in S : \A y \in S : x >= y
  BY <1>4
<1> QED
  BY <1>5 DEF Max

\* A line after all of them is the last.
LEMMA MaxOfNext ==
    ASSUME NEW n \in Nat, NEW S \in SUBSET (1..n)
    PROVE  Max(S \union {n + 1}) = n + 1
<1> DEFINE T == S \union {n + 1}
<1>1. T \in SUBSET (1..(n + 1)) /\ T # {} /\ n + 1 \in T
  OBVIOUS
<1>2. Max(T) \in T /\ \A i \in T : i <= Max(T)
  BY <1>1, MaxOfLines
<1>3. n + 1 <= Max(T) /\ (Max(T) \in 1..n \/ Max(T) = n + 1)
  BY <1>1, <1>2
<1> QED
  BY <1>3
-----------------------------------------------------------------------------
(* The next line *)

LegacyLine == AccessLine \union ClientLine \union ServerLine
HeaderWord == IF kind = "access" THEN "source" ELSE "[]"
KeyOf(l) == CASE kind = "access" -> IF l.key = "source" THEN "source" ELSE AccessKey(l.key)
              [] kind = "client" -> MapClientKey(l.key)
              [] kind = "server" -> ServerKey(l.key)

\* Reading line n + 1 leaves those before it alone.
LEMMA LineRead ==
    ASSUME lines \in Seq(LegacyLine), NEW n, Len(lines) = n,
           NEW l \in LegacyLine, lines' = Append(lines, l)
    PROVE  /\ n \in Nat
           /\ DOMAIN lines = 1..n
           /\ lines' \in Seq(LegacyLine)
           /\ Len(lines') = n + 1
           /\ DOMAIN lines' = 1..(n + 1)
           /\ lines'[n + 1] = l
           /\ \A i \in 1..n : lines'[i] = lines[i]
  OBVIOUS

\* What a line says, and the headers before it, do not depend on later lines.
LEMMA KeysKept ==
    ASSUME lines \in Seq(LegacyLine), NEW n, Len(lines) = n,
           NEW l \in LegacyLine, lines' = Append(lines, l), kind' = kind
    PROVE  /\ \A i \in 1..n : KeyAt(i)' = KeyAt(i) /\ Heads(i)' = Heads(i)
           /\ KeyAt(n + 1)' = KeyOf(l)
           /\ Heads(n + 1)' = Heads(n) \union (IF l.key = HeaderWord THEN {n + 1} ELSE {})
<1>1. /\ n \in Nat /\ lines'[n + 1] = l
      /\ \A i \in 1..n : lines'[i] = lines[i]
  BY LineRead
<1>2. ASSUME NEW i \in 1..n
      PROVE  KeyAt(i)' = KeyAt(i) /\ Heads(i)' = Heads(i)
  <2>1. KeyAt(i)' = KeyAt(i)
    BY <1>1 DEF KeyAt
  <2>2. \A j \in 1..i : j \in 1..n
    BY <1>1
  <2>3. Heads(i)' = Heads(i)
    BY <1>1, <2>2 DEF Heads
  <2> QED
    BY <2>1, <2>3
<1>3. KeyAt(n + 1)' = KeyOf(l)
  BY <1>1 DEF KeyAt, KeyOf
<1>4. Heads(n + 1)' = Heads(n) \union (IF l.key = HeaderWord THEN {n + 1} ELSE {})
  <2>1. \A j : j \in 1..(n + 1) <=> j \in 1..n \/ j = n + 1
    BY <1>1
  <2> QED
    BY <1>1, <2>1 DEF Heads, HeaderWord
<1> QED
  BY <1>2, <1>3, <1>4
-----------------------------------------------------------------------------
(* The firewall *)

\* The lines about a firewall, and those about ipfw or pf.
About(p) == {i \in DOMAIN lines : kind = "server" /\ FirewallOf(lines[i].key) = p}
Late == About("ipfw") \union About("pf")
Detected == IF Late # {} THEN FirewallOf(lines[Max(Late)].key)
            ELSE IF About("firewalld") # {} THEN "firewalld"
            ELSE IF About("iptables") # {} THEN "iptables" ELSE "none"

\* The firewalls there are, the queue capture among them.
LEMMA Firewalls ==
    \A key : FirewallOf(key) \in {"iptables", "firewalld", "ipfw", "pf", "nfq", "none"}
  BY DEF FirewallOf

\* The next line is about its firewall, and the others stay about theirs.
LEMMA AboutNext ==
    ASSUME lines \in Seq(LegacyLine), NEW n, Len(lines) = n,
           NEW l \in LegacyLine, lines' = Append(lines, l), kind' = kind
    PROVE  \A p : About(p)' = About(p) \union
              (IF kind = "server" /\ FirewallOf(l.key) = p THEN {n + 1} ELSE {})
<1> TAKE p
<1>1. /\ n \in Nat /\ DOMAIN lines = 1..n /\ DOMAIN lines' = 1..(n + 1)
      /\ lines'[n + 1] = l /\ \A i \in 1..n : lines'[i] = lines[i]
  BY LineRead
<1>2. \A i : i \in 1..(n + 1) <=> i \in 1..n \/ i = n + 1
  BY <1>1
<1> QED
  BY <1>1, <1>2 DEF About

\* The firewall found so far and the next line give the firewall found with it.
LEMMA BackendNext ==
    ASSUME lines \in Seq(LegacyLine), NEW n, Len(lines) = n,
           NEW l \in LegacyLine, lines' = Append(lines, l), kind' = kind,
           backend = Detected,
           IF kind = "server" /\ FirewallOf(l.key) \notin {"nfq", "none"}
              THEN backend' = NextBackend(FirewallOf(l.key)) ELSE backend' = backend
    PROVE  (backend = Detected)'
<1> DEFINE f == FirewallOf(l.key)
<1>1. /\ n \in Nat /\ DOMAIN lines = 1..n
      /\ lines'[n + 1] = l /\ \A i \in 1..n : lines'[i] = lines[i]
  BY LineRead
<1>2. Late \in SUBSET (1..n)
  BY <1>1 DEF Late, About
<1>3. \A p : About(p)' = About(p) \union (IF kind = "server" /\ f = p THEN {n + 1} ELSE {})
  BY AboutNext
<1>4. Late' = Late \union (IF kind = "server" /\ f \in {"ipfw", "pf"} THEN {n + 1} ELSE {})
  BY <1>3 DEF Late
<1>5. CASE kind = "server" /\ f \in {"ipfw", "pf"}
  <2>1. Max(Late') = n + 1 /\ Late' # {}
    BY <1>1, <1>2, <1>4, <1>5, MaxOfNext
  <2>2. backend' = f
    BY <1>5 DEF NextBackend
  <2> QED
    BY <1>1, <2>1, <2>2 DEF Detected
<1>6. CASE ~ (kind = "server" /\ f \in {"ipfw", "pf"})
  <2>1. Late' = Late
    BY <1>4, <1>6
  <2>2. CASE Late # {}
    <3>1. Max(Late) \in Late
      BY <1>1, <1>2, <2>2, MaxOfLines
    <3>2. backend \in {"ipfw", "pf"} /\ lines'[Max(Late)] = lines[Max(Late)]
      BY <1>1, <1>2, <2>2, <3>1 DEF Detected, Late, About
    <3>3. backend' = backend
      BY <1>6, <3>2, Firewalls DEF NextBackend
    <3> QED
      BY <2>1, <2>2, <3>2, <3>3 DEF Detected
  <2>3. CASE Late = {}
    <3>1. backend = IF About("firewalld") # {} THEN "firewalld"
                    ELSE IF About("iptables") # {} THEN "iptables" ELSE "none"
      BY <2>3 DEF Detected
    <3>2. Detected' = IF About("firewalld")' # {} THEN "firewalld"
                      ELSE IF About("iptables")' # {} THEN "iptables" ELSE "none"
      BY <2>1, <2>3 DEF Detected
    <3>3. CASE kind = "server" /\ f \in {"iptables", "firewalld"}
      BY <1>3, <3>1, <3>2, <3>3 DEF NextBackend
    <3>4. CASE ~ (kind = "server" /\ f \in {"iptables", "firewalld"})
      <4>1. backend' = backend
        BY <1>6, <3>4, Firewalls
      <4>2. About("firewalld")' = About("firewalld") /\ About("iptables")' = About("iptables")
        BY <1>3, <3>4
      <4> QED
        BY <3>1, <3>2, <4>1, <4>2
    <3> QED
      BY <3>3, <3>4
  <2> QED
    BY <2>2, <2>3
<1> QED
  BY <1>5, <1>6
-----------------------------------------------------------------------------
(* Blocks and their settings *)

SettingOf(key, text) == CASE kind = "access" -> AccessValue(key, text)
                          [] kind = "client" -> Str(text)
                          [] kind = "server" -> ServerValue(key, text)

\* The sections there are before the first line.
Given == CASE kind = "client" -> {"default"}
           [] kind = "server" -> {"server"}
           [] OTHER -> {}
BlocksKnown == DOMAIN sections = Blocks \union Given

\* Each section holds what its lines set, and of two for a key the last.
SettingsKnown ==
    \A b \in DOMAIN sections :
       /\ DOMAIN sections[b] = {k \in Convertible : Says(b, k)}
       /\ \A k \in DOMAIN sections[b] : sections[b][k] = SettingOf(k, Text(b, k))

\* What a layer over another sets.
LEMMA Layered ==
    ASSUME NEW f, NEW g
    PROVE  /\ DOMAIN (f ++ g) = DOMAIN f \union DOMAIN g
           /\ Range(f ++ g) \subseteq Range(f) \union Range(g)
  BY DEF ++, Range

\* A table of names that are kept.
LEMMA SameRange ==
    ASSUME NEW S
    PROVE  DOMAIN SameNames(S) = S /\ Range(SameNames(S)) = S
  BY DEF SameNames, Range

\* The keys a table renames, their new names, and what it keeps.
AccessOld == {"fw_access_timeout", "max_fw_timeout", "require_source"}
AccessNew == {"access_timeout", "max_access_timeout", "require_source_address"}
\* The keys of access.conf that are converted, and what they become.
LEMMA AccessTable ==
    /\ DOMAIN AccessKeys = AccessOld \union AccessKept
    /\ Range(AccessKeys) \subseteq AccessNew \union AccessKept
<1>1. DOMAIN AccessRenamed = AccessOld
  BY DEF AccessRenamed, AccessOld
<1>2. \A key \in AccessOld : AccessRenamed[key] \in AccessNew
  BY DEF AccessRenamed, AccessOld, AccessNew
<1>3. Range(AccessRenamed) \subseteq AccessNew
  BY <1>1, <1>2 DEF Range
<1>4. /\ Range(AccessKeys) \subseteq Range(AccessRenamed) \union Range(SameNames(AccessKept))
      /\ DOMAIN AccessKeys = DOMAIN AccessRenamed \union DOMAIN SameNames(AccessKept)
  BY Layered DEF AccessKeys
<1> QED
  BY <1>1, <1>3, <1>4, SameRange

ClientOld == {"spa_server", "spa_server_port", "hmac_key",
                 "resolve_ip_https", "resolve_ip_http"}
ClientNew == {"destination", "server_port", "key_hmac", "resolve_ip"}
\* The same for .fwknoprc, ...
LEMMA ClientTable ==
    /\ DOMAIN ClientKeys = ClientOld \union ClientKept
    /\ Range(ClientKeys) \subseteq ClientNew \union ClientKept
<1>1. DOMAIN ClientRenamed = ClientOld
  BY DEF ClientRenamed, ClientOld
<1>2. \A key \in ClientOld : ClientRenamed[key] \in ClientNew
  BY DEF ClientRenamed, ClientOld, ClientNew
<1>3. Range(ClientRenamed) \subseteq ClientNew
  BY <1>1, <1>2 DEF Range
<1>4. /\ Range(ClientKeys) \subseteq Range(ClientRenamed) \union Range(SameNames(ClientKept))
      /\ DOMAIN ClientKeys = DOMAIN ClientRenamed \union DOMAIN SameNames(ClientKept)
  BY Layered DEF ClientKeys
<1> QED
  BY <1>1, <1>3, <1>4, SameRange

ServerOld == {"udpserv_port", "fwknop_run_dir", "fwknop_pid_file"}
ServerNew == {"udp_port", "run_dir", "pid_file"}
\* ... and for fwknopd.conf.
LEMMA ServerTable ==
    /\ DOMAIN ServerKeys = ServerOld \union ServerKept
    /\ Range(ServerKeys) \subseteq ServerNew \union ServerKept
<1>1. DOMAIN ServerRenamed = ServerOld
  BY DEF ServerRenamed, ServerOld
<1>2. \A key \in ServerOld : ServerRenamed[key] \in ServerNew
  BY DEF ServerRenamed, ServerOld, ServerNew
<1>3. Range(ServerRenamed) \subseteq ServerNew
  BY <1>1, <1>2 DEF Range
<1>4. /\ Range(ServerKeys) \subseteq Range(ServerRenamed) \union Range(SameNames(ServerKept))
      /\ DOMAIN ServerKeys = DOMAIN ServerRenamed \union DOMAIN SameNames(ServerKept)
  BY Layered DEF ServerKeys
<1> QED
  BY <1>1, <1>3, <1>4, SameRange

\* The tables give a key of the new files or none, and none for an include.
LEMMA KeysConverted ==
    ASSUME kind \in {"access", "client", "server"}
    PROVE  /\ "" \notin Convertible
           /\ \A l : KeyOf(l) \in Convertible \union {""}
           /\ \A l : l.key = "%include" => KeyOf(l) = ""
<1>1. CASE kind = "access"
  <2>1. "" \notin Range(AccessKeys) \union {"source"}
    BY AccessTable DEF AccessNew, AccessKept, AccessBools, AccessLists
  <2>0. "%include" \notin DOMAIN AccessKeys
    BY AccessTable DEF AccessOld, AccessKept, AccessBools, AccessLists
  <2>2. \A key : AccessKey(key) \in Range(AccessKeys) \union {""}
    BY DEF AccessKey, Lookup, Range
  <2> QED
    BY <1>1, <2>0, <2>1, <2>2 DEF Convertible, KeyOf, AccessKey, Lookup
<1>2. CASE kind = "client"
  <2>1. "" \notin Range(ClientKeys)
    BY ClientTable DEF ClientNew, ClientKept
  <2>0. "%include" \notin DOMAIN ClientKeys
    BY ClientTable DEF ClientOld, ClientKept
  <2>2. \A key : MapClientKey(key) \in Range(ClientKeys) \union {""}
    BY DEF MapClientKey, Lookup, Range
  <2> QED
    BY <1>2, <2>0, <2>1, <2>2 DEF Convertible, KeyOf, MapClientKey, Lookup
<1>3. CASE kind = "server"
  <2>1. "" \notin Range(ServerKeys)
    BY ServerTable DEF ServerNew, ServerKept, ServerBools
  <2>0. "%include" \notin DOMAIN ServerKeys
    BY ServerTable DEF ServerOld, ServerKept, ServerBools
  <2>2. \A key : ServerKey(key) \in Range(ServerKeys) \union {""}
    BY DEF ServerKey, Lookup, Range
  <2> QED
    BY <1>3, <2>0, <2>1, <2>2 DEF Convertible, KeyOf, ServerKey, Lookup
<1> QED
  BY <1>1, <1>2, <1>3
-----------------------------------------------------------------------------
(* What the next line adds to a block *)

\* Lines that are no include stay in the block they are in.
BlocksStay == \A i \in DOMAIN lines : lines[i].key # "%include" => BlockAt(i)' = BlockAt(i)

\* The next line adds at most its own block.
LEMMA BlocksNext ==
    ASSUME lines \in Seq(LegacyLine), NEW n, Len(lines) = n,
           NEW l \in LegacyLine, lines' = Append(lines, l), kind' = kind, BlocksStay
    PROVE  Blocks' = Blocks \union
              (IF l.key = "%include" THEN {} ELSE {BlockAt(n + 1)'})
<1>1. /\ n \in Nat /\ DOMAIN lines = 1..n /\ DOMAIN lines' = 1..(n + 1)
      /\ lines'[n + 1] = l /\ \A i \in 1..n : lines'[i] = lines[i]
  BY LineRead
<1>2. \A i : i \in 1..(n + 1) <=> i \in 1..n \/ i = n + 1
  BY <1>1
<1>3. \A i \in 1..n : lines[i].key # "%include" => BlockAt(i)' = BlockAt(i)
  BY <1>1 DEF BlocksStay
<1>4. \A b : b \in Blocks <=> \E i \in 1..n : lines[i].key # "%include" /\ BlockAt(i) = b
  BY <1>1 DEF Blocks
<1>5. \A b : b \in Blocks' <=>
            \E i \in 1..(n + 1) : lines'[i].key # "%include" /\ BlockAt(i)' = b
  BY <1>1 DEF Blocks
<1>6. \A b : b \in Blocks' <=>
            \/ b \in Blocks
            \/ l.key # "%include" /\ BlockAt(n + 1)' = b
  BY <1>1, <1>2, <1>3, <1>4, <1>5
<1> QED
  BY <1>6

\* The next line sets at most one key, in its own block.
LEMMA SettersNext ==
    ASSUME lines \in Seq(LegacyLine), NEW n, Len(lines) = n,
           NEW l \in LegacyLine, lines' = Append(lines, l), kind' = kind, BlocksStay,
           kind \in {"access", "client", "server"}, NEW b, NEW key \in Convertible
    PROVE  Setters(b, key)' = Setters(b, key) \union
              (IF KeyOf(l) = key /\ BlockAt(n + 1)' = b THEN {n + 1} ELSE {})
<1>1. /\ n \in Nat /\ DOMAIN lines = 1..n /\ DOMAIN lines' = 1..(n + 1)
  BY LineRead
<1>2. \A i : i \in 1..(n + 1) <=> i \in 1..n \/ i = n + 1
  BY <1>1
<1>3. /\ \A i \in 1..n : KeyAt(i)' = KeyAt(i)
      /\ KeyAt(n + 1)' = KeyOf(l)
  BY KeysKept
<1>4. \A i \in 1..n : KeyAt(i) = KeyOf(lines[i])
  BY DEF KeyAt, KeyOf
<1>5. \A i \in 1..n : KeyAt(i) = key => BlockAt(i)' = BlockAt(i)
  BY <1>1, <1>4, KeysConverted DEF BlocksStay
<1>6. \A i : i \in Setters(b, key) <=> i \in 1..n /\ KeyAt(i) = key /\ BlockAt(i) = b
  BY <1>1 DEF Setters
<1>7. \A i : i \in Setters(b, key)' <=> i \in 1..(n + 1) /\ KeyAt(i)' = key /\ BlockAt(i)' = b
  BY <1>1 DEF Setters
<1> QED
  BY <1>2, <1>3, <1>5, <1>6, <1>7

\* The line sets the text of its key in its block and no other.
LEMMA TextNext ==
    ASSUME lines \in Seq(LegacyLine), NEW n, Len(lines) = n,
           NEW l \in LegacyLine, lines' = Append(lines, l), kind' = kind, BlocksStay,
           kind \in {"access", "client", "server"}, NEW b, NEW key \in Convertible
    PROVE  IF KeyOf(l) = key /\ BlockAt(n + 1)' = b
           THEN Says(b, key)' /\ Text(b, key)' = l.text
           ELSE /\ Says(b, key)' <=> Says(b, key)
                /\ Says(b, key) => Text(b, key)' = Text(b, key)
<1>1. /\ n \in Nat /\ DOMAIN lines = 1..n
      /\ lines'[n + 1] = l /\ \A i \in 1..n : lines'[i] = lines[i]
  BY LineRead
<1>2. Setters(b, key) \in SUBSET (1..n)
  BY <1>1 DEF Setters
<1>3. CASE KeyOf(l) = key /\ BlockAt(n + 1)' = b
  <2>1. Setters(b, key)' = Setters(b, key) \union {n + 1}
    BY <1>3, SettersNext
  <2>2. Max(Setters(b, key)') = n + 1
    BY <1>1, <1>2, <2>1, MaxOfNext
  <2> QED
    BY <1>1, <1>3, <2>1, <2>2 DEF Says, Text
<1>4. CASE ~ (KeyOf(l) = key /\ BlockAt(n + 1)' = b)
  <2>1. Setters(b, key)' = Setters(b, key)
    <3>1. Setters(b, key)' = Setters(b, key) \union
             (IF KeyOf(l) = key /\ BlockAt(n + 1)' = b THEN {n + 1} ELSE {})
      BY SettersNext
    <3> QED
      BY <1>4, <3>1
  <2>2. Setters(b, key) # {} => Max(Setters(b, key)) \in 1..n
    BY <1>1, <1>2, MaxOfLines
  <2> QED
    BY <1>1, <1>4, <2>1, <2>2 DEF Says, Text
<1> QED
  BY <1>3, <1>4
\* The empty section has no keys.
LEMMA NoKeys == DOMAIN <<>> = {}
  OBVIOUS

\* A block without a section has no settings.
LEMMA NothingSaid ==
    ASSUME BlocksKnown, kind \in {"access", "client", "server"},
           NEW b, b \notin DOMAIN sections, NEW key \in Convertible
    PROVE  ~ Says(b, key)
<1> SUFFICES ASSUME NEW i \in DOMAIN lines, KeyAt(i) = key, BlockAt(i) = b
             PROVE  FALSE
  BY DEF Says, Setters
<1>1. KeyAt(i) = KeyOf(lines[i])
  BY DEF KeyAt, KeyOf
<1>2. lines[i].key # "%include"
  BY <1>1, KeysConverted
<1>3. b \in Blocks
  BY <1>2 DEF Blocks
<1> QED
  BY <1>3 DEF BlocksKnown

\* A line that sets nothing, whether it opens an empty section or not.
LEMMA NoSettingNext ==
    ASSUME lines \in Seq(LegacyLine), NEW n, Len(lines) = n,
           NEW l \in LegacyLine, lines' = Append(lines, l), kind' = kind, BlocksStay,
           kind \in {"access", "client", "server"}, BlocksKnown, SettingsKnown,
           KeyOf(l) = "",
           \A b \in DOMAIN sections' :
              sections'[b] = IF b \in DOMAIN sections THEN sections[b] ELSE <<>>
    PROVE  SettingsKnown'
<1> SUFFICES ASSUME NEW b \in DOMAIN sections'
             PROVE  /\ DOMAIN sections'[b] = {k \in Convertible : Says(b, k)'}
                    /\ \A k \in DOMAIN sections'[b] : sections'[b][k] = SettingOf(k, Text(b, k)')
  <2>1. Convertible' = Convertible
    BY DEF Convertible
  <2>2. \A k, t : SettingOf(k, t)' = SettingOf(k, t)
    BY DEF SettingOf
  <2> QED
    BY <2>1, <2>2 DEF SettingsKnown
<1>1. \A k \in Convertible : (Says(b, k)' <=> Says(b, k))
                              /\ (Says(b, k) => Text(b, k)' = Text(b, k))
  BY TextNext, KeysConverted
<1>2. CASE b \in DOMAIN sections
  BY <1>1, <1>2 DEF SettingsKnown
<1>3. CASE b \notin DOMAIN sections
  <2>1. \A k \in Convertible : ~ Says(b, k)'
    BY <1>1, <1>3, NothingSaid
  <2>2. sections'[b] = <<>>
    BY <1>3
  <2> QED
    BY <2>1, <2>2, NoKeys
<1> QED
  BY <1>2, <1>3

\* The step sets one key in one section, which may be new, and nothing else.
Sets(at, key, value) ==
    /\ DOMAIN sections' = DOMAIN sections \union {at}
    /\ \A b \in DOMAIN sections : b # at => sections'[b] = sections[b]
    /\ DOMAIN sections'[at] = {key} \union
          (IF at \in DOMAIN sections THEN DOMAIN sections[at] ELSE {})
    /\ \A k \in DOMAIN sections'[at] :
          sections'[at][k] = IF k = key THEN value ELSE sections[at][k]

\* SettingIn, which the converter uses for a setting, sets that one and no other.
LEMMA SettingInSets ==
    ASSUME NEW at, NEW key, NEW value, sections' = SettingIn(at, key, value)
    PROVE  Sets(at, key, value)
<1> DEFINE old == IF at \in DOMAIN sections THEN sections[at] ELSE <<>>
<1>1. DOMAIN old = IF at \in DOMAIN sections THEN DOMAIN sections[at] ELSE {}
  BY NoKeys
<1>2. sections' = Only(at, Only(key, value) ++ old) ++ sections
  BY DEF SettingIn
<1>3. at \in DOMAIN sections => old = sections[at]
  OBVIOUS
<1> HIDE DEF old
<1>4. DOMAIN sections' = DOMAIN sections \union {at} /\ sections'[at] = Only(key, value) ++ old
  BY <1>2 DEF Only, ++
<1>5. \A b \in DOMAIN sections : b # at => sections'[b] = sections[b]
  BY <1>2 DEF Only, ++
<1>6. DOMAIN sections'[at] = {key} \union DOMAIN old
  BY <1>4 DEF Only, ++
<1>7. \A k \in DOMAIN sections'[at] : sections'[at][k] = IF k = key THEN value ELSE sections[at][k]
  BY <1>1, <1>3, <1>4 DEF Only, ++
<1> QED
  BY <1>1, <1>4, <1>5, <1>6, <1>7 DEF Sets

\* A line that sets a key of its block.
LEMMA SettingNext ==
    ASSUME lines \in Seq(LegacyLine), NEW n, Len(lines) = n,
           NEW l \in LegacyLine, lines' = Append(lines, l), kind' = kind, BlocksStay,
           kind \in {"access", "client", "server"}, BlocksKnown, SettingsKnown,
           NEW key, KeyOf(l) = key, key # "",
           NEW at, BlockAt(n + 1)' = at, Sets(at, key, SettingOf(key, l.text))
    PROVE  SettingsKnown'
<1> SUFFICES ASSUME NEW b \in DOMAIN sections'
             PROVE  /\ DOMAIN sections'[b] = {k \in Convertible : Says(b, k)'}
                    /\ \A k \in DOMAIN sections'[b] : sections'[b][k] = SettingOf(k, Text(b, k)')
  <2>1. Convertible' = Convertible
    BY DEF Convertible
  <2>2. \A k, t : SettingOf(k, t)' = SettingOf(k, t)
    BY DEF SettingOf
  <2> QED
    BY <2>1, <2>2 DEF SettingsKnown
<1>1. key \in Convertible
  BY KeysConverted
<1>2. CASE b = at
  <2> DEFINE old == IF at \in DOMAIN sections THEN DOMAIN sections[at] ELSE {}
  <2>1. /\ old = {k \in Convertible : Says(b, k)}
        /\ \A k \in old : sections[at][k] = SettingOf(k, Text(b, k))
    <3>1. CASE b \in DOMAIN sections
      BY <1>2, <3>1 DEF SettingsKnown
    <3>2. CASE b \notin DOMAIN sections
      BY <1>2, <3>2, NothingSaid
    <3> QED
      BY <3>1, <3>2
  <2>2. /\ DOMAIN sections'[b] = {key} \union old
        /\ \A k \in DOMAIN sections'[b] :
              sections'[b][k] = IF k = key THEN SettingOf(key, l.text) ELSE sections[at][k]
    BY <1>2 DEF Sets
  <2> HIDE DEF old
  <2>3. Says(b, key)' /\ Text(b, key)' = l.text
    BY <1>1, <1>2, TextNext
  <2>4. \A k \in Convertible : k # key =>
           (Says(b, k)' <=> Says(b, k)) /\ (Says(b, k) => Text(b, k)' = Text(b, k))
    BY TextNext
  <2>5. DOMAIN sections'[b] = {k \in Convertible : Says(b, k)'}
    BY <1>1, <2>1, <2>2, <2>3, <2>4
  <2>6. ASSUME NEW k \in DOMAIN sections'[b]
        PROVE  sections'[b][k] = SettingOf(k, Text(b, k)')
    <3>1. CASE k = key
      <4>1. sections'[b][k] = SettingOf(k, l.text)
        BY <2>2, <3>1
      <4>2. Text(b, k)' = l.text
        BY <2>3, <3>1
      <4> QED
        BY <4>1, <4>2
    <3>2. CASE k # key
      <4>1. k \in old /\ sections'[b][k] = sections[at][k]
        BY <2>2, <3>2
      <4>2. k \in Convertible /\ Says(b, k) /\ sections[at][k] = SettingOf(k, Text(b, k))
        BY <2>1, <4>1
      <4>3. Text(b, k)' = Text(b, k)
        BY <2>4, <3>2, <4>2
      <4> QED
        BY <4>1, <4>2, <4>3
    <3> QED
      BY <3>1, <3>2
  <2> QED
    BY <2>5, <2>6
<1>3. CASE b # at
  <2>1. b \in DOMAIN sections /\ sections'[b] = sections[b]
    BY <1>3 DEF Sets
  <2>2. \A k \in Convertible :
           (Says(b, k)' <=> Says(b, k)) /\ (Says(b, k) => Text(b, k)' = Text(b, k))
    BY <1>3, TextNext
  <2> QED
    BY <2>1, <2>2 DEF SettingsKnown
<1> QED
  BY <1>2, <1>3

-----------------------------------------------------------------------------
(* The stanza that is open *)

\* The number of the stanza of access.conf that is open, or 0.
Opened == Cardinality(Heads(Len(lines))) + (IF Headless THEN 1 ELSE 0)

\* No stanza is open as long as there are includes only.
LEMMA OpenedIsCount ==
    ASSUME lines \in Seq(LegacyLine), kind = "access", NEW n, Len(lines) = n
    PROVE  /\ n \in Nat
           /\ IsFiniteSet(Heads(n)) /\ Heads(n) \subseteq 1..n
           /\ Opened = Cardinality(Heads(n)) + (IF Headless THEN 1 ELSE 0)
           /\ Cardinality(Heads(n)) \in Nat
           /\ Cardinality(Heads(n)) = 0 <=> Heads(n) = {}
           /\ Opened \in Nat
           /\ Opened = 0 => Heads(n) = {} /\ ~ Headless /\ \A i \in DOMAIN lines : lines[i].key = "%include"
<1>1. n \in Nat /\ DOMAIN lines = 1..n
  OBVIOUS
<1>2. Heads(n) \subseteq 1..n
  BY DEF Heads
<1>3. IsFiniteSet(Heads(n))
  <2>1. IsFiniteSet(1..n)
    BY <1>1, FS_Interval
  <2> QED
    BY <1>2, <2>1, FS_Subset
<1>4. Cardinality(Heads(n)) \in Nat
  BY <1>3, FS_CardinalityType
<1>5. Cardinality(Heads(n)) = 0 <=> Heads(n) = {}
  BY <1>3, FS_EmptySet
<1>6. Opened = Cardinality(Heads(n)) + (IF Headless THEN 1 ELSE 0)
  BY DEF Opened
<1>7. Opened \in Nat
  BY <1>4, <1>6
<1>8. ASSUME Opened = 0
      PROVE  Heads(n) = {} /\ ~ Headless /\ \A i \in DOMAIN lines : lines[i].key = "%include"
  <2>1. ~ Headless /\ Heads(n) = {}
    BY <1>4, <1>5, <1>6, <1>8
  <2>2. \A i \in 1..n : Heads(i) = {}
    BY <1>1, <2>1 DEF Heads
  <2> QED
    BY <1>1, <2>1, <2>2 DEF Headless
<1> QED
  BY <1>1, <1>2, <1>3, <1>4, <1>5, <1>6, <1>7, <1>8

\* A SOURCE opens the next stanza, any other key one if there is none.
LEMMA OpenedNext ==
    ASSUME lines \in Seq(LegacyLine), NEW n, Len(lines) = n,
           NEW l \in LegacyLine, lines' = Append(lines, l), kind' = kind, kind = "access"
    PROVE  /\ BlocksStay
           /\ BlockAt(n + 1)' = Opened'
           /\ Opened' = IF l.key = "source" THEN Opened + 1
                        ELSE IF l.key = "%include" \/ Opened # 0 THEN Opened ELSE 1
<1>1. /\ n \in Nat /\ DOMAIN lines = 1..n /\ DOMAIN lines' = 1..(n + 1)
      /\ lines'[n + 1] = l /\ \A i \in 1..n : lines'[i] = lines[i]
      /\ Len(lines') = n + 1 /\ lines' \in Seq(LegacyLine)
  BY LineRead
<1>2. /\ \A i \in 1..n : Heads(i)' = Heads(i)
      /\ Heads(n + 1)' = Heads(n) \union (IF l.key = "source" THEN {n + 1} ELSE {})
  BY KeysKept DEF HeaderWord
<1>3. /\ IsFiniteSet(Heads(n)) /\ Heads(n) \subseteq 1..n
      /\ Opened = Cardinality(Heads(n)) + (IF Headless THEN 1 ELSE 0)
      /\ Cardinality(Heads(n)) \in Nat
      /\ Cardinality(Heads(n)) = 0 <=> Heads(n) = {}
      /\ Opened = 0 => Heads(n) = {} /\ ~ Headless /\ \A i \in DOMAIN lines : lines[i].key = "%include"
  BY OpenedIsCount
<1>4. Opened' = Cardinality(Heads(n + 1)') + (IF Headless' THEN 1 ELSE 0)
  BY <1>1 DEF Opened, Heads
<1>5. BlockAt(n + 1)' = Opened'
  BY <1>4 DEF BlockAt
<1>6. Headless' <=> Headless \/ (l.key # "%include" /\ Heads(n + 1)' = {})
  <2>1. \A i : i \in 1..(n + 1) <=> i \in 1..n \/ i = n + 1
    BY <1>1
  <2>2. Headless <=> \E i \in 1..n : lines[i].key # "%include" /\ Heads(i) = {}
    BY <1>1 DEF Headless
  <2>3. Headless' <=> \E i \in 1..(n + 1) : lines'[i].key # "%include" /\ Heads(i)' = {}
    BY <1>1 DEF Headless
  <2> QED
    BY <1>1, <1>2, <2>1, <2>2, <2>3
<1>7. (Headless' <=> Headless) => BlocksStay
  BY <1>1, <1>2 DEF BlocksStay, BlockAt
<1>8. CASE l.key = "source"
  <2>1. Heads(n + 1)' = Heads(n) \union {n + 1} /\ n + 1 \notin Heads(n)
    BY <1>1, <1>2, <1>3, <1>8
  <2>2. Cardinality(Heads(n + 1)') = Cardinality(Heads(n)) + 1
    BY <1>3, <2>1, FS_AddElement
  <2>3. Headless' <=> Headless
    BY <1>6, <2>1
  <2> QED
    BY <1>3, <1>4, <1>5, <1>7, <1>8, <2>2, <2>3
<1>9. CASE l.key # "source" /\ (l.key = "%include" \/ Opened # 0)
  <2>1. Heads(n + 1)' = Heads(n)
    BY <1>2, <1>9
  <2>2. Headless' <=> Headless
    BY <1>3, <1>6, <1>9, <2>1
  <2> QED
    BY <1>3, <1>4, <1>5, <1>7, <1>9, <2>1, <2>2
<1>10. CASE l.key # "source" /\ l.key # "%include" /\ Opened = 0
  <2>1. Heads(n + 1)' = Heads(n) /\ Heads(n) = {}
    BY <1>2, <1>3, <1>10
  <2>2. Headless'
    BY <1>6, <1>10, <2>1
  <2>3. BlocksStay
    BY <1>3, <1>10 DEF BlocksStay
  <2>4. Opened' = 1
    <3>1. Cardinality(Heads(n + 1)') = 0
      BY <2>1, FS_EmptySet
    <3> QED
      BY <1>4, <2>2, <3>1
  <2> QED
    BY <1>5, <1>10, <2>3, <2>4
<1> QED
  BY <1>8, <1>9, <1>10
-----------------------------------------------------------------------------
(* The sections after the next line *)

\* The stanzas of access.conf are numbered up to the one that is open.
StanzasNumbered == kind = "access" => sections = [i \in 1..Opened |-> sections[i]]

\* The stanza of .fwknoprc that is open is that of the last header.
StanzaNamed ==
    kind = "client" =>
      /\ stanza \in DOMAIN sections
      /\ stanza = IF Heads(Len(lines)) = {} THEN "default" ELSE lines[Max(Heads(Len(lines)))].text

SectionInv == BlocksKnown /\ SettingsKnown /\ StanzasNumbered /\ StanzaNamed

\* A function on 1..n is a sequence.
LEMMA NumberedIsSeq ==
    ASSUME NEW n \in Nat, NEW f, f = [i \in 1..n |-> f[i]]
    PROVE  /\ f \in Seq(Range(f)) /\ Len(f) = n /\ DOMAIN f = 1..n
           /\ f = <<>> <=> n = 0
<1>1. DOMAIN f = 1..n
  OBVIOUS
<1>2. f \in [1..n -> Range(f)]
  BY <1>1 DEF Range
<1>3. f \in Seq(Range(f)) /\ Len(f) = n
  BY <1>2
<1>4. f = <<>> <=> n = 0
  BY <1>3
<1> QED
  BY <1>1, <1>3, <1>4

\* One more element.
LEMMA AppendNumbered ==
    ASSUME NEW n \in Nat, NEW f, f = [i \in 1..n |-> f[i]], NEW x
    PROVE  /\ Append(f, x) = [i \in 1..(n + 1) |-> Append(f, x)[i]]
           /\ Append(f, x)[n + 1] = x
           /\ \A i \in 1..n : Append(f, x)[i] = f[i]
<1> DEFINE S == Range(f) \union {x}
<1>1. f \in Seq(Range(f)) /\ Len(f) = n
  BY NumberedIsSeq
<1>2. f \in Seq(S)
  BY <1>1
<1> HIDE DEF S
<1>3. x \in S
  BY DEF S
<1>4. Append(f, x) \in Seq(S) /\ Len(Append(f, x)) = n + 1
  BY <1>1, <1>2, <1>3
<1> QED
  BY <1>1, <1>2, <1>3, <1>4
\* A line of access.conf keeps the sections as they should be.
LEMMA AccessSections ==
    ASSUME lines \in Seq(LegacyLine), NEW l \in LegacyLine, SectionInv,
           IncludeLine(l) \/ SourceLine(l) \/ AccessKeyLine(l)
    PROVE  SectionInv'
<1>0. PICK n, o : Len(lines) = n /\ Opened = o
  OBVIOUS
<1>1. /\ kind = "access" /\ kind' = kind /\ lines' = Append(lines, l)
      /\ BlocksKnown /\ SettingsKnown
  BY DEF IncludeLine, SourceLine, AccessKeyLine, Line, SectionInv
<1>2. o \in Nat
  BY <1>0, <1>1, OpenedIsCount
<1>3. /\ BlocksStay
      /\ BlockAt(n + 1)' = Opened'
      /\ Opened' = IF l.key = "source" THEN o + 1
                   ELSE IF l.key = "%include" \/ o # 0 THEN o ELSE 1
  BY <1>0, <1>1, OpenedNext
<1>4. sections = [i \in 1..o |-> sections[i]]
  BY <1>0, <1>1 DEF SectionInv, StanzasNumbered
<1>5. Len(sections) = o /\ DOMAIN sections = 1..o /\ (sections = <<>> <=> o = 0)
  BY <1>2, <1>4, NumberedIsSeq
<1>6. Given = {} /\ Given' = {} /\ StanzaNamed'
  BY <1>1 DEF Given, StanzaNamed
<1>7. Blocks' = Blocks \union (IF l.key = "%include" THEN {} ELSE {Opened'})
  BY <1>0, <1>1, <1>3, BlocksNext
<1>8. CASE IncludeLine(l)
  <2>1. sections' = sections /\ l.key = "%include" /\ l.key # "source"
    BY <1>8 DEF IncludeLine
  <2>2. KeyOf(l) = ""
    BY <1>1, <2>1, KeysConverted
  <2>3. SettingsKnown'
    BY <1>0, <1>1, <1>3, <2>1, <2>2, NoSettingNext
  <2> QED
    BY <1>1, <1>3, <1>4, <1>0, <1>6, <1>7, <2>1, <2>3 DEF SectionInv, BlocksKnown, StanzasNumbered
<1>9. CASE SourceLine(l)
  <2>1. l.key = "source" /\ sections' = Append(sections, [source |-> Str(l.text)])
    BY <1>9 DEF SourceLine
  <2>2. /\ sections' = [i \in 1..(o + 1) |-> sections'[i]]
        /\ sections'[o + 1] = [source |-> Str(l.text)]
        /\ \A i \in 1..o : sections'[i] = sections[i]
    BY <1>2, <1>4, <2>1, AppendNumbered
  <2>3. DOMAIN sections' = 1..(o + 1)
    BY <2>2
  <2>4. KeyOf(l) = "source" /\ SettingOf("source", l.text) = Str(l.text)
    BY <1>1, <2>1 DEF KeyOf, SettingOf, AccessValue, AccessBools, AccessLists
  <2>5. Sets(o + 1, "source", SettingOf("source", l.text))
    <3>1. DOMAIN sections' = DOMAIN sections \union {o + 1} /\ o + 1 \notin DOMAIN sections
      BY <1>2, <1>5, <2>3
    <3>2. /\ DOMAIN sections'[o + 1] = {"source"}
          /\ sections'[o + 1]["source"] = Str(l.text)
      BY <2>2
    <3> QED
      BY <1>5, <2>2, <2>4, <3>1, <3>2 DEF Sets
  <2>6. SettingsKnown'
    <3>1. PICK at : at = o + 1
      OBVIOUS
    <3> QED
      BY <1>0, <1>1, <1>3, <2>1, <2>4, <2>5, <3>1, SettingNext
  <2>7. BlocksKnown'
    BY <1>1, <1>2, <1>3, <1>5, <1>6, <1>7, <2>1, <2>3 DEF BlocksKnown
  <2> QED
    BY <1>1, <1>3, <1>6, <2>1, <2>2, <2>6, <2>7 DEF SectionInv, StanzasNumbered
<1>10. CASE AccessKeyLine(l)
  <2>0. PICK at : at = IF sections = <<>> THEN 1 ELSE Len(sections)
    OBVIOUS
  <2>1. l.key # "source" /\ l.key # "%include" /\ KeyOf(l) = AccessKey(l.key)
    BY <1>1, <1>10 DEF AccessKeyLine, KeyOf
  <2>2. at = Opened' /\ at \in Nat /\ at # 0 /\ 1..at = 1..o \union {at}
    BY <2>0, <1>2, <1>3, <1>5, <2>1
  <2>3. CASE AccessKey(l.key) # ""
    <3>1. sections' = SettingIn(at, AccessKey(l.key), SettingOf(AccessKey(l.key), l.text))
      BY <1>1, <1>10, <2>0, <2>3 DEF AccessKeyLine, SettingOf
    <3>2. Sets(at, AccessKey(l.key), SettingOf(AccessKey(l.key), l.text))
      BY <3>1, SettingInSets
    <3>3. SettingsKnown'
      BY <1>0, <1>1, <1>3, <2>1, <2>2, <2>3, <3>2, SettingNext
    <3>4. DOMAIN sections' = 1..at
      BY <1>5, <2>2, <3>2 DEF Sets
    <3>5. sections' = [i \in 1..at |-> sections'[i]]
      BY <3>1, <3>4 DEF SettingIn, ++
    <3> QED
      BY <1>1, <1>5, <1>6, <1>7, <2>1, <2>2, <3>3, <3>4, <3>5
         DEF SectionInv, BlocksKnown, StanzasNumbered
  <2>4. CASE AccessKey(l.key) = ""
    <3>1. sections' = IF sections = <<>> THEN << <<>> >> ELSE sections
      BY <1>10, <2>4 DEF AccessKeyLine
    <3>2. sections' = [i \in 1..at |-> sections'[i]]
      <4>1. CASE sections = <<>>
        BY <2>0, <3>1, <4>1
      <4>2. CASE sections # <<>>
        BY <1>4, <1>5, <2>0, <3>1, <4>2
      <4> QED
        BY <4>1, <4>2
    <3>3. \A b \in DOMAIN sections' :
             sections'[b] = IF b \in DOMAIN sections THEN sections[b] ELSE <<>>
      BY <1>5, <3>1
    <3>4. SettingsKnown'
      BY <1>0, <1>1, <1>3, <2>1, <2>4, <3>3, NoSettingNext
    <3>5. DOMAIN sections' = DOMAIN sections \union {at}
      BY <1>5, <2>2, <3>2
    <3> QED
      BY <1>1, <1>6, <1>7, <2>1, <2>2, <3>2, <3>4, <3>5
         DEF SectionInv, BlocksKnown, StanzasNumbered
  <2> QED
    BY <2>3, <2>4
<1> QED
  BY <1>8, <1>9, <1>10
\* A header names the stanza of the lines after it.
LEMMA StanzaNext ==
    ASSUME lines \in Seq(LegacyLine), NEW n, Len(lines) = n,
           NEW l \in LegacyLine, lines' = Append(lines, l), kind' = kind, kind = "client",
           StanzaNamed
    PROVE  /\ BlocksStay
           /\ BlockAt(n + 1)' = IF l.key = "[]" THEN l.text ELSE stanza
           /\ IF Heads(Len(lines))' = {} THEN BlockAt(n + 1)' = "default"
              ELSE BlockAt(n + 1)' = lines'[Max(Heads(Len(lines))')].text
<1>1. /\ n \in Nat /\ DOMAIN lines = 1..n /\ lines'[n + 1] = l
      /\ Len(lines') = n + 1 /\ \A i \in 1..n : lines'[i] = lines[i]
  BY LineRead
<1>2. /\ \A i \in 1..n : Heads(i)' = Heads(i)
      /\ Heads(n + 1)' = Heads(n) \union (IF l.key = "[]" THEN {n + 1} ELSE {})
  BY KeysKept DEF HeaderWord
<1>3. \A i \in 1..n : Heads(i) \in SUBSET (1..i)
  BY DEF Heads
<1>4. \A i \in 1..n : Heads(i) # {} => Max(Heads(i)) \in 1..n
  <2> SUFFICES ASSUME NEW i \in 1..n, Heads(i) # {}
               PROVE  Max(Heads(i)) \in 1..n
    OBVIOUS
  <2>1. Max(Heads(i)) \in Heads(i) /\ i \in Nat
    BY <1>1, <1>3, MaxOfLines
  <2> QED
    BY <1>1, <1>3, <2>1
<1>5. BlocksStay
  BY <1>1, <1>2, <1>4 DEF BlocksStay, BlockAt
<1>6. Heads(Len(lines))' = Heads(n + 1)'
  BY <1>1 DEF Heads
<1>7. BlockAt(n + 1)' = IF Heads(n + 1)' = {} THEN "default" ELSE lines'[Max(Heads(n + 1)')].text
  BY DEF BlockAt
<1>8. Heads(n) \in SUBSET (1..n) /\ stanza = IF Heads(n) = {} THEN "default"
                                                           ELSE lines[Max(Heads(n))].text
  BY DEF Heads, StanzaNamed
<1>9. BlockAt(n + 1)' = IF l.key = "[]" THEN l.text ELSE stanza
  <2>1. CASE l.key = "[]"
    <3>1. Heads(n + 1)' = Heads(n) \union {n + 1} /\ Heads(n + 1)' # {}
      BY <1>2, <2>1
    <3>2. Max(Heads(n + 1)') = n + 1
      BY <1>1, <1>8, <3>1, MaxOfNext
    <3> QED
      BY <1>1, <1>7, <2>1, <3>1, <3>2
  <2>2. CASE l.key # "[]"
    <3>1. Heads(n + 1)' = Heads(n)
      BY <1>2, <2>2
    <3>2. Heads(n) # {} => Max(Heads(n)) \in 1..n
      BY <1>1, <1>8, MaxOfLines
    <3> QED
      BY <1>1, <1>7, <1>8, <2>2, <3>1, <3>2
  <2> QED
    BY <2>1, <2>2
<1> QED
  BY <1>5, <1>6, <1>7, <1>9

\* A line of .fwknoprc keeps the sections as they should be.
LEMMA ClientSections ==
    ASSUME lines \in Seq(LegacyLine), NEW l \in LegacyLine, SectionInv,
           StanzaHeader(l) \/ ClientKeyLine(l)
    PROVE  SectionInv'
<1>0. PICK n, at : Len(lines) = n /\ at = IF l.key = "[]" THEN l.text ELSE stanza
  OBVIOUS
<1>1. /\ kind = "client" /\ kind' = kind /\ lines' = Append(lines, l)
      /\ BlocksKnown /\ SettingsKnown /\ StanzaNamed /\ stanza \in DOMAIN sections
  BY DEF StanzaHeader, ClientKeyLine, Line, SectionInv, StanzaNamed
<1>2. /\ BlocksStay
      /\ BlockAt(n + 1)' = at
      /\ IF Heads(Len(lines))' = {} THEN at = "default"
         ELSE at = lines'[Max(Heads(Len(lines))')].text
  BY <1>0, <1>1, StanzaNext
<1>3. Given' = Given /\ StanzasNumbered'
  BY <1>1 DEF Given, StanzasNumbered
<1>4. Blocks' = Blocks \union (IF l.key = "%include" THEN {} ELSE {at})
  BY <1>0, <1>1, <1>2, BlocksNext
<1>5. stanza' = at
  BY <1>0 DEF StanzaHeader, ClientKeyLine
<1>6. KeyOf(l) = MapClientKey(l.key)
  BY <1>1 DEF KeyOf
<1>7. (at \in DOMAIN sections') => StanzaNamed'
  BY <1>2, <1>5 DEF StanzaNamed
<1>8. CASE StanzaHeader(l)
  <2>1. l.key = "[]" /\ sections' = sections ++ Only(l.text, <<>>)
    BY <1>8 DEF StanzaHeader
  <2>2. at = l.text /\ KeyOf(l) = ""
    BY <1>0, <1>6, <2>1, ClientTable DEF MapClientKey, Lookup, ClientOld, ClientKept
  <2>3. /\ DOMAIN sections' = DOMAIN sections \union {at}
        /\ \A b \in DOMAIN sections' :
              sections'[b] = IF b \in DOMAIN sections THEN sections[b] ELSE <<>>
    BY <2>1, <2>2 DEF ++, Only
  <2>4. SettingsKnown'
    BY <1>0, <1>1, <1>2, <2>2, <2>3, NoSettingNext
  <2> QED
    BY <1>1, <1>3, <1>4, <1>7, <2>1, <2>3, <2>4 DEF SectionInv, BlocksKnown
<1>9. CASE ClientKeyLine(l)
  <2>1. at = stanza /\ DOMAIN sections = DOMAIN sections \union {at}
    BY <1>0, <1>1, <1>9 DEF ClientKeyLine
  <2>2. CASE MapClientKey(l.key) # ""
    <3>1. sections' = SettingIn(at, MapClientKey(l.key), SettingOf(MapClientKey(l.key), l.text))
      BY <1>1, <1>9, <2>1, <2>2 DEF ClientKeyLine, SettingOf
    <3>2. Sets(at, MapClientKey(l.key), SettingOf(MapClientKey(l.key), l.text))
      BY <3>1, SettingInSets
    <3>3. SettingsKnown'
      BY <1>0, <1>1, <1>2, <1>6, <2>2, <3>2, SettingNext
    <3>4. DOMAIN sections' = DOMAIN sections
      BY <2>1, <3>2 DEF Sets
    <3>5. l.key # "%include"
      BY <1>1, <1>6, <2>2, KeysConverted
    <3> QED
      BY <1>1, <1>3, <1>4, <1>7, <2>1, <3>3, <3>4, <3>5 DEF SectionInv, BlocksKnown
  <2>3. CASE MapClientKey(l.key) = ""
    <3>1. sections' = sections
      BY <1>9, <2>3 DEF ClientKeyLine
    <3>2. SettingsKnown'
      BY <1>0, <1>1, <1>2, <1>6, <2>3, <3>1, NoSettingNext
    <3> QED
      BY <1>1, <1>3, <1>4, <1>7, <2>1, <3>1, <3>2 DEF SectionInv, BlocksKnown
  <2> QED
    BY <2>2, <2>3
<1> QED
  BY <1>8, <1>9

\* A line of fwknopd.conf keeps the section as it should be.
LEMMA ServerSections ==
    ASSUME lines \in Seq(LegacyLine), NEW l \in LegacyLine, SectionInv,
           FirewallKeyLine(l) \/ ServerKeyLine(l)
    PROVE  SectionInv'
<1>0. PICK n, key : Len(lines) = n /\ key = ServerKey(l.key)
  OBVIOUS
<1>1. /\ kind = "server" /\ kind' = kind /\ lines' = Append(lines, l)
      /\ BlocksKnown /\ SettingsKnown
  BY DEF FirewallKeyLine, ServerKeyLine, Line, SectionInv
<1>2. BlocksStay /\ BlockAt(n + 1)' = "server"
  BY <1>1 DEF BlocksStay, BlockAt
<1>3. Given' = Given /\ StanzasNumbered' /\ StanzaNamed' /\ "server" \in DOMAIN sections
  BY <1>1 DEF Given, StanzasNumbered, StanzaNamed, BlocksKnown
<1>4. Blocks' = Blocks \union (IF l.key = "%include" THEN {} ELSE {"server"})
  BY <1>0, <1>1, <1>2, BlocksNext
<1>5. KeyOf(l) = key
  BY <1>0, <1>1 DEF KeyOf
<1>6. CASE ServerKeyLine(l) /\ key # ""
  <2>1. sections' = SettingIn("server", key, SettingOf(key, l.text))
    BY <1>0, <1>1, <1>6 DEF ServerKeyLine, SettingOf
  <2>2. Sets("server", key, SettingOf(key, l.text))
    BY <2>1, SettingInSets
  <2>3. SettingsKnown'
    BY <1>0, <1>1, <1>2, <1>5, <1>6, <2>2, SettingNext
  <2>4. DOMAIN sections' = DOMAIN sections
    BY <1>3, <2>2 DEF Sets
  <2> QED
    BY <1>1, <1>3, <1>4, <2>3, <2>4 DEF SectionInv, BlocksKnown
<1>7. CASE FirewallKeyLine(l) \/ key = ""
  <2>1. sections' = sections /\ key = ""
    BY <1>0, <1>7, PrefixAssumption DEF FirewallKeyLine, ServerKeyLine, ServerKey, Lookup
  <2>2. SettingsKnown'
    BY <1>0, <1>1, <1>2, <1>5, <2>1, NoSettingNext
  <2> QED
    BY <1>1, <1>3, <1>4, <2>1, <2>2 DEF SectionInv, BlocksKnown
<1> QED
  BY <1>6, <1>7
-----------------------------------------------------------------------------
(* The invariant *)

\* The sections are what the lines say, the firewall is the one they are about,
\* and an access.conf without a stanza is one of includes that were warned about.
ConversionInv ==
    /\ TypeOK
    /\ SectionInv
    /\ backend = Detected
    /\ kind = "access" /\ sections = <<>> => DOMAIN lines \subseteq warned

\* What the proofs use of the types.
LEMMA TheLines == TypeOK => /\ kind \in {"access", "client", "server"}
                            /\ lines \in Seq(LegacyLine)
  BY ConversionAssumption DEF TypeOK, LegacyLine

\* The invariant holds before the first line, ...
LEMMA ConversionStarts == InitSystem => ConversionInv
<1> SUFFICES ASSUME InitSystem PROVE ConversionInv
  OBVIOUS
<1>1. /\ kind \in {"access", "client", "server"} /\ kind \in Kinds
      /\ lines = <<>> /\ DOMAIN lines = {} /\ Len(lines) = 0 /\ warned = {}
      /\ backend = "none" /\ phase = "reading" /\ program = "none" /\ stanza = "default"
      /\ sections = CASE kind = "access" -> <<>>
                      [] kind = "client" -> [default |-> <<>>]
                      [] kind = "server" -> [server |-> <<>>]
  BY ConversionAssumption, NoKeys DEF InitSystem, Init
<1>2. DOMAIN sections = Given /\ \A b \in DOMAIN sections : sections[b] = <<>>
  <2>1. CASE kind = "access"
    BY <1>1, <2>1, NoKeys DEF Given
  <2>2. CASE kind = "client"
    BY <1>1, <2>2 DEF Given
  <2>3. CASE kind = "server"
    BY <1>1, <2>3 DEF Given
  <2> QED
    BY <1>1, <2>1, <2>2, <2>3
<1>3. TypeOK
  <2>1. lines \in Seq(AccessLine \union ClientLine \union ServerLine) /\ Len(lines) <= MaxLines
    <3>1. \A S : <<>> \in Seq(S)
      OBVIOUS
    <3>2. MaxLines \in Nat
      BY ConversionAssumption
    <3> QED
      BY <1>1, <3>1, <3>2
  <2>2. \A b \in DOMAIN sections : DOMAIN sections[b] = {}
    BY <1>2, NoKeys
  <2>3. kind = "client" => {stanza, "default"} \subseteq DOMAIN sections
    BY <1>1, <1>2 DEF Given
  <2> QED
    BY <1>1, <2>1, <2>2, <2>3 DEF TypeOK
<1>4. Blocks = {} /\ \A b, k : ~ Says(b, k)
  BY <1>1 DEF Blocks, Says, Setters
<1>5. BlocksKnown /\ SettingsKnown
  <2>1. \A b \in DOMAIN sections : DOMAIN sections[b] = {}
    BY <1>2, NoKeys
  <2> QED
    BY <1>2, <1>4, <2>1 DEF BlocksKnown, SettingsKnown
<1>6. Heads(Len(lines)) = {} /\ ~ Headless
  BY <1>1 DEF Heads, Headless
<1>7. StanzasNumbered
  <2> SUFFICES ASSUME kind = "access"
               PROVE  sections = [i \in 1..Opened |-> sections[i]]
    BY DEF StanzasNumbered
  <2>1. Opened = 0
    BY <1>6, FS_EmptySet DEF Opened
  <2>2. sections = <<>>
    BY <1>1
  <2> QED
    BY <2>1, <2>2
<1>8. StanzaNamed
  BY <1>1, <1>2, <1>6 DEF StanzaNamed, Given
<1>9. backend = Detected
  BY <1>1 DEF Detected, Late, About
<1> QED
  BY <1>1, <1>3, <1>5, <1>7, <1>8, <1>9 DEF ConversionInv, SectionInv

\* A setting has one of three types.
LEMMA SettingTyped ==
    ASSUME NEW key, NEW text, kind \in {"access", "client", "server"}
    PROVE  SettingOf(key, text).type \in {"str", "bool", "list"}
  BY DEF SettingOf, AccessValue, ServerValue, Str, Bool, List, AccessBools, AccessLists, ServerBools

\* A line that keeps the sections as they should be, and warns about itself if it
\* leaves an access.conf without stanzas, keeps the invariant.
LEMMA LineKeeps ==
    ASSUME ConversionInv, NEW k, NEW l \in LegacyLine, Line(k, l), program' = program,
           SectionInv',
           IF kind = "server" /\ FirewallOf(l.key) \notin {"nfq", "none"}
              THEN backend' = NextBackend(FirewallOf(l.key)) ELSE backend' = backend,
           warned' = warned \/ warned' = warned \union {Len(lines) + 1},
           kind = "access" /\ sections' = <<>> =>
              sections = <<>> /\ warned' = warned \union {Len(lines) + 1}
    PROVE  ConversionInv'
<1>0. PICK n : Len(lines) = n
  OBVIOUS
<1>1. /\ kind \in {"access", "client", "server"} /\ lines \in Seq(LegacyLine)
      /\ kind' = kind /\ lines' = Append(lines, l) /\ phase' = "reading"
      /\ Len(lines) < MaxLines /\ TypeOK /\ backend = Detected
  BY TheLines DEF ConversionInv, Line
<1>2. /\ n \in Nat /\ DOMAIN lines = 1..n /\ DOMAIN lines' = 1..(n + 1)
      /\ lines' \in Seq(LegacyLine) /\ Len(lines') = n + 1
  BY <1>0, <1>1, LineRead
<1>3. (backend = Detected)'
  BY <1>0, <1>1, BackendNext
<1>4. TypeOK'
  <2>1. \A b \in DOMAIN sections' : \A key \in DOMAIN sections'[b] :
           sections'[b][key].type \in {"str", "bool", "list"}
    <3> SUFFICES ASSUME NEW b \in DOMAIN sections', NEW key \in DOMAIN sections'[b]
                 PROVE  sections'[b][key].type \in {"str", "bool", "list"}
      OBVIOUS
    <3>1. PICK t : t = Text(b, key)'
      OBVIOUS
    <3>2. sections'[b][key] = SettingOf(key, t)
      BY <1>1, <3>1 DEF SectionInv, SettingsKnown, SettingOf
    <3> QED
      BY <1>1, <3>2, SettingTyped
  <2>2. kind' = "client" => {stanza', "default"} \subseteq DOMAIN sections'
    BY DEF SectionInv, BlocksKnown, Given, StanzaNamed
  <2>3. backend' \in {"none", "iptables", "firewalld", "ipfw", "pf"}
    BY <1>1, Firewalls DEF TypeOK, NextBackend
  <2>4. warned' \subseteq DOMAIN lines'
    BY <1>0, <1>1, <1>2 DEF TypeOK
  <2>5. Len(lines') <= MaxLines
    <3>1. MaxLines \in Nat
      BY ConversionAssumption
    <3> QED
      BY <1>0, <1>1, <1>2, <3>1
  <2>6. kind' \in Kinds /\ program' \in {"none", "runs", "refuses"}
    BY <1>1 DEF TypeOK
  <2> QED
    BY <1>1, <1>2, <2>1, <2>2, <2>3, <2>4, <2>5, <2>6 DEF TypeOK, LegacyLine
<1>5. kind' = "access" /\ sections' = <<>> => DOMAIN lines' \subseteq warned'
  BY <1>0, <1>1, <1>2 DEF ConversionInv
<1> QED
  BY <1>3, <1>4, <1>5 DEF ConversionInv

\* A SOURCE or a key leaves no access.conf without stanzas.
LEMMA StanzaThere ==
    ASSUME lines \in Seq(LegacyLine), NEW l \in LegacyLine, SectionInv',
           kind = "access", kind' = kind, lines' = Append(lines, l), l.key # "%include"
    PROVE  sections' # <<>>
<1>0. PICK n, o : Len(lines) = n /\ Opened' = o
  OBVIOUS
<1>1. Opened \in Nat
  BY <1>0, OpenedIsCount
<1>2. o \in Nat /\ o # 0
  BY <1>0, <1>1, OpenedNext
<1>3. sections' = [i \in 1..o |-> sections'[i]]
  BY <1>0 DEF SectionInv, StanzasNumbered
<1> QED
  BY <1>2, <1>3, NumberedIsSeq

\* What the lines say does not change without them.
LEMMA SameSections ==
    ASSUME SectionInv, UNCHANGED <<kind, lines, sections, stanza>>
    PROVE  SectionInv'
<1>1. \A i : Heads(i)' = Heads(i) /\ KeyAt(i)' = KeyAt(i)
  BY DEF Heads, KeyAt
<1>2. Headless' <=> Headless
  BY <1>1 DEF Headless
<1>3. \A i : BlockAt(i)' = BlockAt(i)
  BY <1>1, <1>2 DEF BlockAt
<1>4. Blocks' = Blocks /\ Given' = Given
  BY <1>3 DEF Blocks, Given
<1>5. \A b, k : Setters(b, k)' = Setters(b, k)
  BY <1>1, <1>3 DEF Setters
<1>6. \A b, k : (Says(b, k)' <=> Says(b, k)) /\ Text(b, k)' = Text(b, k)
  BY <1>5 DEF Says, Text
<1>7. Convertible' = Convertible /\ \A k, t : SettingOf(k, t)' = SettingOf(k, t)
  BY DEF Convertible, SettingOf
<1>8. BlocksKnown'
  BY <1>4 DEF SectionInv, BlocksKnown
<1>9. SettingsKnown'
  <2> SUFFICES ASSUME NEW b \in DOMAIN sections'
               PROVE  /\ DOMAIN sections'[b] = {k \in Convertible : Says(b, k)'}
                      /\ \A k \in DOMAIN sections'[b] :
                            sections'[b][k] = SettingOf(k, Text(b, k)')
    BY <1>7 DEF SettingsKnown
  <2> QED
    BY <1>6 DEF SectionInv, SettingsKnown
<1>10. StanzasNumbered' /\ StanzaNamed'
  BY <1>1, <1>2 DEF SectionInv, StanzasNumbered, StanzaNamed, Opened, Heads
<1> QED
  BY <1>8, <1>9, <1>10 DEF SectionInv

\* ... is kept by every step of the converter and of the programs, ...
LEMMA ConversionNext == ConversionInv /\ [Next]_vars => ConversionInv'
<1> SUFFICES ASSUME ConversionInv, [Next]_vars
             PROVE  ConversionInv'
  OBVIOUS
<1>0. /\ kind \in {"access", "client", "server"} /\ lines \in Seq(LegacyLine)
      /\ SectionInv /\ TypeOK
  BY TheLines DEF ConversionInv
<1>1. ASSUME NEW l \in AccessLine, IncludeLine(l), UNCHANGED <<call, program, conf>>
      PROVE  ConversionInv'
  <2>1. SectionInv'
    BY <1>0, <1>1, AccessSections DEF LegacyLine
  <2> QED
    BY <1>1, <2>1, LineKeeps DEF IncludeLine, Warn, Line, LegacyLine
<1>2. ASSUME NEW l \in AccessLine, SourceLine(l), UNCHANGED <<call, program, conf>>
      PROVE  ConversionInv'
  <2>1. SectionInv'
    BY <1>0, <1>2, AccessSections DEF LegacyLine
  <2>2. sections' # <<>>
    BY <1>0, <1>2, <2>1, StanzaThere DEF SourceLine, Line, LegacyLine
  <2> QED
    BY <1>2, <2>1, <2>2, LineKeeps DEF SourceLine, Line, LegacyLine
<1>3. ASSUME NEW l \in AccessLine, AccessKeyLine(l), UNCHANGED <<call, program, conf>>
      PROVE  ConversionInv'
  <2>1. SectionInv'
    BY <1>0, <1>3, AccessSections DEF LegacyLine
  <2>2. sections' # <<>>
    BY <1>0, <1>3, <2>1, StanzaThere DEF AccessKeyLine, Line, LegacyLine
  <2> QED
    BY <1>3, <2>1, <2>2, LineKeeps DEF AccessKeyLine, Warn, Line, LegacyLine
<1>4. ASSUME NEW l \in ClientLine, StanzaHeader(l), UNCHANGED <<call, program, conf>>
      PROVE  ConversionInv'
  <2>1. SectionInv'
    BY <1>0, <1>4, ClientSections DEF LegacyLine
  <2> QED
    BY <1>4, <2>1, LineKeeps DEF StanzaHeader, Line, LegacyLine
<1>5. ASSUME NEW l \in ClientLine, ClientKeyLine(l), UNCHANGED <<call, program, conf>>
      PROVE  ConversionInv'
  <2>1. SectionInv'
    BY <1>0, <1>5, ClientSections DEF LegacyLine
  <2> QED
    BY <1>5, <2>1, LineKeeps DEF ClientKeyLine, Warn, Line, LegacyLine
<1>6. ASSUME NEW l \in ServerLine, FirewallKeyLine(l), UNCHANGED <<call, program, conf>>
      PROVE  ConversionInv'
  <2>1. SectionInv'
    BY <1>0, <1>6, ServerSections DEF LegacyLine
  <2> QED
    BY <1>6, <2>1, LineKeeps DEF FirewallKeyLine, Warn, Line, LegacyLine
<1>7. ASSUME NEW l \in ServerLine, ServerKeyLine(l), UNCHANGED <<call, program, conf>>
      PROVE  ConversionInv'
  <2>1. SectionInv'
    BY <1>0, <1>7, ServerSections DEF LegacyLine
  <2> QED
    BY <1>7, <2>1, LineKeeps DEF ServerKeyLine, Line, LegacyLine
<1>8. ASSUME UNCHANGED <<kind, lines, sections, stanza, backend, warned>>,
             TypeOK'
      PROVE  ConversionInv'
  <2>1. SectionInv'
    BY <1>0, <1>8, SameSections
  <2>2. (backend = Detected)'
    BY <1>8 DEF ConversionInv, Detected, Late, About
  <2> QED
    BY <1>8, <2>1, <2>2 DEF ConversionInv
<1>9. ASSUME Emit, UNCHANGED <<call, program, conf>>
      PROVE  ConversionInv'
  <2>1. UNCHANGED <<kind, lines, sections, stanza, backend, warned>>
    BY <1>9 DEF Emit
  <2>2. /\ phase' \in {"printed", "error"}
        /\ phase' = "error" => kind = "access" /\ sections = <<>>
    BY <1>9 DEF Emit
  <2>3. TypeOK'
    BY <1>0, <1>9, <2>1, <2>2 DEF TypeOK, ConversionInv
  <2> QED
    BY <1>8, <2>1, <2>3
<1>10. ASSUME NEW k, NEW c, NEW result, Starts(k, c, result)
       PROVE  ConversionInv'
  <2>1. TypeOK'
    BY <1>0, <1>10 DEF Starts, convVars, TypeOK
  <2> QED
    BY <1>8, <1>10, <2>1 DEF Starts, convVars
<1>11. CASE UNCHANGED vars
  <2>1. TypeOK'
    BY <1>0, <1>11 DEF vars, TypeOK
  <2> QED
    BY <1>8, <1>11, <2>1 DEF vars
<1> QED
  BY <1>1, <1>2, <1>3, <1>4, <1>5, <1>6, <1>7, <1>9, <1>10, <1>11
     DEF Next, Converting, Convert, AccessLoaded, ClientStarts, ServerStarts

\* ... and so holds throughout.
LEMMA ConversionInvariant == Spec => []ConversionInv
<1>1. InitSystem => ConversionInv
  BY ConversionStarts
<1>2. ConversionInv /\ [Next]_vars => ConversionInv'
  BY ConversionNext
<1> QED
  BY <1>1, <1>2, PTL DEF Spec

\* Every variable holds a value of its type; a conversion only fails for an
\* access.conf of which every line has been warned about.
THEOREM TypeCorrect == Spec => []TypeOK
<1>1. ConversionInv => TypeOK
  BY DEF ConversionInv
<1> QED
  BY <1>1, ConversionInvariant, PTL

\* Whatever lines a legacy file has, each section is that of its block and holds
\* the last setting of each key.
THEOREM LastLineAlwaysWins == Spec => []LastLineWins
<1>1. ConversionInv => LastLineWins
  <2> SUFFICES ASSUME ConversionInv PROVE LastLineWins
    OBVIOUS
  <2>1. SectionInv /\ kind \in {"access", "client", "server"}
    BY TheLines DEF ConversionInv
  <2>2. DOMAIN sections = Blocks \union (CASE kind = "client" -> {"default"}
                                            [] kind = "server" -> {"server"}
                                            [] OTHER -> {})
    BY <2>1 DEF SectionInv, BlocksKnown, Given
  <2>3. ASSUME NEW b \in DOMAIN sections
        PROVE  DOMAIN sections[b] = {k \in Convertible : Says(b, k)}
    BY <2>1 DEF SectionInv, SettingsKnown
  <2>4. ASSUME NEW b \in DOMAIN sections, NEW k \in DOMAIN sections[b]
        PROVE  sections[b][k].val = Meant(sections[b][k].type, Text(b, k))
    <3>1. sections[b][k] = SettingOf(k, Text(b, k))
      BY <2>1 DEF SectionInv, SettingsKnown
    <3> QED
      BY <2>1, <3>1 DEF SettingOf, AccessValue, ServerValue, Meant, Str, Bool, List, ToBool,
         PortList
  <2> QED
    BY <2>2, <2>3, <2>4 DEF LastLineWins
<1> QED
  BY <1>1, ConversionInvariant, PTL

\* Whatever the order of the lines, the template is that of the most particular
\* firewall they are about.
THEOREM BackendAlwaysDetected == Spec => []BackendDetected
<1>1. ConversionInv => BackendDetected
  BY DEF ConversionInv, BackendDetected, Detected, Late, About
<1> QED
  BY <1>1, ConversionInvariant, PTL
-----------------------------------------------------------------------------
(* What a program makes of the file *)

Output == CASE kind = "access" -> sections
            [] kind = "client" -> [name \in DOMAIN sections |-> AsRead(sections[name])]
            [] kind = "server" -> Template ++ sections["server"]

Outcome(result) == /\ program = IF result.ok THEN "runs" ELSE "refuses"
                   /\ conf = result.conf

\* The lines of an rc file are such, what is printed are the sections, and a program that has been started read
\* them, for one of the calls there are.
LoadInv ==
    /\ ConversionInv
    /\ kind = "client" => lines \in Seq(ClientLine)
    /\ phase = "printed" => yaml = Output
    /\ program # "none" =>
         /\ phase = "printed"
         /\ kind = "access" => Outcome(LoadAccessConfig(yaml))
         /\ kind = "client" =>
              call \in ClientCall /\ Outcome(LoadConfig(call.flags, call.env, call.file, yaml))
         /\ kind = "server" => call \in ServerCall /\ Outcome(LoadServer(call, yaml))

\* What is printed stays, and each start reads it.
LEMMA LoadNext == LoadInv /\ [Next]_vars => LoadInv'
<1> SUFFICES ASSUME LoadInv, [Next]_vars PROVE LoadInv'
  OBVIOUS
<1>0. ConversionInv'
  BY ConversionNext DEF LoadInv
<1>1. kind \in {"access", "client", "server"}
  BY TheLines DEF LoadInv, ConversionInv
<1>2. ASSUME phase = "reading", phase' = "reading", program' = program,
             kind' = "client" => lines' \in Seq(ClientLine)
      PROVE  LoadInv'
  BY <1>0, <1>2 DEF LoadInv
<1>3. ASSUME NEW k, NEW l, Line(k, l), k = "client" => l \in ClientLine,
             UNCHANGED <<call, program, conf>>
      PROVE  LoadInv'
  <2>1. kind' = "client" => lines' \in Seq(ClientLine)
    <3>1. kind' = k /\ kind = k /\ lines' = Append(lines, l)
      BY <1>3 DEF Line
    <3>2. \A S : \A s \in Seq(S) : \A e \in S : Append(s, e) \in Seq(S)
      OBVIOUS
    <3> QED
      BY <1>3, <3>1, <3>2 DEF LoadInv
  <2> QED
    BY <1>2, <1>3, <2>1 DEF Line
<1>4. ASSUME Emit, UNCHANGED <<call, program, conf>>
      PROVE  LoadInv'
  <2>1. program' = "none" /\ UNCHANGED <<kind, lines, sections, backend>>
    BY <1>4 DEF Emit, LoadInv
  <2>2. phase' = "printed" => yaml' = Output
    BY <1>4 DEF Emit, Output
  <2>3. Output' = Output
    BY <2>1 DEF Output, Template
  <2> QED
    BY <1>0, <2>1, <2>2, <2>3 DEF LoadInv
<1>5. ASSUME NEW k, NEW c, NEW result, Starts(k, c, result)
      PROVE  /\ phase' = "printed" => (yaml = Output)'
             /\ phase' = "printed" /\ yaml' = yaml /\ kind' = kind /\ kind = k
             /\ lines' = lines
             /\ call' = c /\ Outcome(result)'
  <2>1. Output' = Output
    BY <1>5 DEF Starts, convVars, Output, Template
  <2> QED
    BY <1>5, <2>1 DEF Starts, convVars, LoadInv, Outcome
<1>6. ASSUME AccessLoaded PROVE LoadInv'
  <2>1. PICK r : r = LoadAccessConfig(yaml)
    OBVIOUS
  <2>2. Starts("access", AnyCall, r)
    BY <1>6, <2>1 DEF AccessLoaded
  <2> QED
    BY <1>0, <1>5, <2>1, <2>2 DEF LoadInv
<1>7. ASSUME NEW c \in ClientCall, ClientStarts(c) PROVE LoadInv'
  <2>1. PICK r : r = LoadConfig(c.flags, c.env, c.file, yaml)
    OBVIOUS
  <2>2. Starts("client", c, r)
    BY <1>7, <2>1 DEF ClientStarts
  <2> QED
    BY <1>0, <1>5, <2>1, <2>2 DEF LoadInv
<1>8. ASSUME NEW c \in ServerCall, ServerStarts(c) PROVE LoadInv'
  <2>1. PICK r : r = LoadServer(c, yaml)
    OBVIOUS
  <2>2. Starts("server", c, r)
    BY <1>8, <2>1 DEF ServerStarts
  <2> QED
    BY <1>0, <1>5, <2>1, <2>2 DEF LoadInv
<1>9. CASE UNCHANGED vars
  <2>1. Output' = Output
    BY <1>9 DEF vars, Output, Template
  <2> QED
    BY <1>0, <1>9, <2>1 DEF vars, LoadInv, Outcome
<1> QED
  BY <1>3, <1>4, <1>6, <1>7, <1>8, <1>9
     DEF Next, Converting, Convert, IncludeLine, SourceLine, AccessKeyLine, StanzaHeader,
         ClientKeyLine, FirewallKeyLine, ServerKeyLine

\* What is printed, and what was made of it, hold throughout.
LEMMA LoadInvariant == Spec => []LoadInv
<1>1. InitSystem => LoadInv
  <2> SUFFICES ASSUME InitSystem PROVE LoadInv
    OBVIOUS
  <2>1. phase = "reading" /\ program = "none" /\ lines \in Seq(ClientLine)
    BY DEF InitSystem, Init
  <2> QED
    BY <2>1, ConversionStarts DEF LoadInv
<1>2. LoadInv /\ [Next]_vars => LoadInv'
  BY LoadNext
<1> QED
  BY <1>1, <1>2, PTL DEF Spec
-----------------------------------------------------------------------------
(* Sections as layers of settings *)

\* Only keys that are converted are said.
LEMMA SaysConverted ==
    ASSUME kind \in {"access", "client", "server"}, NEW b, NEW k, k # "", Says(b, k)
    PROVE  k \in Convertible
<1>1. PICK i \in DOMAIN lines : KeyAt(i) = k
  BY DEF Says, Setters
<1>2. KeyAt(i) = KeyOf(lines[i])
  BY DEF KeyAt, KeyOf
<1> QED
  BY <1>1, <1>2, KeysConverted

\* A section has the keys that are said of its block, and their settings.
LEMMA SectionRead ==
    ASSUME ConversionInv, NEW b, NEW k, k # ""
    PROVE  /\ b \notin DOMAIN sections => ~ Says(b, k)
           /\ b \in DOMAIN sections => (k \in DOMAIN sections[b] <=> Says(b, k))
           /\ b \in DOMAIN sections /\ Says(b, k) =>
                 sections[b][k] = SettingOf(k, Text(b, k))
<1>1. /\ kind \in {"access", "client", "server"}
      /\ BlocksKnown /\ SettingsKnown
  BY TheLines DEF ConversionInv, SectionInv
<1>2. k \notin Convertible => ~ Says(b, k)
  BY <1>1, SaysConverted
<1>3. b \notin DOMAIN sections => ~ Says(b, k)
  BY <1>1, <1>2, NothingSaid
<1> QED
  BY <1>1, <1>2, <1>3 DEF SettingsKnown

\* What unmarshalling makes of a layer, leniently and strictly.
LEMMA Unmarshalled ==
    ASSUME NEW types, NEW layer
    PROVE  /\ Unmarshal(types, layer).ok <=>
                \A k \in DOMAIN types \intersect DOMAIN layer : Fits(types[k], layer[k])
           /\ Unmarshal(types, layer).ok =>
                \A k \in DOMAIN types : Unmarshal(types, layer).conf[k] =
                   IF k \in DOMAIN layer THEN Fill(types[k], layer[k]) ELSE Zero(types[k])
           /\ Unmarshal(types, layer).ok \in BOOLEAN
  BY DEF Unmarshal, Accepted, Refused

\* The strict one takes only values of the types of the fields.
LEMMA UnmarshalledStrictly ==
    ASSUME NEW types, NEW layer
    PROVE  /\ UnmarshalStrict(types, layer).ok <=>
                \A k \in DOMAIN types \intersect DOMAIN layer : layer[k].type = types[k]
           /\ UnmarshalStrict(types, layer).ok =>
                \A k \in DOMAIN types : UnmarshalStrict(types, layer).conf[k] =
                   IF k \in DOMAIN layer THEN layer[k].val ELSE Zero(types[k])
           /\ UnmarshalStrict(types, layer).ok \in BOOLEAN
<1>1. CASE \A k \in DOMAIN types \intersect DOMAIN layer : layer[k].type = types[k]
  <2>1. UnmarshalStrict(types, layer) = Unmarshal(types, layer)
    BY <1>1 DEF UnmarshalStrict
  <2>2. \A k \in DOMAIN types \intersect DOMAIN layer :
           Fits(types[k], layer[k]) /\ Fill(types[k], layer[k]) = layer[k].val
    BY <1>1 DEF Fits, Fill
  <2> QED
    BY <1>1, <2>1, <2>2, Unmarshalled
<1>2. CASE ~ \A k \in DOMAIN types \intersect DOMAIN layer : layer[k].type = types[k]
  BY <1>2 DEF UnmarshalStrict, Refused
<1> QED
  BY <1>1, <1>2

(* access.conf *)

\* The fields of a stanza have the types of their settings, but for the timeouts.
LEMMA AccessFields ==
    /\ "" \notin DOMAIN AccessTypes
    /\ {"source", "key", "key_base64", "access_timeout", "max_access_timeout"}
          \subseteq DOMAIN AccessTypes
    /\ \A k \in DOMAIN AccessTypes \ {"access_timeout", "max_access_timeout"} : \A t :
          /\ AccessValue(k, t).type = AccessTypes[k]
          /\ AccessValue(k, t).val = Meant(AccessTypes[k], t)
    /\ \A k \in {"access_timeout", "max_access_timeout"} : \A t :
          AccessValue(k, t).type # AccessTypes[k]
    /\ \A k \in {"source", "key", "key_base64"} : AccessTypes[k] = "str"
  BY DEF AccessTypes, ++, AccessValue, AccessBools, AccessLists, Meant, Str, Bool, List, ToBool,
     PortList

\* One stanza is read if it has no timeout, and resolves if it has a source and a key.
LEMMA StanzaLoads ==
    ASSUME ConversionInv, kind = "access", NEW b \in DOMAIN sections,
           NEW read, read = UnmarshalStrict(AccessTypes, sections[b])
    PROVE  /\ read.ok <=> ~ Says(b, "access_timeout") /\ ~ Says(b, "max_access_timeout")
           /\ read.ok => (Resolves(read.conf) <=>
                Gives(b, "source") /\ (Gives(b, "key") \/ Gives(b, "key_base64")))
           /\ read.ok => \A k \in DOMAIN AccessTypes :
                Says(b, k) => read.conf[k] = Meant(AccessTypes[k], Text(b, k))
<1>1. \A k \in DOMAIN AccessTypes :
         /\ k \in DOMAIN sections[b] <=> Says(b, k)
         /\ Says(b, k) => sections[b][k] = AccessValue(k, Text(b, k))
  BY SectionRead, AccessFields DEF SettingOf
<1>2. read.ok <=> ~ Says(b, "access_timeout") /\ ~ Says(b, "max_access_timeout")
  <2>1. read.ok <=>
           \A k \in DOMAIN AccessTypes \intersect DOMAIN sections[b] :
              sections[b][k].type = AccessTypes[k]
    BY UnmarshalledStrictly
  <2>2. ASSUME Says(b, "access_timeout") \/ Says(b, "max_access_timeout")
        PROVE  ~ read.ok
    <3>1. PICK k \in {"access_timeout", "max_access_timeout"} : Says(b, k)
      BY <2>2
    <3>2. k \in DOMAIN AccessTypes /\ \A t : AccessValue(k, t).type # AccessTypes[k]
      BY <3>1, AccessFields
    <3>3. k \in DOMAIN sections[b] /\ sections[b][k].type # AccessTypes[k]
      BY <1>1, <3>1, <3>2
    <3> QED
      BY <2>1, <3>2, <3>3
  <2>3. ASSUME ~ Says(b, "access_timeout"), ~ Says(b, "max_access_timeout")
        PROVE  read.ok
    BY <1>1, <2>1, <2>3, AccessFields
  <2> QED
    BY <2>2, <2>3
<1>3. ASSUME read.ok
      PROVE  \A k \in DOMAIN AccessTypes :
                read.conf[k] = IF Says(b, k) THEN Meant(AccessTypes[k], Text(b, k))
                                             ELSE Zero(AccessTypes[k])
  <2>1. \A k \in DOMAIN AccessTypes :
           read.conf[k] = IF k \in DOMAIN sections[b] THEN sections[b][k].val
                                                      ELSE Zero(AccessTypes[k])
    BY <1>3, UnmarshalledStrictly
  <2>2. ~ Says(b, "access_timeout") /\ ~ Says(b, "max_access_timeout")
    BY <1>2, <1>3
  <2> QED
    BY <1>1, <2>1, <2>2, AccessFields
<1>4. ASSUME read.ok
      PROVE  Resolves(read.conf) <=>
                Gives(b, "source") /\ (Gives(b, "key") \/ Gives(b, "key_base64"))
  <2>1. \A k \in {"source", "key", "key_base64"} :
           read.conf[k] = IF Says(b, k) THEN Text(b, k) ELSE ""
    <3>1. \A t : Meant("str", t) = t
      BY DEF Meant
    <3>2. Zero("str") = ""
      BY DEF Zero
    <3>3. \A k \in {"source", "key", "key_base64"} :
             k \in DOMAIN AccessTypes /\ AccessTypes[k] = "str"
      BY AccessFields
    <3> QED
      BY <1>3, <1>4, <3>1, <3>2, <3>3
  <2>2. \A k \in {"source", "key", "key_base64"} : read.conf[k] # "" <=> Gives(b, k)
    BY <2>1 DEF Gives
  <2> QED
    BY <2>2 DEF Resolves
<1> QED
  BY <1>2, <1>3, <1>4

\* All stanzas are loaded or none.
LEMMA AccessLoads ==
    ASSUME ConversionInv, kind = "access", NEW result, result = LoadAccessConfig(sections)
    PROVE  /\ result.ok <=>
                \A b \in Blocks :
                   /\ Gives(b, "source")
                   /\ Gives(b, "key") \/ Gives(b, "key_base64")
                   /\ ~ Says(b, "access_timeout") /\ ~ Says(b, "max_access_timeout")
           /\ result.ok => \A b \in Blocks : \A k \in DOMAIN AccessTypes :
                Says(b, k) => result.conf[b][k] = Meant(AccessTypes[k], Text(b, k))
<1> DEFINE read(b) == UnmarshalStrict(AccessTypes, sections[b])
<1>1. DOMAIN sections = Blocks
  BY DEF ConversionInv, SectionInv, BlocksKnown, Given
<1>2. \A b \in DOMAIN sections :
         /\ read(b).ok <=> ~ Says(b, "access_timeout") /\ ~ Says(b, "max_access_timeout")
         /\ read(b).ok => (Resolves(read(b).conf) <=>
              Gives(b, "source") /\ (Gives(b, "key") \/ Gives(b, "key_base64")))
         /\ read(b).ok => \A k \in DOMAIN AccessTypes :
              Says(b, k) => read(b).conf[k] = Meant(AccessTypes[k], Text(b, k))
  BY StanzaLoads
<1>3. result = IF \A b \in DOMAIN sections : read(b).ok /\ Resolves(read(b).conf)
               THEN Accepted([b \in DOMAIN sections |-> read(b).conf]) ELSE Refused
  BY DEF LoadAccessConfig
<1> HIDE DEF read
<1>4. result.ok <=> \A b \in DOMAIN sections : read(b).ok /\ Resolves(read(b).conf)
  BY <1>3 DEF Accepted, Refused
<1>5. result.ok => \A b \in DOMAIN sections : result.conf[b] = read(b).conf
  BY <1>3, <1>4 DEF Accepted
<1> QED
  BY <1>1, <1>2, <1>4, <1>5

(* fwknopd.conf *)

\* Of four layers the first that has a key decides on it; where the others have the
\* types of the fields or fit them, it is the third that is taken or refused.
LEMMA LayerDecides ==
    ASSUME NEW types, NEW flags, NEW env, NEW file, NEW defaults,
           \A k \in DOMAIN flags : IsA(types, k, flags[k]),
           \A k \in DOMAIN env : FitsIn(types, k, env[k]),
           \A k \in DOMAIN defaults : IsA(types, k, defaults[k]),
           NEW read, read = Unmarshal(types, flags ++ (env ++ (file ++ defaults)))
    PROVE  /\ read.ok <=>
                \A k \in DOMAIN types \intersect DOMAIN file :
                   k \notin DOMAIN flags \union DOMAIN env => Fits(types[k], file[k])
           /\ read.ok => \A k \in DOMAIN types :
                /\ k \in DOMAIN flags => read.conf[k] = flags[k].val
                /\ k \notin DOMAIN flags /\ k \in DOMAIN env =>
                      read.conf[k] = Fill(types[k], env[k])
                /\ k \notin DOMAIN flags \union DOMAIN env /\ k \in DOMAIN file =>
                      read.conf[k] = Fill(types[k], file[k])
<1> DEFINE layer == flags ++ (env ++ (file ++ defaults))
<1>1. DOMAIN layer = DOMAIN flags \union DOMAIN env \union DOMAIN file \union DOMAIN defaults
  BY DEF ++
<1>2. \A k \in DOMAIN layer :
         layer[k] = IF k \in DOMAIN flags THEN flags[k]
                    ELSE IF k \in DOMAIN env THEN env[k]
                    ELSE IF k \in DOMAIN file THEN file[k] ELSE defaults[k]
  <2>1. \A k \in DOMAIN (file ++ defaults) :
           (file ++ defaults)[k] = IF k \in DOMAIN file THEN file[k] ELSE defaults[k]
    BY DEF ++
  <2>2. \A k \in DOMAIN (env ++ (file ++ defaults)) :
           (env ++ (file ++ defaults))[k] =
              IF k \in DOMAIN env THEN env[k] ELSE (file ++ defaults)[k]
    BY DEF ++
  <2>3. \A k \in DOMAIN layer :
           layer[k] = IF k \in DOMAIN flags THEN flags[k] ELSE (env ++ (file ++ defaults))[k]
    BY DEF ++
  <2>4. /\ DOMAIN (file ++ defaults) = DOMAIN file \union DOMAIN defaults
        /\ DOMAIN (env ++ (file ++ defaults)) = DOMAIN env \union DOMAIN (file ++ defaults)
    BY DEF ++
  <2> HIDE DEF layer
  <2> QED
    BY <1>1, <2>1, <2>2, <2>3, <2>4
<1>3. /\ read.ok <=> \A k \in DOMAIN types \intersect DOMAIN layer : Fits(types[k], layer[k])
      /\ read.ok => \A k \in DOMAIN types : read.conf[k] =
            IF k \in DOMAIN layer THEN Fill(types[k], layer[k]) ELSE Zero(types[k])
  BY Unmarshalled
<1> HIDE DEF layer
<1>4. \A k \in DOMAIN types : \A v : IsA(types, k, v) =>
         Fits(types[k], v) /\ Fill(types[k], v) = v.val
  BY DEF IsA, Fits, Fill
<1>5. \A k \in DOMAIN types : \A v : FitsIn(types, k, v) => Fits(types[k], v)
  BY DEF FitsIn
<1> QED
  BY <1>1, <1>2, <1>3, <1>4, <1>5

\* fwknopd puts what it is given over the file, and the file over its defaults.
LEMMA ServerLayers ==
    ASSUME NEW c \in ServerCall, NEW file
    PROVE  LoadServer(c, file) =
              Unmarshal(ServerTypes,
                 c.flags ++ (c.env ++ (file ++ (ServerDefaults ++ ServerFlagDefaults))))
<1>1. "config_file" \notin DOMAIN c.flags
  BY CallAssumption
<1>2. Server(file)!FileLayer(c.flags) = file
  BY <1>1 DEF Server!FileLayer, Only
<1>3. Server(file)!LoadServerConfig(c) =
         c.flags ++ (c.env ++ (file ++ (ServerDefaults ++ ServerFlagDefaults)))
  BY <1>2 DEF Server!LoadServerConfig, Server!++, ++
<1> QED
  BY <1>3 DEF LoadServer

\* Fields of fwknopd that a converted file sets, by their types.
LEMMA ServerFields ==
    ASSUME kind = "server"
    PROVE  /\ \A k \in DOMAIN ServerTypes : ServerTypes[k] \in {"str", "int", "bool"}
           /\ \A k \in Convertible \intersect DOMAIN ServerTypes :
                /\ ServerTypes[k] = "int" <=> k \in {"udp_port", "max_spa_packet_age"}
                /\ ServerTypes[k] = "bool" <=> k = "verbose"
                /\ \A t : ServerValue(k, t) = Str(t)
           /\ {"udp_port", "max_spa_packet_age", "verbose", "action_template"}
                 \subseteq DOMAIN ServerTypes
           /\ ServerTypes["action_template"] = "str"
           /\ "" \notin DOMAIN ServerTypes
<1>1. Convertible \subseteq ServerNew \union ServerKept
  BY ServerTable DEF Convertible
<1>2. \A k \in DOMAIN ServerTypes :
         ServerTypes[k] = IF k \in {"udp_port", "max_spa_packet_age"} THEN "int"
                          ELSE IF k \in {"verbose", "foreground", "test", "dump_config",
                                         "kill", "restart", "status", "version"}
                          THEN "bool" ELSE "str"
  BY DEF ServerTypes, ++
<1>3. \A k \in Convertible : k \notin {"foreground", "test", "dump_config", "kill",
                                      "restart", "status", "version"}
  BY <1>1 DEF ServerNew, ServerKept, ServerBools
<1>4. /\ {"udp_port", "max_spa_packet_age", "verbose", "action_template"}
            \subseteq DOMAIN ServerTypes
      /\ DOMAIN ServerTypes \intersect ServerBools = {}
      /\ "" \notin DOMAIN ServerTypes
  BY DEF ServerTypes, ++, ServerBools
<1> QED
  BY <1>2, <1>3, <1>4 DEF ServerValue

\* What is printed for fwknopd: the settings of the section and the template.
LEMMA ServerFile ==
    ASSUME ConversionInv, kind = "server", NEW file, file = Template ++ sections["server"]
    PROVE  /\ \A k \in DOMAIN ServerTypes : Says("server", k) =>
                /\ k \in DOMAIN file /\ k \in Convertible
                /\ file[k] = Str(Text("server", k))
           /\ \A k \in DOMAIN ServerTypes \intersect DOMAIN file :
                ~ Says("server", k) => file[k] = Str(backend) /\ ServerTypes[k] = "str"
           /\ backend # "none" => /\ "action_template" \in DOMAIN file
                                  /\ file["action_template"] = Str(backend)
<1>1. BlocksKnown /\ SettingsKnown /\ "server" \in DOMAIN sections
  BY DEF ConversionInv, SectionInv, BlocksKnown, Given
<1>2. \A k \in DOMAIN ServerTypes :
         /\ k \in DOMAIN sections["server"] <=> Says("server", k)
         /\ Says("server", k) => /\ sections["server"][k] = SettingOf(k, Text("server", k))
                                 /\ k \in Convertible
  <2> SUFFICES ASSUME NEW k \in DOMAIN ServerTypes
               PROVE  /\ k \in DOMAIN sections["server"] <=> Says("server", k)
                      /\ Says("server", k) =>
                            /\ sections["server"][k] = SettingOf(k, Text("server", k))
                            /\ k \in Convertible
    OBVIOUS
  <2>1. k # ""
    BY ServerFields
  <2>2. /\ k \in DOMAIN sections["server"] <=> Says("server", k)
        /\ Says("server", k) => sections["server"][k] = SettingOf(k, Text("server", k))
    BY <1>1, <2>1, SectionRead
  <2> QED
    BY <1>1, <2>2 DEF SettingsKnown
<1>3. \A k \in Convertible \intersect DOMAIN ServerTypes :
         SettingOf(k, Text("server", k)) = Str(Text("server", k))
  <2> SUFFICES ASSUME NEW k \in Convertible \intersect DOMAIN ServerTypes
               PROVE  SettingOf(k, Text("server", k)) = Str(Text("server", k))
    OBVIOUS
  <2>1. SettingOf(k, Text("server", k)) = ServerValue(k, Text("server", k))
    BY DEF SettingOf
  <2>2. \A t : ServerValue(k, t) = Str(t)
    BY ServerFields
  <2> QED
    BY <2>1, <2>2
<1>4. "action_template" \notin Convertible
  BY ServerTable DEF Convertible, ServerNew, ServerKept, ServerBools
<1>5. /\ backend = "none" => DOMAIN Template = {}
      /\ backend # "none" => DOMAIN Template = {"action_template"}
      /\ \A k \in DOMAIN Template : /\ Template[k] = Str(backend)
                                    /\ k \notin Convertible
                                    /\ ServerTypes[k] = "str"
  <2>1. CASE backend = "none"
    BY <2>1, NoKeys DEF Template
  <2>2. CASE backend # "none"
    <3>1. DOMAIN Template = {"action_template"} /\ Template["action_template"] = Str(backend)
      BY <2>2 DEF Template
    <3>2. ServerTypes["action_template"] = "str"
      BY ServerFields
    <3> QED
      BY <1>4, <2>2, <3>1, <3>2
  <2> QED
    BY <2>1, <2>2
<1>6. /\ DOMAIN file = DOMAIN Template \union DOMAIN sections["server"]
      /\ \A k \in DOMAIN file :
            file[k] = IF k \in DOMAIN Template THEN Template[k] ELSE sections["server"][k]
  BY DEF ++
<1>7. backend # "none" => /\ "action_template" \in DOMAIN file
                         /\ file["action_template"] = Str(backend)
  BY <1>5, <1>6
<1> QED
  BY <1>2, <1>3, <1>5, <1>6, <1>7

\* A text that fits a field.
TextOf(type, t) ==
    \/ type = "str"
    \/ t = ""
    \/ type = "int" /\ t \in DOMAIN Number
    \/ type = "bool" /\ t \in DOMAIN ParseBool

\* A text fits a number or a Boolean if it is empty or reads as one.
LEMMA TextFits ==
    ASSUME NEW type, NEW t
    PROVE  Fits(type, Str(t)) <=> TextOf(type, t)
  BY DEF Fits, Str, TextOf

\* A clear text is read as what it means.
LEMMA TextMeant ==
    ASSUME NEW type \in {"str", "int", "bool"}, NEW t, TextOf(type, t), Clear(type, t)
    PROVE  Fill(type, Str(t)) = Meant(type, t)
<1>1. ASSUME type = "str" PROVE Fill(type, Str(t)) = Meant(type, t)
  BY <1>1 DEF Fill, Str, Meant
<1>2. ASSUME type = "int" PROVE Fill(type, Str(t)) = Meant(type, t)
  <2>1. t \in DOMAIN Number /\ t # ""
    BY <1>2, SettingsAssumption DEF Clear
  <2> QED
    BY <1>2, <2>1 DEF Fill, Str, Meant
<1>3. ASSUME type = "bool" PROVE Fill(type, Str(t)) = Meant(type, t)
  <2>1. t \in Yes \union No /\ t # ""
    BY <1>3 DEF Clear, Yes, No
  <2>2. ParseBool[t] = (t \in Yes)
    BY <1>3, <2>1, WordAssumption DEF TextOf
  <2> QED
    BY <1>3, <2>1, <2>2 DEF Fill, Str, Meant
<1> QED
  BY <1>1, <1>2, <1>3

\* fwknopd takes a converted file if its numbers and its Boolean are such, or are
\* overridden, and runs with what the legacy file means.
LEMMA ServerLoads ==
    ASSUME ConversionInv, kind = "server", call \in ServerCall,
           NEW result, result = LoadServer(call, Template ++ sections["server"])
    PROVE  /\ result.ok <=>
                /\ \A k \in {"udp_port", "max_spa_packet_age"} :
                      Gives("server", k) /\ ~ Overridden(k)
                         => Text("server", k) \in DOMAIN Number
                /\ Gives("server", "verbose") /\ ~ Overridden("verbose")
                      => Text("server", "verbose") \in DOMAIN ParseBool
           /\ result.ok =>
                \A k \in Convertible \intersect DOMAIN ServerTypes :
                   Says("server", k) /\ ~ Overridden(k) /\ Clear(ServerTypes[k], Text("server", k))
                      => result.conf[k] = Meant(ServerTypes[k], Text("server", k))
           /\ result.ok /\ backend # "none" /\ ~ Overridden("action_template")
                => result.conf["action_template"] = backend
<1>1. PICK file : file = Template ++ sections["server"]
  OBVIOUS
<1>2. PICK defaults : defaults = ServerDefaults ++ ServerFlagDefaults
  OBVIOUS
<1>3. result = Unmarshal(ServerTypes, call.flags ++ (call.env ++ (file ++ defaults)))
  BY <1>1, <1>2, ServerLayers
<1>4. /\ \A k \in DOMAIN call.flags : IsA(ServerTypes, k, call.flags[k])
      /\ \A k \in DOMAIN call.env : FitsIn(ServerTypes, k, call.env[k])
      /\ \A k \in DOMAIN defaults : IsA(ServerTypes, k, defaults[k])
  BY <1>2, CallAssumption DEF ++
<1>5. \A k : Overridden(k) <=> k \in DOMAIN call.flags \union DOMAIN call.env
  BY DEF Overridden
<1>6. /\ result.ok <=> \A k \in DOMAIN ServerTypes \intersect DOMAIN file :
            ~ Overridden(k) => Fits(ServerTypes[k], file[k])
      /\ result.ok => \A k \in DOMAIN ServerTypes \intersect DOMAIN file :
            ~ Overridden(k) => result.conf[k] = Fill(ServerTypes[k], file[k])
  BY <1>3, <1>4, <1>5, LayerDecides
<1>7. /\ \A k \in DOMAIN ServerTypes : ServerTypes[k] \in {"str", "int", "bool"}
      /\ \A k \in Convertible \intersect DOMAIN ServerTypes :
            /\ ServerTypes[k] = "int" <=> k \in {"udp_port", "max_spa_packet_age"}
            /\ ServerTypes[k] = "bool" <=> k = "verbose"
            /\ \A t : ServerValue(k, t) = Str(t)
      /\ {"udp_port", "max_spa_packet_age", "verbose", "action_template"}
            \subseteq DOMAIN ServerTypes
      /\ ServerTypes["action_template"] = "str"
      /\ "" \notin DOMAIN ServerTypes
  BY ServerFields
<1>8. \A k \in DOMAIN ServerTypes : Says("server", k) =>
         /\ k \in DOMAIN file /\ k \in Convertible
         /\ file[k] = Str(Text("server", k))
  BY <1>1, ServerFile
<1>9. backend # "none" => /\ "action_template" \in DOMAIN file
                         /\ file["action_template"] = Str(backend)
  BY <1>1, ServerFile
<1>10. \A k \in DOMAIN ServerTypes \intersect DOMAIN file :
          ~ Says("server", k) => Fits(ServerTypes[k], file[k])
  <2>1. Fits("str", Str(backend))
    BY DEF Fits
  <2> QED
    BY <1>1, <2>1, ServerFile
<1>11. result.ok <=> \A k \in DOMAIN ServerTypes :
          Says("server", k) /\ ~ Overridden(k) => Fits(ServerTypes[k], Str(Text("server", k)))
  BY <1>6, <1>8, <1>10
<1>12. \A k \in DOMAIN ServerTypes : Says("server", k) =>
          (Fits(ServerTypes[k], Str(Text("server", k)))
             <=> TextOf(ServerTypes[k], Text("server", k)))
  BY TextFits
<1>13. result.ok <=>
          /\ \A k \in {"udp_port", "max_spa_packet_age"} :
                Gives("server", k) /\ ~ Overridden(k) => Text("server", k) \in DOMAIN Number
          /\ Gives("server", "verbose") /\ ~ Overridden("verbose")
                => Text("server", "verbose") \in DOMAIN ParseBool
  <2>1. result.ok <=> \A k \in DOMAIN ServerTypes :
           Gives("server", k) /\ ~ Overridden(k) => TextOf(ServerTypes[k], Text("server", k))
    BY <1>11, <1>12 DEF Gives, TextOf
  <2>2. ASSUME NEW k \in DOMAIN ServerTypes, Gives("server", k)
        PROVE  TextOf(ServerTypes[k], Text("server", k)) <=>
                 /\ k \in {"udp_port", "max_spa_packet_age"} => Text("server", k) \in DOMAIN Number
                 /\ k = "verbose" => Text("server", k) \in DOMAIN ParseBool
    <3>1. k \in Convertible \intersect DOMAIN ServerTypes /\ Text("server", k) # ""
      BY <1>8, <2>2 DEF Gives
    <3>2. /\ ServerTypes[k] \in {"str", "int", "bool"}
          /\ ServerTypes[k] = "int" <=> k \in {"udp_port", "max_spa_packet_age"}
          /\ ServerTypes[k] = "bool" <=> k = "verbose"
      BY <1>7, <3>1
    <3> QED
      BY <3>1, <3>2 DEF TextOf
  <2>3. ASSUME result.ok, NEW k \in {"udp_port", "max_spa_packet_age"},
               Gives("server", k), ~ Overridden(k)
        PROVE  Text("server", k) \in DOMAIN Number
    <3>1. k \in DOMAIN ServerTypes
      BY <1>7
    <3>2. TextOf(ServerTypes[k], Text("server", k))
      BY <2>1, <2>3, <3>1
    <3> QED
      BY <2>2, <2>3, <3>1, <3>2
  <2>4. ASSUME result.ok, Gives("server", "verbose"), ~ Overridden("verbose")
        PROVE  Text("server", "verbose") \in DOMAIN ParseBool
    BY <1>7, <2>1, <2>2, <2>4
  <2>5. ASSUME \A k \in {"udp_port", "max_spa_packet_age"} :
                  Gives("server", k) /\ ~ Overridden(k) => Text("server", k) \in DOMAIN Number,
               Gives("server", "verbose") /\ ~ Overridden("verbose")
                  => Text("server", "verbose") \in DOMAIN ParseBool
        PROVE  result.ok
    BY <2>1, <2>2, <2>5
  <2> QED
    BY <2>3, <2>4, <2>5
<1>14. ASSUME result.ok, NEW k \in Convertible \intersect DOMAIN ServerTypes,
              Says("server", k), ~ Overridden(k), Clear(ServerTypes[k], Text("server", k))
       PROVE  result.conf[k] = Meant(ServerTypes[k], Text("server", k))
  <2>1. result.conf[k] = Fill(ServerTypes[k], Str(Text("server", k)))
    BY <1>6, <1>8, <1>14
  <2>2. Fits(ServerTypes[k], Str(Text("server", k))) /\ ServerTypes[k] \in {"str", "int", "bool"}
    BY <1>7, <1>11, <1>14
  <2>3. TextOf(ServerTypes[k], Text("server", k))
    BY <2>2, TextFits
  <2> QED
    BY <1>14, <2>1, <2>2, <2>3, TextMeant
<1>15. ASSUME result.ok, backend # "none", ~ Overridden("action_template")
       PROVE  result.conf["action_template"] = backend
  <2>1. Fill("str", Str(backend)) = backend
    BY DEF Fill, Str
  <2>2. /\ "action_template" \in DOMAIN ServerTypes \intersect DOMAIN file
        /\ file["action_template"] = Str(backend)
    BY <1>7, <1>9, <1>15
  <2>3. ASSUME NEW k \in DOMAIN ServerTypes \intersect DOMAIN file, ~ Overridden(k)
        PROVE  result.conf[k] = Fill(ServerTypes[k], file[k])
    BY <1>6, <1>15, <2>3
  <2>4. result.conf["action_template"]
           = Fill(ServerTypes["action_template"], file["action_template"])
    BY <1>15, <2>2, <2>3
  <2> QED
    BY <1>7, <2>1, <2>2, <2>4
<1> QED
  BY <1>13, <1>14, <1>15

(* .fwknoprc *)

\* Fields of the client, by their types; a converted file sets only fields.
LEMMA ClientFields ==
    /\ \A k \in DOMAIN ClientTypes : ClientTypes[k] \in {"str", "int", "bool"}
    /\ Range(ClientKeys) \subseteq DOMAIN ClientTypes
    /\ "" \notin DOMAIN ClientTypes
<1>1. \A k \in DOMAIN ClientTypes : ClientTypes[k] \in {"str", "int", "bool"}
  BY DEF ClientTypes, ++
<1>2. ClientNew \union ClientKept \subseteq DOMAIN ClientTypes /\ "" \notin DOMAIN ClientTypes
  BY DEF ClientTypes, ++, ClientNew, ClientKept
<1> QED
  BY <1>1, <1>2, ClientTable

\* The texts without quotes that fit a field.
TextTaken(type, t) == t \in CASE type = "int" -> DOMAIN Number \union DOMAIN YamlTruth
                              [] type = "bool" -> DOMAIN Number \union DOMAIN ParseBool
                              [] OTHER -> {t}

\* A number or a Boolean of YAML fits every field.
LEMMA NumberFilled ==
    ASSUME NEW type \in {"str", "int", "bool"}, NEW n
    PROVE  /\ Fits(type, Num(n))
           /\ Fill(type, Num(n)) = IF type = "bool" THEN n # "0" ELSE n
<1>1. Num(n).type = "int" /\ Num(n).val = n
  BY DEF Num
<1> QED
  BY <1>1 DEF Fits, Fill

\* The same for a Boolean.
LEMMA BooleanFilled ==
    ASSUME NEW type \in {"str", "int", "bool"}, NEW b
    PROVE  /\ Fits(type, Bool(b))
           /\ Fill(type, Bool(b)) = IF type = "bool" THEN b ELSE AsBit(b)
<1>1. Bool(b).type = "bool" /\ Bool(b).val = b
  BY DEF Bool
<1> QED
  BY <1>1 DEF Fits, Fill

\* Without quotes a text fits if YAML or Go reads it as the number or the Boolean.
LEMMA PlainFits ==
    ASSUME NEW type \in {"str", "int", "bool"}, NEW t, t # ""
    PROVE  Fits(type, Plain(t)) <=> TextTaken(type, t)
<1>1. CASE t \in DOMAIN Number
  <2>1. Plain(t) = Num(Number[t])
    BY <1>1, SettingsAssumption DEF Plain
  <2> QED
    BY <1>1, <2>1, NumberFilled DEF TextTaken
<1>2. CASE t \in DOMAIN YamlTruth
  <2>1. Plain(t) = Bool(YamlTruth[t]) /\ t \in DOMAIN ParseBool
    BY <1>2, SettingsAssumption DEF Plain
  <2> QED
    BY <1>2, <2>1, BooleanFilled DEF TextTaken
<1>3. CASE t \notin DOMAIN Number \union DOMAIN YamlTruth
  <2>1. Plain(t) = Str(t)
    BY <1>3 DEF Plain
  <2>2. Fits(type, Plain(t)) <=> TextOf(type, t)
    BY <2>1, TextFits
  <2> QED
    BY <1>3, <2>2 DEF TextOf, TextTaken
<1> QED
  BY <1>1, <1>2, <1>3

\* What is clear is read as what it means without quotes too, but for its spelling.
LEMMA PlainMeant ==
    ASSUME NEW type \in {"str", "int", "bool"}, NEW t, t # "",
           TextTaken(type, t), Clear(type, t)
    PROVE  Fill(type, Plain(t)) = Meant(type, t) <=> ~ (type = "str" /\ Respelled(t))
<1>1. CASE type = "str"
  BY <1>1 DEF Meant, Respelled
<1>2. ASSUME type = "int" PROVE Fill(type, Plain(t)) = Meant(type, t)
  <2>1. t \in DOMAIN Number /\ Plain(t) = Num(Number[t])
    BY <1>2, SettingsAssumption DEF Clear, Plain
  <2> QED
    BY <1>2, <2>1, NumberFilled DEF Meant
<1>3. ASSUME type = "bool" PROVE Fill(type, Plain(t)) = Meant(type, t)
  <2>1. t \in Yes \union No /\ Meant(type, t) = (t \in Yes)
    BY <1>3 DEF Clear, Meant
  <2>2. CASE t \in DOMAIN Number
    <3>1. Plain(t) = Num(Number[t])
      BY <2>2, SettingsAssumption DEF Plain
    <3>2. Fill(type, Plain(t)) = (Number[t] # "0")
      BY <1>3, <3>1, NumberFilled
    <3> QED
      BY <2>1, <2>2, <3>2, WordAssumption
  <2>3. CASE t \in DOMAIN YamlTruth
    <3>1. /\ Plain(t) = Bool(YamlTruth[t]) /\ t \in DOMAIN ParseBool
          /\ YamlTruth[t] = ParseBool[t]
      BY <2>3, SettingsAssumption DEF Plain
    <3>2. Fill(type, Plain(t)) = ParseBool[t]
      BY <1>3, <3>1, BooleanFilled
    <3> QED
      BY <2>1, <3>1, <3>2, WordAssumption
  <2>4. CASE t \notin DOMAIN Number \union DOMAIN YamlTruth
    <3>1. Plain(t) = Str(t)
      BY <2>4 DEF Plain
    <3>2. TextOf(type, t)
      BY <1>3, <2>4 DEF TextTaken, TextOf
    <3> QED
      BY <3>1, <3>2, TextMeant
  <2> QED
    BY <2>2, <2>3, <2>4
<1> QED
  BY <1>1, <1>2, <1>3

\* What is said in an rc file is never empty.
LEMMA ClientText ==
    ASSUME kind = "client", lines \in Seq(ClientLine), NEW b, NEW k \in Range(ClientKeys),
           Says(b, k)
    PROVE  Text(b, k) # ""
<1>1. PICK n \in Nat : n = Len(lines)
  OBVIOUS
<1>2. Setters(b, k) \subseteq 1..n /\ Setters(b, k) # {}
  BY <1>1 DEF Setters, Says
<1>3. PICK i \in Setters(b, k) : i = Max(Setters(b, k))
  BY <1>1, <1>2, MaxOfLines
<1>4. lines[i] \in ClientLine
  BY <1>1, <1>2
<1>5. "[]" \notin DOMAIN ClientKeys /\ "" \notin Range(ClientKeys)
  BY ClientTable DEF ClientOld, ClientNew, ClientKept
<1>6. KeyAt(i) = MapClientKey(lines[i].key) /\ KeyAt(i) = k
  BY <1>3 DEF KeyAt, Setters
<1>7. lines[i].key # "[]"
  BY <1>5, <1>6 DEF MapClientKey, Lookup
<1> QED
  BY <1>3, <1>4, <1>7, ConversionAssumption DEF Text

\* What the client finds in the file: of the stanza asked for and the default one
\* that which decides on the key.
LEMMA ClientFile ==
    ASSUME ConversionInv, kind = "client",
           NEW rc, rc = [name \in DOMAIN sections |-> AsRead(sections[name])],
           NEW named, named = NamedConfig(call.flags), RCLoads(rc, named),
           NEW file, file = LoadRCYAML(rc, named),
           NEW k \in DOMAIN ClientTypes
    PROVE  /\ k \in DOMAIN file <=> Says(Deciding(k), k)
           /\ Says(Deciding(k), k) => file[k] = Plain(Text(Deciding(k), k))
<1>1. "default" \in DOMAIN sections /\ DOMAIN rc = DOMAIN sections
  BY DEF ConversionInv, SectionInv, BlocksKnown, Given
<1>2. ASSUME NEW b
      PROVE  /\ b \notin DOMAIN sections => ~ Says(b, k)
             /\ b \in DOMAIN sections => (k \in DOMAIN rc[b] <=> Says(b, k))
             /\ b \in DOMAIN sections /\ Says(b, k) => rc[b][k] = Plain(Text(b, k))
  <2>1. k # ""
    BY ClientFields
  <2>2. /\ b \notin DOMAIN sections => ~ Says(b, k)
        /\ b \in DOMAIN sections => (k \in DOMAIN sections[b] <=> Says(b, k))
        /\ b \in DOMAIN sections /\ Says(b, k) =>
              sections[b][k] = SettingOf(k, Text(b, k))
    BY <2>1, SectionRead
  <2>3. ASSUME b \in DOMAIN sections
        PROVE  /\ DOMAIN rc[b] = DOMAIN sections[b]
               /\ \A key \in DOMAIN rc[b] : rc[b][key] = Plain(sections[b][key].val)
    BY <2>3 DEF AsRead
  <2>4. SettingOf(k, Text(b, k)).val = Text(b, k)
    BY DEF SettingOf, Str
  <2> QED
    BY <2>2, <2>3, <2>4
<1>3. CASE named \in {"", "default"}
  <2>1. file = rc["default"]
    BY <1>1, <1>3 DEF LoadRCYAML
  <2>2. Deciding(k) = "default"
    BY <1>3 DEF Deciding
  <2> QED
    BY <1>1, <1>2, <2>1, <2>2
<1>4. CASE named \notin {"", "default"}
  <2>1. file = rc[named] ++ rc["default"] /\ named \in DOMAIN sections
    BY <1>1, <1>4 DEF LoadRCYAML, RCLoads
  <2>2. Deciding(k) = IF Says(named, k) THEN named ELSE "default"
    BY <1>4 DEF Deciding
  <2>3. /\ DOMAIN file = DOMAIN rc[named] \union DOMAIN rc["default"]
        /\ \A key \in DOMAIN file :
              file[key] = IF key \in DOMAIN rc[named] THEN rc[named][key] ELSE rc["default"][key]
    BY <2>1 DEF ++
  <2>4. /\ k \in DOMAIN rc[named] <=> Says(named, k)
        /\ k \in DOMAIN rc["default"] <=> Says("default", k)
        /\ Says(named, k) => rc[named][k] = Plain(Text(named, k))
        /\ Says("default", k) => rc["default"][k] = Plain(Text("default", k))
    BY <1>1, <1>2, <2>1
  <2>5. CASE Says(named, k)
    BY <2>2, <2>3, <2>4, <2>5
  <2>6. CASE ~ Says(named, k)
    BY <2>2, <2>3, <2>4, <2>6
  <2> QED
    BY <2>5, <2>6
<1> QED
  BY <1>3, <1>4

\* The flags of the client are a layer of values of the types of the fields.
LEMMA ClientLayers ==
    ASSUME call \in ClientCall
    PROVE  /\ \A k \in DOMAIN FlagLayer(call.flags) :
                IsA(ClientTypes, k, FlagLayer(call.flags)[k])
           /\ \A k \in DOMAIN call.env : FitsIn(ClientTypes, k, call.env[k])
           /\ \A k \in DOMAIN ClientDefaults : IsA(ClientTypes, k, ClientDefaults[k])
<1>1. ASSUME NEW k \in DOMAIN FlagLayer(call.flags)
      PROVE  IsA(ClientTypes, k, FlagLayer(call.flags)[k])
  <2>1. \E f \in DOMAIN call.flags : KeyOfFlag(f) = k
    BY <1>1 DEF FlagLayer
  <2>2. PICK f \in DOMAIN call.flags :
           KeyOfFlag(f) = k /\ FlagLayer(call.flags)[k] = call.flags[f]
    BY <1>1, <2>1 DEF FlagLayer
  <2> QED
    BY <2>2, CallAssumption
<1>2. \A k \in DOMAIN call.env : FitsIn(ClientTypes, k, call.env[k])
  BY CallAssumption
<1>3. \A k \in DOMAIN ClientDefaults : IsA(ClientTypes, k, ClientDefaults[k])
  BY ClientAssumption DEF IsA
<1> QED
  BY <1>1, <1>2, <1>3

\* The client takes a converted file if the stanza asked for is there and the
\* numbers and Booleans that count are such, and runs with what they mean.
LEMMA ClientLoads ==
    ASSUME ConversionInv, kind = "client", lines \in Seq(ClientLine), call \in ClientCall,
           NEW rc, rc = [name \in DOMAIN sections |-> AsRead(sections[name])],
           NEW result, result = LoadConfig(call.flags, call.env, call.file, rc), Asked
    PROVE  /\ result.ok <=> (FromFile =>
                /\ NamedConfig(call.flags) \in Blocks \union {"", "default"}
                /\ \A k \in Range(ClientKeys) : ~ Overridden(k) /\ Says(Deciding(k), k) =>
                      TextTaken(ClientTypes[k], Text(Deciding(k), k)))
           /\ result.ok => \A k \in Range(ClientKeys) :
                /\ k \in DOMAIN FlagLayer(call.flags)
                      => result.conf[k] = FlagLayer(call.flags)[k].val
                /\ k \notin DOMAIN FlagLayer(call.flags) /\ k \in DOMAIN call.env
                      => result.conf[k] = Fill(ClientTypes[k], call.env[k])
                /\ /\ ~ Overridden(k) /\ FromFile /\ Says(Deciding(k), k)
                   /\ Clear(ClientTypes[k], Text(Deciding(k), k))
                   => (result.conf[k] = Meant(ClientTypes[k], Text(Deciding(k), k))
                       <=> ~ (ClientTypes[k] = "str" /\ Respelled(Text(Deciding(k), k))))
<1>1. PICK flags : flags = FlagLayer(call.flags)
  OBVIOUS
<1>2. PICK named : named = NamedConfig(call.flags)
  OBVIOUS
<1>3. PICK file : file = IF FromFile THEN LoadRCYAML(rc, named) ELSE <<>>
  OBVIOUS
<1>4. result = IF FromFile /\ ~ RCLoads(rc, named) THEN Refused
               ELSE Unmarshal(ClientTypes, flags ++ (call.env ++ (file ++ ClientDefaults)))
  BY <1>1, <1>2, <1>3 DEF LoadConfig, Asked, FromFile
<1>5. \A k : Overridden(k) <=> k \in DOMAIN flags \union DOMAIN call.env
  BY <1>1 DEF Overridden
<1>6. RCLoads(rc, named) <=> named \in Blocks \union {"", "default"}
  <2>1. DOMAIN rc = Blocks \union {"default"}
    BY DEF ConversionInv, SectionInv, BlocksKnown, Given
  <2> QED
    BY <2>1 DEF RCLoads
<1>7. CASE FromFile /\ ~ RCLoads(rc, named)
  <2>1. ~ result.ok
    BY <1>4, <1>7 DEF Refused
  <2> QED
    BY <1>2, <1>6, <1>7, <2>1
<1>8. ASSUME ~ (FromFile /\ ~ RCLoads(rc, named))
      PROVE  /\ result.ok <=>
                  \A k \in DOMAIN ClientTypes \intersect DOMAIN file :
                     ~ Overridden(k) => Fits(ClientTypes[k], file[k])
             /\ result.ok => \A k \in DOMAIN ClientTypes :
                  /\ k \in DOMAIN flags => result.conf[k] = flags[k].val
                  /\ k \notin DOMAIN flags /\ k \in DOMAIN call.env =>
                        result.conf[k] = Fill(ClientTypes[k], call.env[k])
                  /\ ~ Overridden(k) /\ k \in DOMAIN file =>
                        result.conf[k] = Fill(ClientTypes[k], file[k])
  <2>1. result = Unmarshal(ClientTypes, flags ++ (call.env ++ (file ++ ClientDefaults)))
    BY <1>4, <1>8
  <2>2. /\ \A k \in DOMAIN flags : IsA(ClientTypes, k, flags[k])
        /\ \A k \in DOMAIN call.env : FitsIn(ClientTypes, k, call.env[k])
        /\ \A k \in DOMAIN ClientDefaults : IsA(ClientTypes, k, ClientDefaults[k])
    BY <1>1, ClientLayers
  <2> QED
    BY <1>5, <2>1, <2>2, LayerDecides
<1>9. CASE ~ FromFile
  <2>1. DOMAIN file = {}
    BY <1>3, <1>9, NoKeys
  <2> QED
    BY <1>1, <1>8, <1>9, <2>1, ClientFields
<1>10. CASE FromFile /\ RCLoads(rc, named)
  <2>1. ASSUME NEW k \in DOMAIN ClientTypes
        PROVE  /\ k \in DOMAIN file <=> Says(Deciding(k), k)
               /\ Says(Deciding(k), k) => file[k] = Plain(Text(Deciding(k), k))
    BY <1>2, <1>3, <1>10, <2>1, ClientFile
  <2>2. ASSUME NEW k \in DOMAIN ClientTypes, Says(Deciding(k), k)
        PROVE  k \in Range(ClientKeys) /\ Text(Deciding(k), k) # ""
    <3>1. k \in Range(ClientKeys)
      BY <2>2, ClientFields, SaysConverted DEF Convertible
    <3> QED
      BY <2>2, <3>1, ClientText
  <2>3. ASSUME NEW k \in DOMAIN ClientTypes, Says(Deciding(k), k)
        PROVE  Fits(ClientTypes[k], file[k]) <=> TextTaken(ClientTypes[k], Text(Deciding(k), k))
    <3>1. ClientTypes[k] \in {"str", "int", "bool"}
      BY ClientFields
    <3> QED
      BY <2>1, <2>2, <2>3, <3>1, PlainFits
  <2>4. result.ok <=> \A k \in Range(ClientKeys) : ~ Overridden(k) /\ Says(Deciding(k), k) =>
           TextTaken(ClientTypes[k], Text(Deciding(k), k))
    BY <1>8, <1>10, <2>1, <2>2, <2>3, ClientFields
  <2>5. ASSUME result.ok, NEW k \in Range(ClientKeys), ~ Overridden(k),
               Says(Deciding(k), k), Clear(ClientTypes[k], Text(Deciding(k), k))
        PROVE  result.conf[k] = Meant(ClientTypes[k], Text(Deciding(k), k))
               <=> ~ (ClientTypes[k] = "str" /\ Respelled(Text(Deciding(k), k)))
    <3>1. k \in DOMAIN ClientTypes /\ ClientTypes[k] \in {"str", "int", "bool"}
      BY ClientFields
    <3>2. result.conf[k] = Fill(ClientTypes[k], Plain(Text(Deciding(k), k)))
      BY <1>8, <1>10, <2>1, <2>5, <3>1
    <3>3. TextTaken(ClientTypes[k], Text(Deciding(k), k)) /\ Text(Deciding(k), k) # ""
      BY <2>2, <2>4, <2>5, <3>1
    <3> QED
      BY <2>5, <3>1, <3>2, <3>3, PlainMeant
  <2>6. named \in Blocks \union {"", "default"}
    BY <1>6, <1>10
  <2> QED
    BY <1>1, <1>2, <1>8, <1>10, <2>4, <2>5, <2>6, ClientFields
<1> QED
  BY <1>7, <1>9, <1>10
-----------------------------------------------------------------------------
(* What a program that was started has read *)

\* A program that was started made what it is of the sections.
LEMMA ProgramRead ==
    ASSUME LoadInv, program # "none"
    PROVE  /\ ConversionInv /\ kind \in {"access", "client", "server"}
           /\ kind = "access" => Outcome(LoadAccessConfig(sections))
           /\ kind = "client" =>
                /\ call \in ClientCall /\ lines \in Seq(ClientLine)
                /\ Outcome(LoadConfig(call.flags, call.env, call.file,
                                      [name \in DOMAIN sections |-> AsRead(sections[name])]))
           /\ kind = "server" => /\ call \in ServerCall
                                 /\ Outcome(LoadServer(call, Template ++ sections["server"]))
<1>1. kind \in {"access", "client", "server"}
  BY TheLines DEF LoadInv, ConversionInv
<1>2. yaml = Output
  BY DEF LoadInv
<1> QED
  BY <1>1, <1>2 DEF LoadInv, Output

\* Whatever lines a legacy file has and however the program is called, the program
\* takes what was printed exactly if ConvertedLoads says so.
THEOREM ConvertedAlwaysLoads == Spec => []ConvertedLoads
<1>1. LoadInv => ConvertedLoads
  <2> SUFFICES ASSUME LoadInv, program # "none" PROVE ConvertedLoads
    BY DEF ConvertedLoads
  <2>1. CASE kind = "access"
    <3>1. PICK result : result = LoadAccessConfig(sections)
      OBVIOUS
    <3>2. ConversionInv /\ program = IF result.ok THEN "runs" ELSE "refuses"
      BY <2>1, <3>1, ProgramRead DEF Outcome
    <3>3. program = "runs" <=>
             \A b \in Blocks :
                /\ Gives(b, "source")
                /\ Gives(b, "key") \/ Gives(b, "key_base64")
                /\ ~ Says(b, "access_timeout") /\ ~ Says(b, "max_access_timeout")
      BY <2>1, <3>1, <3>2, AccessLoads
    <3> QED
      BY <2>1, <3>3 DEF ConvertedLoads
  <2>2. CASE kind = "client"
    <3>1. PICK rc : rc = [name \in DOMAIN sections |-> AsRead(sections[name])]
      OBVIOUS
    <3>2. PICK result : result = LoadConfig(call.flags, call.env, call.file, rc)
      OBVIOUS
    <3>3. /\ ConversionInv /\ call \in ClientCall /\ lines \in Seq(ClientLine)
          /\ program = IF result.ok THEN "runs" ELSE "refuses"
      BY <2>2, <3>1, <3>2, ProgramRead DEF Outcome
    <3>4. ~ Asked => result.ok
      BY <3>2 DEF LoadConfig, Asked, Accepted
    <3>5. program = "runs" <=> (Asked /\ FromFile =>
             /\ NamedConfig(call.flags) \in Blocks \union {"", "default"}
             /\ \A k \in Range(ClientKeys) : ~ Overridden(k) /\ Says(Deciding(k), k) =>
                   TextTaken(ClientTypes[k], Text(Deciding(k), k)))
      <4>1. CASE Asked
        BY <2>2, <3>1, <3>2, <3>3, <4>1, ClientLoads
      <4>2. CASE ~ Asked
        BY <3>3, <3>4, <4>2
      <4> QED
        BY <4>1, <4>2
    <3> QED
      BY <2>2, <3>5 DEF ConvertedLoads, TextTaken
  <2>3. CASE kind = "server"
    <3>1. PICK result : result = LoadServer(call, Template ++ sections["server"])
      OBVIOUS
    <3>2. /\ ConversionInv /\ call \in ServerCall
          /\ program = IF result.ok THEN "runs" ELSE "refuses"
      BY <2>3, <3>1, ProgramRead DEF Outcome
    <3>3. program = "runs" <=>
             /\ \A k \in {"udp_port", "max_spa_packet_age"} :
                   Gives("server", k) /\ ~ Overridden(k)
                      => Text("server", k) \in DOMAIN Number
             /\ Gives("server", "verbose") /\ ~ Overridden("verbose")
                   => Text("server", "verbose") \in DOMAIN ParseBool
      BY <2>3, <3>1, <3>2, ServerLoads
    <3> QED
      BY <2>3, <3>3 DEF ConvertedLoads
  <2> QED
    BY <2>1, <2>2, <2>3, ProgramRead
<1> QED
  BY <1>1, LoadInvariant, PTL

\* A program that runs has the settings of the legacy file, where no flag and no
\* variable says otherwise; only the spelling of a text of the client may change.
THEOREM SettingsAlwaysSurvive == Spec => []SettingsSurvive
<1>1. LoadInv => SettingsSurvive
  <2> SUFFICES ASSUME LoadInv, program = "runs" PROVE SettingsSurvive
    BY DEF SettingsSurvive
  <2>1. CASE kind = "access"
    <3>1. PICK result : result = LoadAccessConfig(sections)
      OBVIOUS
    <3>2. ConversionInv /\ result.ok /\ conf = result.conf
      BY <2>1, <3>1, ProgramRead DEF Outcome
    <3>3. \A b \in Blocks : \A k \in DOMAIN AccessTypes : Says(b, k) =>
             conf[b][k] = Meant(AccessTypes[k], Text(b, k))
      BY <2>1, <3>1, <3>2, AccessLoads
    <3> QED
      BY <2>1, <3>3 DEF SettingsSurvive
  <2>2. CASE kind = "client" /\ Asked
    <3>1. PICK rc : rc = [name \in DOMAIN sections |-> AsRead(sections[name])]
      OBVIOUS
    <3>2. PICK result : result = LoadConfig(call.flags, call.env, call.file, rc)
      OBVIOUS
    <3>3. /\ ConversionInv /\ call \in ClientCall /\ lines \in Seq(ClientLine)
          /\ result.ok /\ conf = result.conf
      BY <2>2, <3>1, <3>2, ProgramRead DEF Outcome
    <3>4. ASSUME NEW k \in Range(ClientKeys)
          PROVE  /\ k \in DOMAIN FlagLayer(call.flags)
                       => conf[k] = FlagLayer(call.flags)[k].val
                 /\ k \notin DOMAIN FlagLayer(call.flags) /\ k \in DOMAIN call.env
                       => conf[k] = Fill(ClientTypes[k], call.env[k])
                 /\ /\ ~ Overridden(k) /\ FromFile /\ Says(Deciding(k), k)
                    /\ Clear(ClientTypes[k], Text(Deciding(k), k))
                    => (conf[k] = Meant(ClientTypes[k], Text(Deciding(k), k))
                        <=> ~ (ClientTypes[k] = "str" /\ Respelled(Text(Deciding(k), k))))
      BY <2>2, <3>1, <3>2, <3>3, <3>4, ClientLoads
    <3>5. \A k : Overridden(k) <=> k \in DOMAIN FlagLayer(call.flags) \/ k \in DOMAIN call.env
      BY <2>2 DEF Overridden
    <3>6. \A k \in Range(ClientKeys) :
             IF k \in DOMAIN FlagLayer(call.flags) THEN conf[k] = FlagLayer(call.flags)[k].val
             ELSE IF k \in DOMAIN call.env THEN conf[k] = Fill(ClientTypes[k], call.env[k])
             ELSE FromFile /\ Says(Deciding(k), k) /\ Clear(ClientTypes[k], Text(Deciding(k), k)) =>
                  (conf[k] = Meant(ClientTypes[k], Text(Deciding(k), k))
                   <=> ~ (ClientTypes[k] = "str" /\ Respelled(Text(Deciding(k), k))))
      BY <3>4, <3>5
    <3> QED
      BY <2>2, <3>6 DEF SettingsSurvive
  <2>3. CASE kind = "client" /\ ~ Asked
    BY <2>3 DEF SettingsSurvive
  <2>4. CASE kind = "server"
    <3>1. PICK result : result = LoadServer(call, Template ++ sections["server"])
      OBVIOUS
    <3>2. /\ ConversionInv /\ call \in ServerCall
          /\ result.ok /\ conf = result.conf
      BY <2>4, <3>1, ProgramRead DEF Outcome
    <3>3. /\ \A k \in Convertible \intersect DOMAIN ServerTypes :
                Says("server", k) /\ ~ Overridden(k) /\ Clear(ServerTypes[k], Text("server", k))
                   => conf[k] = Meant(ServerTypes[k], Text("server", k))
          /\ backend # "none" /\ ~ Overridden("action_template")
                => conf["action_template"] = backend
      BY <2>4, <3>1, <3>2, ServerLoads
    <3> QED
      BY <2>4, <3>3 DEF SettingsSurvive
  <2> QED
    BY <2>1, <2>2, <2>3, <2>4, ProgramRead
<1> QED
  BY <1>1, LoadInvariant, PTL
=============================================================================
