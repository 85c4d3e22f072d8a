-------------------------- MODULE LegacyConversion --------------------------
(***************************************************************************)
(* fwknop-convert: parseAccessConfig, parseClientStanzas and               *)
(* parseServerConfig of cmd/fwknop-convert, line by line, and what is      *)
(* printed in the end.  A line is a record of its key and the text of its  *)
(* value, without trailing semicolons.  Keys are compared in upper case;   *)
(* here they are written in lower case.  Comments, empty lines and lines   *)
(* of one word change nothing and are left out.                            *)
(***************************************************************************)
EXTENDS Settings, Integers, Sequences, FiniteSets

CONSTANTS
    AccessLine, ClientLine, ServerLine, \* lines of the three kinds of file
    PortLists,                          \* lists of ports by their text
    Prefix,                             \* the prefix of the keys that have one
    Kinds,                              \* values of --type
    MaxLines                            \* bound on the length of a file

\* The words parseBool takes for true (Y/YES/1/TRUE in any case, each here in one
\* spelling), and those a legacy file has for false.
Yes == {"Y", "yes", "1", "true"}
No == {"N", "no", "0", "false"}

\* Whoever reads one of these words as a Boolean or a number reads it as that.
ASSUME WordAssumption ==
    /\ \A t \in (Yes \union No) \intersect DOMAIN ParseBool : ParseBool[t] = (t \in Yes)
    /\ \A t \in (Yes \union No) \intersect DOMAIN Number : (Number[t] # "0") = (t \in Yes)

\* A key of .fwknoprc always has a value, and a line of another form sets nothing.
ASSUME ConversionAssumption ==
    /\ MaxLines \in Nat
    /\ Kinds \subseteq {"access", "client", "server"}
    /\ \A l \in ClientLine : l.key # "[]" => l.text # ""

VARIABLES
    kind,      \* the --type of this conversion
    lines,     \* history: the lines read
    sections,  \* what they set: stanzas of access.conf in order, stanzas of
               \* .fwknoprc by name, or the one section of fwknopd.conf
    stanza,    \* the stanza of .fwknoprc that is open (currentStanza)
    backend,   \* the firewall the keys are about (fwBackend)
    warned,    \* the lines a warning has been printed about
    phase,     \* "reading", or how it ended: "printed", "error"
    yaml       \* what has been printed

convVars == <<kind, lines, sections, stanza, backend, warned, phase, yaml>>
-----------------------------------------------------------------------------
(* Keys and values *)

\* The key a table gives for a legacy key, or none.
Lookup(table, key) == IF key \in DOMAIN table THEN table[key] ELSE ""
SameNames(keys) == [k \in keys |-> k]

\* classifyAccessKey.
AccessBools == {"require_source_address", "enable_cmd_exec", "enable_cmd_sudo_exec",
    "force_nat", "force_snat", "force_masquerade", "disable_dnat", "forward_all"}
AccessLists == {"open_ports", "restrict_ports"}
AccessRenamed ==
    [fw_access_timeout |-> "access_timeout", max_fw_timeout |-> "max_access_timeout",
     require_source |-> "require_source_address"]
AccessKept == AccessBools \union AccessLists \union
        {"destination", "key", "key_base64", "hmac_key", "hmac_key_base64",
         "hmac_digest_type", "encryption_mode", "require_username", "cmd_exec_user",
         "cmd_exec_group", "cmd_sudo_exec_user", "cmd_sudo_exec_group", "access_expire",
         "access_expire_epoch", "cmd_cycle_open", "cmd_cycle_close", "cmd_cycle_timer"}
AccessKeys == AccessRenamed ++ SameNames(AccessKept)
AccessKey(key) == Lookup(AccessKeys, key)

\* mapClientKey.
ClientRenamed ==
    [spa_server |-> "destination", spa_server_port |-> "server_port",
     hmac_key |-> "key_hmac", resolve_ip_https |-> "resolve_ip",
     resolve_ip_http |-> "resolve_ip"]
ClientKept == {"access", "allow_ip", "digest_type", "hmac_digest_type", "encryption_mode",
         "key", "key_base64", "hmac_key_base64", "use_hmac", "fw_timeout", "spoof_user",
         "nat_access", "nat_local", "nat_port", "resolve_url", "verbose"}
ClientKeys == ClientRenamed ++ SameNames(ClientKept)
MapClientKey(key) == Lookup(ClientKeys, key)

\* classifyServerKey; the keys it drops without a warning (two more that it names
\* are taken as keys of a firewall before).
ServerBools == {"enable_spa_packet_aging", "enable_digest_persistence"}
ServerRenamed ==
    [udpserv_port |-> "udp_port", fwknop_run_dir |-> "run_dir",
     fwknop_pid_file |-> "pid_file"]
ServerKept == ServerBools \union {"verbose", "max_spa_packet_age", "syslog_identity",
                                  "syslog_facility", "access_file"}
ServerKeys == ServerRenamed ++ SameNames(ServerKept)
ServerKey(key) == Lookup(ServerKeys, key)
ServerIgnored == {"pcap_intf", "pcap_filter", "pcap_dispatch_count", "pcap_loop_sleep",
    "max_sniff_bytes", "enable_pcap_promisc", "enable_pcap_any_direction",
    "exit_at_intf_down", "enable_udp_server", "udpserv_select_timeout", "fwknop_conf_dir",
    "access_folder", "digest_file", "digest_db_file", "rules_check_threshold",
    "cmd_exec_timeout", "enable_rule_prepend", "enable_destination_rule", "enable_nat_dns",
    "firewall_exe", "snat_translate_ip"}

\* The keys of a firewall, and those of the queue capture, are told by prefix.
FirewallOf(key) ==
    LET prefix == Lookup(Prefix, key)
    IN  CASE prefix \in {"ipt_", "enable_ipt_", "flush_ipt_"} -> "iptables"
          [] prefix \in {"firewd_", "enable_firewd_", "flush_firewd_"} -> "firewalld"
          [] prefix \in {"ipfw_", "flush_ipfw_"} -> "ipfw"
          [] prefix = "pf_" -> "pf"
          [] prefix \in {"nfq_", "enable_nfq_"} -> "nfq"
          [] OTHER -> "none"

\* No key that is converted starts with one of these.
ASSUME PrefixAssumption == \A key \in DOMAIN ServerKeys : FirewallOf(key) = "none"

\* parseBool.
ToBool(text) == text \in Yes

\* parsePortList.
PortList(text) == PortLists[text]

AccessValue(key, text) ==
    CASE key \in AccessBools -> Bool(ToBool(text))
      [] key \in AccessLists -> List(PortList(text))
      [] OTHER -> Str(text)

ServerValue(key, text) == IF key \in ServerBools THEN Bool(ToBool(text)) ELSE Str(text)

\* A fault: the last key of any firewall decides.
LastBackend(firewall) == firewall

\* A key that names a later firewall than the ones seen so far, in the order
\* iptables, firewalld, ipfw or pf, changes the firewall.
NextBackend(firewall) ==
    CASE firewall = "iptables" -> IF backend = "none" THEN firewall ELSE backend
      [] firewall = "firewalld" -> IF backend \in {"none", "iptables"} THEN firewall ELSE backend
      [] OTHER -> firewall
-----------------------------------------------------------------------------
(* Reading *)

Init ==
    /\ kind \in Kinds
    /\ lines = <<>>
    /\ sections = CASE kind = "access" -> <<>>
                    [] kind = "client" -> [default |-> <<>>]
                    [] kind = "server" -> [server |-> <<>>]
    /\ stanza = "default"
    /\ backend = "none"
    /\ warned = {}
    /\ phase = "reading"
    /\ yaml = <<>>

\* The next line of the file.
Line(k, l) ==
    /\ kind = k
    /\ phase = "reading"
    /\ Len(lines) < MaxLines
    /\ lines' = Append(lines, l)
    /\ UNCHANGED <<kind, phase, yaml>>

Warn == warned' = warned \union {Len(lines) + 1}

\* The sections with one more setting in one of them, which may be new.
SettingIn(name, key, value) ==
    LET section == IF name \in DOMAIN sections THEN sections[name] ELSE <<>>
    IN  Only(name, Only(key, value) ++ section) ++ sections

(* access.conf *)

\* %include and its like are not followed.
IncludeLine(l) ==
    /\ l.key = "%include"
    /\ Line("access", l)
    /\ Warn
    /\ UNCHANGED <<sections, stanza, backend>>

\* SOURCE opens the next stanza.
SourceLine(l) ==
    /\ l.key = "source"
    /\ Line("access", l)
    /\ sections' = Append(sections, [source |-> Str(l.text)])
    /\ UNCHANGED <<stanza, backend, warned>>

\* Any other key belongs to the stanza that is open; the first line opens one
\* without a source, even if its key is not converted.
AccessKeyLine(l) ==
    LET key == AccessKey(l.key)
        at == IF sections = <<>> THEN 1 ELSE Len(sections)
    IN  /\ l.key \notin {"%include", "source"}
        /\ Line("access", l)
        /\ \/ /\ key # ""
              /\ sections' = SettingIn(at, key, AccessValue(key, l.text))
              /\ UNCHANGED warned
           \/ /\ key = ""
              /\ sections' = IF sections = <<>> THEN << <<>> >> ELSE sections
              /\ Warn
        /\ UNCHANGED <<stanza, backend>>

(* .fwknoprc *)

\* A fault: a header starts its stanza afresh.
HeaderStartsAfresh(l) ==
    /\ l.key = "[]"
    /\ Line("client", l)
    /\ stanza' = l.text
    /\ sections' = Only(l.text, <<>>) ++ sections
    /\ UNCHANGED <<backend, warned>>

\* A fault: a header only notes the name, and the first key makes the stanza.
HeaderOnlyNames(l) ==
    /\ l.key = "[]"
    /\ Line("client", l)
    /\ stanza' = l.text
    /\ UNCHANGED <<sections, backend, warned>>

\* A header opens its stanza, again if there is one of that name.
StanzaHeader(l) ==
    /\ l.key = "[]"
    /\ Line("client", l)
    /\ stanza' = l.text
    /\ sections' = sections ++ Only(l.text, <<>>)
    /\ UNCHANGED <<backend, warned>>

ClientKeyLine(l) ==
    LET key == MapClientKey(l.key)
    IN  /\ l.key # "[]"
        /\ Line("client", l)
        /\ \/ /\ key # ""
              /\ sections' = SettingIn(stanza, key, Str(l.text))
              /\ UNCHANGED warned
           \/ /\ key = ""
              /\ Warn
              /\ UNCHANGED sections
        /\ UNCHANGED <<stanza, backend>>

(* fwknopd.conf *)

\* A key of a firewall tells which one is in use, and sets nothing; keys of the
\* queue capture are warned about.
FirewallKeyLine(l) ==
    LET firewall == FirewallOf(l.key)
    IN  /\ firewall # "none"
        /\ Line("server", l)
        /\ \/ /\ firewall # "nfq"
              /\ backend' = NextBackend(firewall)
              /\ UNCHANGED warned
           \/ /\ firewall = "nfq"
              /\ Warn
              /\ UNCHANGED backend
        /\ UNCHANGED <<sections, stanza>>

ServerKeyLine(l) ==
    LET key == ServerKey(l.key)
    IN  /\ FirewallOf(l.key) = "none"
        /\ Line("server", l)
        /\ \/ /\ key # ""
              /\ sections' = SettingIn("server", key, ServerValue(key, l.text))
              /\ UNCHANGED warned
           \/ /\ key = ""
              /\ warned' = IF l.key \in ServerIgnored THEN warned
                                                      ELSE warned \union {Len(lines) + 1}
              /\ UNCHANGED sections
        /\ UNCHANGED <<stanza, backend>>
-----------------------------------------------------------------------------
(* Printing *)

\* mapToYAMLNode writes the texts of the client without quotes, so that they
\* are read as what they look like.
AsRead(section) == [k \in DOMAIN section |-> Plain(section[k].val)]

\* The firewall found names the template of fwknopd.
Template == IF backend = "none" THEN <<>> ELSE [action_template |-> Str(backend)]

\* The end of the file: an access.conf without stanzas is an error, of any
\* other the YAML is printed, here as a reader will find it.
Emit ==
    /\ phase = "reading"
    /\ \/ /\ kind = "access" /\ sections = <<>>
          /\ phase' = "error"
          /\ UNCHANGED yaml
       \/ /\ kind # "access" \/ sections # <<>>
          /\ phase' = "printed"
          /\ yaml' = CASE kind = "access" -> sections
                       [] kind = "client" -> [name \in DOMAIN sections |-> AsRead(sections[name])]
                       [] kind = "server" -> Template ++ sections["server"]
    /\ UNCHANGED <<kind, lines, sections, stanza, backend, warned>>

Convert ==
    \/ \E l \in AccessLine : IncludeLine(l) \/ SourceLine(l) \/ AccessKeyLine(l)
    \/ \E l \in ClientLine : StanzaHeader(l) \/ ClientKeyLine(l)
    \/ \E l \in ServerLine : FirewallKeyLine(l) \/ ServerKeyLine(l)
    \/ Emit
=============================================================================
