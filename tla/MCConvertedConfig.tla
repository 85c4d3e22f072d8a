------------------------- MODULE MCConvertedConfig -------------------------
(* An instance of ConvertedConfig for TLC. *)
EXTENDS ConvertedConfig, TLC

\* 0755 is an octal number to YAML and to Go.
MCNumber == ("0" :> "0") @@ ("1" :> "1") @@ ("2" :> "2") @@ ("60" :> "60")
            @@ ("0755" :> "493") @@ ("493" :> "493") @@ ("62201" :> "62201")
MCYamlTruth == ("true" :> TRUE) @@ ("false" :> FALSE)
MCParseBool == MCYamlTruth @@ ("1" :> TRUE) @@ ("0" :> FALSE)

L(key, text) == [key |-> key, text |-> text]

MCAccessLine ==
    {L("%include", "keys.conf"), L("source", "ANY"), L("source", "10.0.0.0/8"),
     L("key", "0755"), L("key_base64", "dGVzdA=="), L("fw_access_timeout", "60"),
     L("require_source", "Y"), L("require_source_address", "N"),
     L("open_ports", "tcp/22, tcp/443"), L("access_expire", "2025-12-31"),
     L("key", ""), L("gpg_home_dir", "/root/.gnupg")}
MCPortLists == "tcp/22, tcp/443" :> <<"tcp/22", "tcp/443">>

MCClientLine ==
    {L("[]", "default"), L("[]", "prod"), L("spa_server", "host"), L("key", "0755"),
     L("key", "secret"), L("hmac_key", "true"), L("hmac_key_base64", "1"),
     L("use_hmac", "Y"), L("use_hmac", "0"), L("fw_timeout", "60"),
     L("fw_timeout", "60s"), L("fw_timeout", "true"), L("[]", ""), L("spa_server_proto", "udp"), L("resolve_ip_https", "1")}

MCServerLine ==
    {L("ipt_input_access", "ACCEPT"), L("enable_ipt_comment_check", "Y"),
     L("firewd_input_access", "ACCEPT"), L("ipfw_start_rule_num", "1"),
     L("pf_anchor_name", "fwknop"), L("nfq_interface", "lo"), L("udpserv_port", "62201"),
     L("udpserv_port", "spa"), L("max_spa_packet_age", "60"), L("max_spa_packet_age", ""), L("verbose", "2"), L("verbose", "1"),
     L("enable_spa_packet_aging", "Y"), L("fwknop_pid_file", "pid"), L("pid_file", "other"),
     L("pcap_intf", "eth0"), L("locale", "C")}

MCPrefix == [ipt_input_access |-> "ipt_", enable_ipt_comment_check |-> "enable_ipt_",
             firewd_input_access |-> "firewd_", ipfw_start_rule_num |-> "ipfw_",
             pf_anchor_name |-> "pf_", nfq_interface |-> "nfq_"]

MCClientDefaults ==
    [k \in {"destination", "key", "key_hmac", "hmac_key_base64", "named_config"} |-> Str("")] @@
    [k \in {"nat_local", "resolve_ip", "no_rc_file", "version", "key_gen"} |-> Bool(FALSE)] @@
    ("use_hmac" :> Bool(TRUE)) @@ ("fw_timeout" :> Num("0")) @@ ("server_port" :> Num("62201"))

Call(flags, env, file) == [flags |-> flags, env |-> env, file |-> file]
MCClientCall ==
    {Call(<<>>, <<>>, TRUE),
     Call("named_config" :> Str("prod"), <<>>, TRUE),
     Call(("named_config" :> Str("prod")) @@ ("key_base64_hmac" :> Str("flag")),
          ("key" :> Str("0755")) @@ ("use_hmac" :> Str("1")) @@ ("hmac_key_base64" :> Str("var")), TRUE),
     Call(("named_config" :> Str("prod")) @@ ("fw_timeout" :> Num("2")), "fw_timeout" :> Str("1"), FALSE),
     Call("no_rc_file" :> Bool(TRUE), <<>>, TRUE),
     Call("key_gen" :> Bool(TRUE), <<>>, TRUE)}

MCServerDefaults ==
    [k \in {"pid_file", "log_file", "run_dir"} |-> Str("default")] @@
    ("udp_port" :> Num("62201")) @@ ("max_spa_packet_age" :> Num("60"))
MCServerFlagDefaults ==
    [k \in {"foreground", "version", "status", "kill", "restart", "dump_config",
            "verbose"} |-> Bool(FALSE)]
MCServerCall ==
    {Call(<<>>, <<>>, TRUE),
     Call("verbose" :> Bool(TRUE), "udp_port" :> Str("1"), TRUE),
     Call("pid_file" :> Str("flag"), ("pid_file" :> Str("var")) @@ ("verbose" :> Str("0")), TRUE)}
=============================================================================
