---------------------------- MODULE ClientConfig ----------------------------
(***************************************************************************)
(* How the client puts its settings together: loadConfig of                *)
(* cmd/fwknop/config.go and loadRCFile of rcfile.go.  A layer is a         *)
(* function from the keys it sets to typed values (module Settings).       *)
(***************************************************************************)
EXTENDS Settings

CONSTANT ClientDefaults  \* what the flags hold when they are not given

\* The fields of clientConfig.
ClientTypes ==
    [k \in {"server_port", "fw_timeout", "nat_port", "verbose"} |-> "int"] ++
    [k \in {"source_ip", "nat_local", "use_hmac", "resolve_ip", "no_rc_file", "test",
            "key_gen", "save_rc_stanza", "stanza_list", "version"} |-> "bool"] ++
    [k \in {"destination", "allow_ip", "access", "server_cmd", "spoof_user", "nat_access",
            "digest_type", "hmac_digest_type", "encryption_mode", "key", "key_base64",
            "key_hmac", "hmac_key_base64", "resolve_url", "time_offset_plus",
            "time_offset_minus", "named_config", "rc_file"} |-> "str"]

ASSUME ClientAssumption ==
    \A k \in DOMAIN ClientDefaults : ClientDefaults[k].type = ClientTypes[k]

\* A flag sets the key of its name, but for one (flagKeyAliases).
KeyOfFlag(flag) == IF flag = "key_base64_hmac" THEN "hmac_key_base64" ELSE flag
FlagLayer(flags) ==
    [k \in {KeyOfFlag(f) : f \in DOMAIN flags} |->
        flags[CHOOSE f \in DOMAIN flags : KeyOfFlag(f) = k]]

\* Whether a flag for a mode or the rc file is given; only the flags are asked.
IsOn(flags, flag) == flag \in DOMAIN flags /\ flags[flag].val
NamedConfig(flags) == IF "named_config" \in DOMAIN flags THEN flags["named_config"].val
                                                         ELSE ""

\* loadRCYAML: a stanza that is named must be there, ...
RCLoads(stanzas, named) == named \in {"", "default"} \/ named \in DOMAIN stanzas

\* A fault: the default stanza is loaded last.
DefaultLast(stanzas, named) ==
    LET default == IF "default" \in DOMAIN stanzas THEN stanzas["default"] ELSE <<>>
    IN  IF named \in {"", "default"} THEN default ELSE default ++ stanzas[named]

\* ... and overlays the default stanza.
LoadRCYAML(stanzas, named) ==
    LET default == IF "default" \in DOMAIN stanzas THEN stanzas["default"] ELSE <<>>
    IN  IF named \in {"", "default"} THEN default ELSE stanzas[named] ++ default

\* A fault: an rc file that does not load is only warned about.
OnlyWarned(flags, env, found, rc) ==
    LET named == NamedConfig(flags)
        file == IF found /\ ~ IsOn(flags, "no_rc_file") /\ RCLoads(rc, named)
                THEN LoadRCYAML(rc, named) ELSE <<>>
    IN  Unmarshal(ClientTypes, FlagLayer(flags) ++ (env ++ (file ++ ClientDefaults)))

\* loadConfig: an rc file that is not found is passed over, even when a stanza of
\* it is named; one that does not load ends the client.
LoadConfig(flags, env, found, rc) ==
    LET reads == found /\ ~ IsOn(flags, "no_rc_file")
        named == NamedConfig(flags)
        file == IF reads THEN LoadRCYAML(rc, named) ELSE <<>>
    IN  IF IsOn(flags, "version") \/ IsOn(flags, "key_gen")
        THEN Accepted([k \in DOMAIN ClientTypes |->
                 IF k \in {"version", "key_gen"} THEN IsOn(flags, k) ELSE Zero(ClientTypes[k])])
        ELSE IF reads /\ ~ RCLoads(rc, named) THEN Refused
        ELSE Unmarshal(ClientTypes, FlagLayer(flags) ++ (env ++ (file ++ ClientDefaults)))
=============================================================================
