-------------------------- MODULE ConvertedConfig --------------------------
(***************************************************************************)
(* From legacy files to running programs: a file is converted by           *)
(* fwknop-convert (LegacyConversion), and what was printed is read by      *)
(* fwknop (ClientConfig) or fwknopd (ServerConfig, and loadAccessConfig of *)
(* cmd/fwknopd/access.go), together with flags and variables.              *)
(***************************************************************************)
EXTENDS LegacyConversion, ClientConfig, FiniteSetsExt, Functions

CONSTANTS
    ClientCall, ServerCall,  \* flags and variables the programs get, and whether
                             \* the client finds the rc file
    ServerDefaults, ServerFlagDefaults  \* as in ServerConfig

VARIABLES
    call,    \* how the program that reads the file was started
    program, \* whether it runs or refused its settings; "none" before
    conf     \* the settings it runs with

vars == <<kind, lines, sections, stanza, backend, warned, phase, yaml, call, program, conf>>

\* The fields of accessStanza and of serverConfig.
AccessTypes ==
    [k \in {"source", "key_base64", "key", "hmac_key_base64", "hmac_key", "hmac_digest_type",
            "encryption_mode", "require_username", "cmd_exec_user"} |-> "str"] ++
    [k \in {"access_timeout", "max_access_timeout"} |-> "int"] ++
    [k \in {"require_source_address", "enable_cmd_exec"} |-> "bool"] ++
    [open_ports |-> "list"]
ServerTypes ==
    [k \in {"bind_address", "log_file", "syslog_identity", "syslog_facility", "pid_file",
            "run_dir", "action_template", "action_dir", "config_file",
            "access_file"} |-> "str"] ++
    [k \in {"udp_port", "max_spa_packet_age"} |-> "int"] ++
    [k \in {"verbose", "foreground", "test", "dump_config", "kill", "restart", "status",
            "version"} |-> "bool"]

\* A stanza needs a source and a key; its other texts are taken to be valid
\* (PacketDispatch and SpaCodec look at them).
Resolves(stanzaRead) ==
    /\ stanzaRead["source"] # ""
    /\ stanzaRead["key_base64"] # "" \/ stanzaRead["key"] # ""

\* loadAccessConfig: all stanzas or none.
LoadAccessConfig(access) ==
    LET read == [i \in DOMAIN access |-> UnmarshalStrict(AccessTypes, access[i])]
    IN  IF \A i \in DOMAIN access : read[i].ok /\ Resolves(read[i].conf)
        THEN Accepted([i \in DOMAIN access |-> read[i].conf])
        ELSE Refused

\* fwknopd with this server.yaml.
Server(file) == INSTANCE ServerConfig WITH
    Files <- Only("server.yaml", file), DefaultFile <- "server.yaml",
    Defaults <- ServerDefaults, FlagDefaults <- ServerFlagDefaults
LoadServer(c, file) == Unmarshal(ServerTypes, Server(file)!LoadServerConfig(c))

\* A value in Go of the type of the field, or one that fits it.
IsA(types, key, value) == key \in DOMAIN types => value.type = types[key]
FitsIn(types, key, value) == key \in DOMAIN types => Fits(types[key], value)

\* Flags and defaults have the types of their fields and the variables fit, so
\* that it is the file that decides; server.yaml is where fwknopd looks for it.
ASSUME CallAssumption ==
    /\ ServerCall # {}
    /\ \A c \in ClientCall :
          /\ \A f \in DOMAIN c.flags : IsA(ClientTypes, KeyOfFlag(f), c.flags[f])
          /\ \A k \in DOMAIN c.env : FitsIn(ClientTypes, k, c.env[k])
    /\ \A c \in ServerCall :
          /\ \A k \in DOMAIN c.flags : IsA(ServerTypes, k, c.flags[k])
          /\ \A k \in DOMAIN c.env : FitsIn(ServerTypes, k, c.env[k])
          /\ "config_file" \notin DOMAIN c.flags
    /\ \A k \in DOMAIN ServerDefaults : IsA(ServerTypes, k, ServerDefaults[k])
    /\ \A k \in DOMAIN ServerFlagDefaults : IsA(ServerTypes, k, ServerFlagDefaults[k])
-----------------------------------------------------------------------------
AnyCall == CHOOSE c \in ServerCall : TRUE

InitSystem ==
    /\ Init
    /\ call = AnyCall
    /\ program = "none"
    /\ conf = <<>>

Converting == Convert /\ UNCHANGED <<call, program, conf>>

\* A program has read what was printed.
Starts(k, c, result) ==
    /\ kind = k /\ phase = "printed" /\ program = "none"
    /\ call' = c
    /\ program' = IF result.ok THEN "runs" ELSE "refuses"
    /\ conf' = result.conf
    /\ UNCHANGED convVars

AccessLoaded == Starts("access", AnyCall, LoadAccessConfig(yaml))
ClientStarts(c) ==
    Starts("client", c, LoadConfig(c.flags, c.env, c.file, yaml))
ServerStarts(c) == Starts("server", c, LoadServer(c, yaml))

Next ==
    \/ Converting
    \/ AccessLoaded
    \/ \E c \in ClientCall : ClientStarts(c)
    \/ \E c \in ServerCall : ServerStarts(c)

Spec == InitSystem /\ [][Next]_vars
-----------------------------------------------------------------------------
(* What the lines of a file say, told from the file as a whole *)

KeyAt(i) == CASE kind = "access" -> IF lines[i].key = "source" THEN "source"
                                    ELSE AccessKey(lines[i].key)
              [] kind = "client" -> MapClientKey(lines[i].key)
              [] kind = "server" -> ServerKey(lines[i].key)

Heads(i) == {j \in 1..i : lines[j].key = IF kind = "access" THEN "source" ELSE "[]"}
Headless == \E i \in DOMAIN lines : lines[i].key # "%include" /\ Heads(i) = {}

\* The block a line is in: the stanza number, the stanza's name, or "server".
BlockAt(i) ==
    CASE kind = "access" -> Cardinality(Heads(i)) + (IF Headless THEN 1 ELSE 0)
      [] kind = "client" -> IF Heads(i) = {} THEN "default" ELSE lines[Max(Heads(i))].text
      [] kind = "server" -> "server"
Blocks == {BlockAt(i) : i \in {j \in DOMAIN lines : lines[j].key # "%include"}}

\* The lines of a block that set a key, and the text that is to count.
Setters(b, key) == {i \in DOMAIN lines : KeyAt(i) = key /\ BlockAt(i) = b}
Says(b, key) == Setters(b, key) # {}
Text(b, key) == lines[Max(Setters(b, key))].text

Convertible == CASE kind = "access" -> Range(AccessKeys) \union {"source"}
                 [] kind = "client" -> Range(ClientKeys)
                 [] kind = "server" -> Range(ServerKeys)

\* What the text of a legacy file means to a field of a type.
Meant(type, text) == CASE type = "int" -> Number[text]
                       [] type = "bool" -> text \in Yes
                       [] type = "list" -> PortLists[text]
                       [] OTHER -> text

\* The stanza of the rc file that decides on a key for this call; a stanza
\* without a name cannot be asked for.
Deciding(key) == LET named == NamedConfig(call.flags)
                 IN  IF named # "" /\ Says(named, key) THEN named ELSE "default"
FromFile == call.file /\ ~ IsOn(call.flags, "no_rc_file")
Asked == ~ IsOn(call.flags, "version") /\ ~ IsOn(call.flags, "key_gen")
Overridden(key) ==
    \/ key \in DOMAIN call.env
    \/ key \in DOMAIN (IF kind = "client" THEN FlagLayer(call.flags) ELSE call.flags)
-----------------------------------------------------------------------------
(* Properties *)

\* Every variable holds a value of its type.
TypeOK ==
    /\ kind \in Kinds
    /\ lines \in Seq(AccessLine \union ClientLine \union ServerLine) /\ Len(lines) <= MaxLines
    /\ \A b \in DOMAIN sections : \A k \in DOMAIN sections[b] :
          sections[b][k].type \in {"str", "bool", "list"}
    /\ kind = "client" => {stanza, "default"} \subseteq DOMAIN sections
    /\ backend \in {"none", "iptables", "firewalld", "ipfw", "pf"}
    /\ warned \subseteq DOMAIN lines
    /\ phase \in {"reading", "printed", "error"}
    /\ program \in {"none", "runs", "refuses"}
    /\ phase = "error" => kind = "access" /\ \A i \in DOMAIN lines : i \in warned

\* The sections are those of the file, in its order, and each setting is the
\* one of the last line for it in its block: repeated headers, lines before the
\* first SOURCE and repeated keys neither mix stanzas nor lose one.
LastLineWins ==
    /\ DOMAIN sections = Blocks \union (CASE kind = "client" -> {"default"}
                                         [] kind = "server" -> {"server"}
                                         [] OTHER -> {})
    /\ \A b \in DOMAIN sections :
          /\ DOMAIN sections[b] = {k \in Convertible : Says(b, k)}
          /\ \A k \in DOMAIN sections[b] :
                sections[b][k].val = Meant(sections[b][k].type, Text(b, k))

\* The template named is that of the most particular firewall any line is about:
\* the last one of ipfw and pf, or else firewalld, or else iptables, in any order
\* of the lines (fwknopd.conf has iptables keys whatever the firewall).
BackendDetected ==
    LET about(p) == {i \in DOMAIN lines : kind = "server" /\ FirewallOf(lines[i].key) = p}
        late == about("ipfw") \union about("pf")
    IN  backend = IF late # {} THEN FirewallOf(lines[Max(late)].key)
                  ELSE IF about("firewalld") # {} THEN "firewalld"
                  ELSE IF about("iptables") # {} THEN "iptables" ELSE "none"

\* The block says something, and not the empty text (as the line KEY ; does).
Gives(b, key) == Says(b, key) /\ Text(b, key) # ""

\* A converted file is taken by the program it is for exactly if: in access.conf
\* every stanza has a source and a key, and none sets a timeout (the converter
\* writes it as a text, fwknopd wants a number); in .fwknoprc the stanza asked
\* for is there and what is not overridden of numbers and Booleans reads as such
\* (Y and N do not); in fwknopd.conf likewise, where an empty text is a zero.
ConvertedLoads ==
    program # "none" =>
    (program = "runs" <=>
      CASE kind = "access" ->
             \A b \in Blocks :
                /\ Gives(b, "source")
                /\ Gives(b, "key") \/ Gives(b, "key_base64")
                /\ ~ Says(b, "access_timeout") /\ ~ Says(b, "max_access_timeout")
        [] kind = "client" ->
             Asked /\ FromFile =>
                /\ NamedConfig(call.flags) \in Blocks \union {"", "default"}
                /\ \A k \in Range(ClientKeys) : ~ Overridden(k) /\ Says(Deciding(k), k) =>
                      Text(Deciding(k), k) \in
                        CASE ClientTypes[k] = "int" -> DOMAIN Number \union DOMAIN YamlTruth
                          [] ClientTypes[k] = "bool" -> DOMAIN Number \union DOMAIN ParseBool
                          [] OTHER -> {Text(Deciding(k), k)}
        [] kind = "server" ->
             /\ \A k \in {"udp_port", "max_spa_packet_age"} :
                   Gives("server", k) /\ ~ Overridden(k)
                      => Text("server", k) \in DOMAIN Number
             /\ Gives("server", "verbose") /\ ~ Overridden("verbose")
                   => Text("server", "verbose") \in DOMAIN ParseBool)

\* A text that is one value of a type, whoever reads it.
Clear(type, text) == CASE type = "int" -> text \in DOMAIN Number
                       [] type = "bool" -> text \in Yes \union No
                       [] OTHER -> TRUE

\* Texts that YAML reads as something that is written otherwise.
Respelled(text) == Fill("str", Plain(text)) # text

\* What a program runs with is what the legacy file says, where no flag or
\* variable says otherwise: through both stanzas of an rc file, names changed by
\* the converter, and types changed on the way.  Only a text of the client that
\* looks like a number or a Boolean comes back in another spelling, which for a
\* passphrase makes another key.
SettingsSurvive ==
    program = "runs" =>
      CASE kind = "access" ->
             \A b \in Blocks : \A k \in DOMAIN AccessTypes : Says(b, k) =>
                conf[b][k] = Meant(AccessTypes[k], Text(b, k))
        [] kind = "client" /\ Asked ->
             \A k \in Range(ClientKeys) :
                IF k \in DOMAIN FlagLayer(call.flags) THEN conf[k] = FlagLayer(call.flags)[k].val
                ELSE IF k \in DOMAIN call.env THEN conf[k] = Fill(ClientTypes[k], call.env[k])
                ELSE FromFile /\ Says(Deciding(k), k) /\ Clear(ClientTypes[k], Text(Deciding(k), k)) =>
                     (conf[k] = Meant(ClientTypes[k], Text(Deciding(k), k))
                      <=> ~ (ClientTypes[k] = "str" /\ Respelled(Text(Deciding(k), k))))
        [] kind = "server" ->
             \A k \in Convertible \intersect DOMAIN ServerTypes :
                /\ Says("server", k) /\ ~ Overridden(k) /\ Clear(ServerTypes[k], Text("server", k)) =>
                     conf[k] = Meant(ServerTypes[k], Text("server", k))
                /\ backend # "none" /\ ~ Overridden("action_template")
                     => conf["action_template"] = backend
        [] OTHER -> TRUE
=============================================================================
