---------------------------- MODULE ServerConfig ----------------------------
(***************************************************************************)
(* How fwknopd puts its settings together: loadServerConfig of             *)
(* cmd/fwknopd/config.go and the choice of what to do in main.go.  A layer *)
(* is a function from the keys it sets to their values; an invocation has  *)
(* the layers flags (those given) and env (the FWKNOPD_ variables).        *)
(***************************************************************************)
EXTENDS Layers, Integers

CONSTANTS
    Files,          \* the YAML files there are, each a layer under its name
    DefaultFile,    \* the name of /etc/fwknop/server.yaml
    Defaults,       \* what is set before any layer is read
    FlagDefaults    \* what the flags hold when they are not given

\* The modes in the order in which run asks for them.
Modes == <<"version", "status", "kill", "restart", "dump_config">>

ASSUME ConfigAssumption ==
    /\ {"pid_file", "udp_port"} \subseteq DOMAIN Defaults
    /\ {"foreground"} \union {Modes[i] : i \in DOMAIN Modes} \subseteq DOMAIN FlagDefaults

\* The file to read is named on the command line or is the default one; the
\* environment has no say in it.  A file that is not there sets nothing.
FileLayer(flags) ==
    LET name == IF "config_file" \in DOMAIN flags THEN flags["config_file"]
                                                  ELSE DefaultFile
    IN  IF name \in DOMAIN Files THEN Files[name] ELSE <<>>

\* loadServerConfig: flags given, then variables, then the file, then defaults;
\* a flag that is not given only fills a key nobody has set.
LoadServerConfig(inv) ==
    inv.flags ++ (inv.env ++ (FileLayer(inv.flags) ++ (Defaults ++ FlagDefaults)))

\* What run does: the first mode that is set, or it serves.  The modes are
\* keys like any other, so a file or a variable can set them too.
ModeOf(conf) ==
    LET set == {i \in DOMAIN Modes : conf[Modes[i]]}
    IN  IF set = {} THEN "serve" ELSE Modes[CHOOSE i \in set : \A j \in set : i <= j]
=============================================================================
