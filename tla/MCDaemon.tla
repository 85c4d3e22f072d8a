------------------------------ MODULE MCDaemon ------------------------------
(* An instance of Daemon for TLC. *)
EXTENDS Daemon, TLC

\* server.yaml names the PID file; alt.yaml names another one.
MCFiles == ("server.yaml" :> ("pid_file" :> "run")) @@ ("alt.yaml" :> ("pid_file" :> "alt"))
MCDefaults == ("pid_file" :> "default") @@ ("udp_port" :> 62201)
MCFlagDefaults ==
    [k \in {"foreground", "version", "status", "kill", "restart", "dump_config"} |-> FALSE]

Ways(flags, env) == [flags |-> flags, env |-> env]
On(flag) == flag :> TRUE

\* Daemons that differ in PID file, port and daemon mode, and two commands: one
\* asked for by a variable, one about the other file by a flag against a
\* variable.
MCInvocation ==
    {Ways(<<>>, <<>>),
     Ways("config_file" :> "alt.yaml", "udp_port" :> 62202),
     Ways(On("foreground"), <<>>),
     Ways(<<>>, On("restart")),
     Ways(On("status") @@ ("pid_file" :> "alt"), "pid_file" :> "run")}
=============================================================================
