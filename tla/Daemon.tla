------------------------------- MODULE Daemon -------------------------------
(***************************************************************************)
(* The life of fwknopd processes on one host: run, writePIDFile,           *)
(* showStatus and signalDaemon of cmd/fwknopd/main.go, with the end of     *)
(* udpServer.  Daemons come and go and may overlap; the commands --status, *)
(* --kill and --restart read a PID file at one time and use it at another. *)
(* They share the PID files, the UDP ports, the firewall and the host's    *)
(* process numbers, which are used again.                                  *)
(*                                                                         *)
(* The rules of one daemon are taken together: a daemon has rules in the   *)
(* firewall or has none (ActionRules looks inside, at keys, timers and the *)
(* commands of the templates).                                             *)
(***************************************************************************)
EXTENDS ServerConfig, FiniteSets

CONSTANTS
    Pid,           \* process numbers of the host
    Invocation,    \* ways to start fwknopd: its flags and its environment
    Admin,         \* terminals from which the commands are given
    Path, Port,    \* PID files and UDP ports the invocations lead to
    Missing, Empty,\* what a PID file is when it names nobody
    Nobody,        \* whose the rules are that a process has left behind
    InitFlushes,   \* the init command drops the rules there are
    MaxStarts      \* bound on daemons started

Conf(inv) == LoadServerConfig(inv)
PathOf(inv) == Conf(inv)["pid_file"]
PortOf(inv) == Conf(inv)["udp_port"]
Foreground(inv) == Conf(inv)["foreground"]
Serves(inv) == ModeOf(Conf(inv)) = "serve"
Asks(inv) == ModeOf(Conf(inv)) \in {"status", "kill", "restart"}

ASSUME DaemonAssumption ==
    /\ {Missing, Empty} \intersect Pid = {} /\ Missing # Empty
    /\ Nobody \notin Pid
    /\ Invocation # {}
    /\ \A i \in Invocation : PathOf(i) \in Path /\ PortOf(i) \in Port
    /\ InitFlushes \in BOOLEAN
    /\ MaxStarts \in Nat

VARIABLES
    stage,    \* what runs under each process number, and where run stands
    inv,      \* how the process was started
    named,    \* daemons that have written their PID file
    handler,  \* where the signal goroutine of each daemon stands
    chan,     \* daemons with a signal in sigCh
    file,     \* the PID files
    fw, ready,\* whose rules are in the firewall; the chain takes rules
    cmd,      \* the command each terminal is running
    starts,   \* daemons started so far
    alone,    \* history: no two daemons have run at the same time
    events    \* history: what has happened to daemons, of Events

procs == <<stage, inv, named, handler, chan>>
host == <<file, fw, ready>>
history == <<starts, alone, events>>
vars == <<stage, inv, named, handler, chan, file, fw, ready, cmd, starts, alone,
          events>>

\* A daemon ended without its deferred calls: by a signal, or it was killed or
\* panicked.  And one ended, or is about to, without taking the chain away: it
\* was killed or panicked, a read failed, or its Shutdown left the chain there.
Events == {"undeferred", "unflushed"}

Starting == {"loaded", "inited", "created", "named", "guarded"}
DaemonStages == Starting \union {"serving", "returning"}
IsDaemon(p) == stage[p] \in DaemonStages
AnyInvocation == CHOOSE i \in Invocation : TRUE
Idle == [pc |-> "idle", mode |-> "none", path |-> Missing, pid |-> Missing,
         down |-> FALSE, hidden |-> FALSE]

\* A daemon serves under settings that name this PID file, in the foreground or
\* not.
Up(path) == \E p \in Pid : stage[p] = "serving" /\ PathOf(inv[p]) = path

\* One of them has not written the file: it is in the foreground, or could not.
Hidden(path) ==
    \E p \in Pid \ named : stage[p] = "serving" /\ PathOf(inv[p]) = path
-----------------------------------------------------------------------------
Init ==
    /\ stage = [p \in Pid |-> "free"]
    /\ inv = [p \in Pid |-> AnyInvocation]
    /\ named = {}
    /\ handler = [p \in Pid |-> "none"]
    /\ chan = {}
    /\ file = [f \in Path |-> Missing]
    /\ fw = {}
    /\ ready = FALSE
    /\ cmd = [a \in Admin |-> Idle]
    /\ starts = 0
    /\ alone = TRUE
    /\ events = {}

(* A daemon starts *)

\* run up to am.Init: settings, access file, log, template, validate command.
Start(p, i) ==
    /\ stage[p] = "free"
    /\ Serves(i)
    /\ starts < MaxStarts
    /\ starts' = starts + 1
    /\ stage' = [stage EXCEPT ![p] = "loaded"]
    /\ inv' = [inv EXCEPT ![p] = i]
    /\ alone' = (alone /\ \A q \in Pid : ~ IsDaemon(q))
    /\ UNCHANGED <<named, handler, chan, host, events>>

\* Everything a process holds goes with it; files stay, and its rules, with
\* nobody to close them.
Ends(p) ==
    /\ stage' = [stage EXCEPT ![p] = "free"]
    /\ inv' = [inv EXCEPT ![p] = AnyInvocation]
    /\ named' = named \ {p}
    /\ handler' = [handler EXCEPT ![p] = "none"]
    /\ chan' = chan \ {p}
    /\ fw' = IF p \in fw THEN (fw \ {p}) \union {Nobody} ELSE fw

\* One of those steps fails: nothing has been touched yet.
StartFails(p) ==
    /\ stage[p] = "loaded"
    /\ Ends(p)
    /\ UNCHANGED <<file, ready, history>>

\* am.Init: the chain is there afterwards, with the rules it had or without.
RunInit(p) ==
    /\ stage[p] = "loaded"
    /\ stage' = [stage EXCEPT ![p] = "inited"]
    /\ ready' = TRUE
    /\ fw' = IF InitFlushes THEN {} ELSE fw
    /\ UNCHANGED <<inv, named, handler, chan, file, history>>

\* writePIDFile opens the file, which empties it; in the foreground, or when it
\* cannot be opened, the daemon goes on without.
CreateFile(p) ==
    /\ stage[p] = "inited"
    /\ \/ /\ ~ Foreground(inv[p])
          /\ stage' = [stage EXCEPT ![p] = "created"]
          /\ file' = [file EXCEPT ![PathOf(inv[p])] = Empty]
       \/ /\ stage' = [stage EXCEPT ![p] = "named"]
          /\ UNCHANGED file
    /\ UNCHANGED <<inv, named, handler, chan, fw, ready, history>>

\* A fault: a file that was there is not overwritten.
WriteIfNew(p) ==
    /\ stage[p] = "created"
    /\ stage' = [stage EXCEPT ![p] = "named"]
    /\ named' = named \union {p}
    /\ file' = [file EXCEPT ![PathOf(inv[p])] = IF starts > 1 THEN @ ELSE p]
    /\ UNCHANGED <<inv, handler, chan, fw, ready, history>>

\* A fault: the number of another process is written, of the parent for one.
WriteParent(p) ==
    /\ stage[p] = "created"
    /\ stage' = [stage EXCEPT ![p] = "named"]
    /\ named' = named \union {p}
    /\ file' = [file EXCEPT ![PathOf(inv[p])] = CHOOSE q \in Pid : q # p]
    /\ UNCHANGED <<inv, handler, chan, fw, ready, history>>

\* ... and writes the number, if the disk has room for it.
WriteNumber(p) ==
    /\ stage[p] = "created"
    /\ stage' = [stage EXCEPT ![p] = "named"]
    /\ \/ /\ named' = named \union {p}
          /\ file' = [file EXCEPT ![PathOf(inv[p])] = p]
       \/ UNCHANGED <<named, file>>
    /\ UNCHANGED <<inv, handler, chan, fw, ready, history>>

\* A fault: the signals are asked for when the port is bound.
GuardLate(p) ==
    /\ stage[p] = "named"
    /\ stage' = [stage EXCEPT ![p] = "guarded"]
    /\ UNCHANGED <<inv, named, handler, chan, host, history>>

\* signal.Notify, and the goroutine that waits for a signal.
Guard(p) ==
    /\ stage[p] = "named"
    /\ stage' = [stage EXCEPT ![p] = "guarded"]
    /\ handler' = [handler EXCEPT ![p] = "waiting"]
    /\ UNCHANGED <<inv, named, chan, host, history>>

\* udpServer binds the port, or returns because it is taken.
Bind(p) ==
    /\ stage[p] = "guarded"
    /\ stage' = [stage EXCEPT ![p] =
          IF \E q \in Pid : stage[q] = "serving" /\ PortOf(inv[q]) = PortOf(inv[p])
          THEN "returning" ELSE "serving"]
    /\ UNCHANGED <<inv, named, handler, chan, host, history>>

(* It serves *)

\* The daemon opens a rule; without its chain the open command fails.
OpenRule(p) ==
    /\ stage[p] = "serving"
    /\ ready
    /\ fw' = fw \union {p}
    /\ UNCHANGED <<procs, file, ready, history>>

\* Its rules are closed, one after the other by timers or by Shutdown, and this
\* is the last.  It need not happen: a close command may fail.
CloseRules(p) ==
    /\ p \in fw
    /\ fw' = fw \ {p}
    /\ UNCHANGED <<procs, file, ready, history>>

\* ReadFromUDP fails: isClosedErr takes any error for a closed socket, and
\* udpServer returns.
ReadFails(p) ==
    /\ stage[p] = "serving"
    /\ stage' = [stage EXCEPT ![p] = "returning"]
    /\ events' = events \union {"unflushed"}
    /\ UNCHANGED <<inv, named, handler, chan, host, starts, alone>>

(* It ends *)

\* A fault: the PID file stays.
ReturnKeepsFile(p) ==
    /\ stage[p] = "returning"
    /\ Ends(p)
    /\ UNCHANGED <<file, ready, history>>

\* run returns: unless in the foreground it removes its PID file, whoever wrote
\* it, and the process ends, whatever the signal goroutine is at.
Return(p) ==
    /\ stage[p] = "returning"
    /\ Ends(p)
    /\ file' = IF Foreground(inv[p]) THEN file
               ELSE [file EXCEPT ![PathOf(inv[p])] = Missing]
    /\ UNCHANGED <<ready, history>>

\* A fault: SIGHUP is taken for a wish to read the settings again.
TakeAndGoOn(p) ==
    /\ handler[p] = "waiting"
    /\ p \in chan
    /\ chan' = chan \ {p}
    /\ UNCHANGED <<stage, inv, named, handler, host, history>>

\* The goroutine takes the signal, any of the three.  A second signal is never
\* taken.
TakeSignal(p) ==
    /\ handler[p] = "waiting"
    /\ p \in chan
    /\ chan' = chan \ {p}
    /\ handler' = [handler EXCEPT ![p] = "stopping"]
    /\ UNCHANGED <<stage, inv, named, host, history>>

\* A fault: Shutdown forgets the shutdown command.
FlushNothing(p) ==
    /\ handler[p] = "stopping"
    /\ handler' = [handler EXCEPT ![p] = "flushed"]
    /\ UNCHANGED <<stage, inv, named, chan, host, history>>

\* Shutdown comes to its end.  Its last command takes the table or zone away
\* with all rules in it; or none is configured, it fails, it keeps the chain or
\* takes it apart by several commands, and then some rules or none are left and
\* the listener may open more.
Flush(p) ==
    /\ handler[p] = "stopping"
    /\ handler' = [handler EXCEPT ![p] = "flushed"]
    /\ \/ /\ fw' = {}
          /\ ready' = FALSE
          /\ UNCHANGED events
       \/ /\ fw' \in {fw, fw \ {p}, {}}
          /\ events' = events \union {"unflushed"}
          /\ UNCHANGED ready
    /\ UNCHANGED <<stage, inv, named, chan, file, starts, alone>>

\* os.Exit(0): deferred calls are not run, so the PID file stays.
Exit(p) ==
    /\ handler[p] = "flushed"
    /\ Ends(p)
    /\ events' = events \union {"undeferred"}
    /\ UNCHANGED <<file, ready, starts, alone>>

\* The process is killed outright, or panics: nothing of its own is run.
Kill(p) ==
    /\ IsDaemon(p)
    /\ Ends(p)
    /\ events' = Events
    /\ UNCHANGED <<file, ready, starts, alone>>

\* SIGINT, SIGTERM or SIGHUP arrives.  A daemon that waits for signals gets it
\* (the channel holds one, more are dropped); one that does not yet is ended by
\* it on the spot.
Deliver(p) ==
    \/ /\ handler[p] # "none"
       /\ chan' = chan \union {p}
       /\ UNCHANGED <<stage, inv, named, handler, host, history>>
    \/ /\ IsDaemon(p) /\ handler[p] = "none"
       /\ Ends(p)
       /\ events' = events \union {"undeferred"}
       /\ UNCHANGED <<file, ready, starts, alone>>

\* systemd or a terminal signals the process itself, PID file or not.
SystemSignals(p) == Deliver(p)

(* Other programs *)

\* Another program gets a free process number, and gives it back.
OtherStarts(p) ==
    /\ stage[p] = "free"
    /\ stage' = [stage EXCEPT ![p] = "other"]
    /\ UNCHANGED <<inv, named, handler, chan, host, history>>

OtherEnds(p) ==
    /\ stage[p] = "other"
    /\ stage' = [stage EXCEPT ![p] = "free"]
    /\ UNCHANGED <<inv, named, handler, chan, host, history>>

DaemonStep(p) ==
    \/ \E i \in Invocation : Start(p, i)
    \/ StartFails(p)
    \/ RunInit(p)
    \/ CreateFile(p)
    \/ WriteNumber(p)
    \/ Guard(p)
    \/ Bind(p)
    \/ OpenRule(p)
    \/ CloseRules(p)
    \/ ReadFails(p)
    \/ Return(p)
    \/ TakeSignal(p)
    \/ Flush(p)
    \/ Exit(p)
    \/ Kill(p)
    \/ SystemSignals(p)
    \/ OtherStarts(p)
    \/ OtherEnds(p)

\* What a command in progress has seen: a moment without a daemon under the
\* file it asks about.
Absent == {f \in Path : ~ Up(f)}
Watch ==
    cmd' = [a \in Admin |->
              [cmd[a] EXCEPT !.down =
                  @ \/ (cmd[a].pc = "read" /\ cmd[a].path \in Absent')]]
-----------------------------------------------------------------------------
(* The commands *)

\* A command reports that it found nobody under the file.
Denial(path, down) ==
    [Idle EXCEPT !.pc = "no", !.down = down, !.hidden = Hidden(path)]

\* fwknopd --status, --kill or --restart is started and reads the PID file.  One
\* that is empty is sliced out of bounds.
ReadFile(a, i) ==
    LET path == PathOf(i)
    IN  /\ cmd[a].pc = "idle"
        /\ Asks(i)
        /\ cmd' = [cmd EXCEPT ![a] =
              IF file[path] \in Pid
              THEN [pc |-> "read", mode |-> ModeOf(Conf(i)), path |-> path,
                    pid |-> file[path], down |-> ~ Up(path), hidden |-> FALSE]
              ELSE Denial(path, ~ Up(path))]
        /\ UNCHANGED <<procs, host, history>>

\* A fault: any error of the call is taken for "no such process".
SaysNoToAny(a) ==
    /\ cmd[a].pc = "read"
    /\ cmd' = [cmd EXCEPT ![a] = Denial(cmd[a].path, cmd[a].down)]
    /\ UNCHANGED <<procs, host, history>>

\* The number read is nobody's (the user may signal fwknopd if it is there).
SaysNo(a) ==
    /\ cmd[a].pc = "read"
    /\ stage[cmd[a].pid] = "free"
    /\ cmd' = [cmd EXCEPT ![a] = Denial(cmd[a].path, cmd[a].down)]
    /\ UNCHANGED <<procs, host, history>>

\* --status finds a process under the number, whatever it is.
SaysRunning(a) ==
    /\ cmd[a].pc = "read"
    /\ cmd[a].mode = "status"
    /\ stage[cmd[a].pid] # "free"
    /\ cmd' = [cmd EXCEPT ![a] = Idle]
    /\ UNCHANGED <<procs, host, history>>

\* --kill and --restart signal the process; another program does what it likes.
Signal(a) ==
    LET p == cmd[a].pid
    IN  /\ cmd[a].pc = "read"
        /\ cmd[a].mode \in {"kill", "restart"}
        /\ stage[p] # "free"
        /\ cmd' = [cmd EXCEPT ![a] = Idle]
        /\ \/ Deliver(p)
           \/ /\ stage[p] = "other"
              /\ UNCHANGED <<procs, host, history>>

\* The command has printed that it found nobody.
Answered(a) ==
    /\ cmd[a].pc = "no"
    /\ cmd' = [cmd EXCEPT ![a] = Idle]
    /\ UNCHANGED <<procs, host, history>>

Command(a) ==
    \/ \E i \in Invocation : ReadFile(a, i)
    \/ SaysNo(a)
    \/ SaysRunning(a)
    \/ Signal(a)
    \/ Answered(a)

Next ==
    \/ \E p \in Pid : DaemonStep(p) /\ Watch
    \/ \E a \in Admin : Command(a)

Spec == Init /\ [][Next]_vars

\* The signal goroutine runs when it can, and the commands of Shutdown end.
Stopping(p) == (TakeSignal(p) \/ Flush(p) \/ Exit(p)) /\ Watch

FairSpec == Spec /\ \A p \in Pid : WF_vars(Stopping(p))
-----------------------------------------------------------------------------
(* Properties *)

\* A command, with the file it asks about and the number it has read.
CommandType ==
    [pc : {"idle", "read", "no"},
     mode : {"none", "status", "kill", "restart"},
     path : Path \union {Missing}, pid : Pid \union {Missing},
     down : BOOLEAN, hidden : BOOLEAN]

\* Every variable holds a value of its type; what a process has, it has only
\* while it is there.
TypeOK ==
    /\ stage \in [Pid -> DaemonStages \union {"free", "other"}]
    /\ inv \in [Pid -> Invocation]
    /\ handler \in [Pid -> {"none", "waiting", "stopping", "flushed"}]
    /\ file \in [Path -> Pid \union {Missing, Empty}]
    /\ named \subseteq Pid /\ chan \subseteq Pid
    /\ fw \subseteq Pid \union {Nobody}
    /\ ready \in BOOLEAN
    /\ starts \in 0..MaxStarts
    /\ alone \in BOOLEAN
    /\ events \subseteq Events
    /\ cmd \in [Admin -> CommandType]
    /\ \A a \in Admin :
          cmd[a].pc = "read" => cmd[a].path \in Path /\ cmd[a].pid \in Pid
    /\ \A p \in Pid :
          handler[p] # "none" <=> stage[p] \in {"guarded", "serving", "returning"}
    /\ \A p \in named : stage[p] \in {"named", "guarded", "serving", "returning"}
    /\ \A p \in chan : handler[p] # "none"
    /\ \A p \in fw \ {Nobody} : stage[p] \in {"serving", "returning"}

\* As long as daemons do not overlap, a daemon that could write its PID file is
\* the one it names until it ends, over any number of restarts and whatever the
\* files hold when it starts (main.go: --kill, --status find it).  The case of
\* overlap is real: a second daemon empties the file before it finds the port
\* taken, and removes it when it gives up.
FileNamesServer ==
    alone => \A p \in named : file[PathOf(inv[p])] = p

\* A PID file that names no live daemon of its own, or nobody, is what a signal
\* or a kill left behind: os.Exit skips the deferred removal as they do, every
\* other end performs it.
StaleExplained ==
    \A f \in Path :
        \/ file[f] = Missing
        \/ \E p \in named : file[f] = p /\ PathOf(inv[p]) = f
        \/ file[f] = Empty /\ \E p \in Pid : IsDaemon(p) /\ PathOf(inv[p]) = f
        \/ "undeferred" \in events

\* A command that finds nobody is right about some moment between its reading of
\* the file and its answer, though it tries the process only later (showStatus
\* "checks if the process is running"): no daemon with that file in its settings
\* was serving then.  Or one is serving that has not written the file: of a
\* daemon in the foreground, or without its number on disk, the commands know
\* nothing, and deny it for as long as it serves.
StatusHonest ==
    alone => \A a \in Admin : cmd[a].pc = "no" => cmd[a].down \/ cmd[a].hidden

\* The process --kill and --restart are about to signal is the daemon they were
\* asked about, if one has been serving since they read the file and wrote it
\* (signalDaemon "sends a signal to the running fwknopd process"): never one
\* whose number a stale file held, nor whatever got a number again.
TargetIsServer ==
    alone => \A a \in Admin :
        cmd[a].pc = "read" /\ ~ cmd[a].down /\ ~ Hidden(cmd[a].path) =>
            /\ cmd[a].pid \in named /\ stage[cmd[a].pid] = "serving"
            /\ PathOf(inv[cmd[a].pid]) = cmd[a].path

\* Rules outlive the daemon that opened them only if it was killed, a read of
\* its failed, its Shutdown left the chain able to hold rules, or daemons
\* overlapped.  Otherwise a signal at any moment, even while the daemon starts
\* or while its listener opens rules during Shutdown, leaves none.
OrphansExplained ==
    alone /\ "unflushed" \notin events => Nobody \notin fw

\* A daemon that has been sent a signal comes to its end, restart or kill,
\* though only the first signal is ever taken.
SignalStops == \A p \in Pid : (p \in chan) ~> (stage[p] = "free")
=============================================================================
