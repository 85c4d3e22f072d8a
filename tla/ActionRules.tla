---------------------------- MODULE ActionRules ----------------------------
(***************************************************************************)
(* The rule lifecycle of fwknopd: cmd/fwknopd/actions.go driven by the UDP *)
(* listener, by the timers of the rules and by the signal handler.         *)
(*                                                                         *)
(* am.mu protects the map and the timers only; the commands run outside    *)
(* it.  The listener is one goroutine and opens rules one after the other; *)
(* every timer that fires runs CloseRule in a goroutine of its own, and    *)
(* Shutdown runs in the signal goroutine while the listener goes on.       *)
(*                                                                         *)
(* An open template is configured (without one nothing is ever opened).    *)
(* A command takes effect at one instant; before and after it any other    *)
(* goroutine may run.  A timer may fire at any time after it was set.      *)
(***************************************************************************)
EXTENDS Firewall, FiniteSets

CONSTANTS
    Key,           \* keys of activeRules: the text "srcIP/proto/port"
    RuleOf,        \* the firewall rule a key stands for; the case of the
                   \* protocol makes several keys of one rule
    MaxTimers,     \* bound on timers created in one life of the daemon
    MaxStarts,     \* bound on starts of the daemon
    HasCheck,      \* a check template is configured
    HasClose,      \* a close template is configured
    HasShutdown,   \* a shutdown command is configured
    OpenMayFail,   \* open commands and template rendering may fail
    CloseMayFail,  \* close commands may fail
    CheckMayErr,   \* check may exit non-zero though the rule exists
    ShutdownMayFail  \* a command of the shutdown template may fail

ASSUME ActionAssumption ==
    /\ Key # {}
    /\ RuleOf \in [Key -> Rule]
    /\ MaxTimers \in Nat
    /\ MaxStarts \in Nat
    /\ {HasCheck, HasClose, HasShutdown, OpenMayFail, CloseMayFail, CheckMayErr,
        ShutdownMayFail} \subseteq BOOLEAN

Timer == 1..MaxTimers
NoTimer == 0

VARIABLES
    fw, ready,    \* the host firewall
    linked,       \* packets are led through the chain
    proc,         \* the process: up; stopping, where Shutdown closes its rules;
                  \* emptied and detached, between the commands of the shutdown
                  \* template; flushed, before os.Exit; or down
    active,       \* activeRules: the timer tracked under each key, or NoTimer
    timerKey,     \* the key a timer was made for
    timer,        \* life of a timer and of the CloseRule it runs
    last,         \* timers made so far
    lpc, lkey,    \* where OpenRule stands, and for which key
    pending,      \* keys Shutdown has yet to close
    starts,       \* how often the daemon was started
    unclean,      \* history: a command of this life's shutdown template failed
    inherited     \* history: rules left open, by an earlier life or by a
                  \* close command that failed, and not requested again since

firewall == <<fw, ready, linked>>
timers   == <<active, timerKey, timer, last>>
listener == <<lpc, lkey>>
vars == <<fw, ready, linked, proc, active, timerKey, timer, last, lpc, lkey,
          pending, starts, unclean, inherited>>

Running == proc # "down"
-----------------------------------------------------------------------------
AnyKey == CHOOSE k \in Key : TRUE   \* the content of memory not yet used

Init ==
    /\ fw = NoRules
    /\ ready = TRUE
    /\ linked = TRUE
    /\ proc = "up"
    /\ active = [k \in Key |-> NoTimer]
    /\ timerKey = [t \in Timer |-> AnyKey]
    /\ timer = [t \in Timer |-> "free"]
    /\ last = 0
    /\ lpc = "idle"
    /\ lkey = AnyKey
    /\ pending = {}
    /\ starts = 0
    /\ unclean = FALSE
    /\ inherited = {}

(* The listener: OpenRule *)

\* dispatchAction calls OpenRule.
Request(k) ==
    /\ Running
    /\ lpc = "idle"
    /\ last < MaxTimers
    /\ lkey' = k
    /\ lpc' = IF HasCheck THEN "check" ELSE "open"
    /\ UNCHANGED <<fw, ready, linked, proc, active, timerKey, timer, last,
                   pending, starts, unclean, inherited>>

\* A fault: the result of the check is not looked at.
CheckIgnored ==
    /\ lpc = "check"
    /\ lpc' = "open"
    /\ UNCHANGED <<fw, ready, linked, proc, active, timerKey, timer, last, lkey,
                   pending, starts, unclean, inherited>>

\* The check command: exit 0 means the rule exists.
RunCheck ==
    /\ lpc = "check"
    /\ \/ /\ CheckFinds(fw, ready, RuleOf[lkey])
          /\ lpc' = "schedule"
       \/ /\ CheckFinds(fw, ready, RuleOf[lkey]) => CheckMayErr
          /\ lpc' = "open"
       \/ /\ OpenMayFail
          /\ lpc' = "idle"
    /\ UNCHANGED <<fw, ready, linked, proc, active, timerKey, timer, last, lkey,
                   pending, starts, unclean, inherited>>

\* The open command; when it fails nothing is scheduled.
RunOpen ==
    /\ lpc = "open"
    /\ \/ /\ ready
          /\ fw' = AfterOpen(fw, RuleOf[lkey])
          /\ inherited' = inherited \ {RuleOf[lkey]}
          /\ lpc' = "schedule"
       \/ /\ ready => OpenMayFail
          /\ lpc' = "idle"
          /\ UNCHANGED <<fw, inherited>>
    /\ UNCHANGED <<ready, linked, proc, active, timerKey, timer, last, lkey,
                   pending, starts, unclean>>

\* timer.Stop on the tracked timers of the keys in K: a timer that has fired
\* already goes on.
Stopped(K) ==
    [t \in Timer |-> IF timer[t] = "armed" /\ \E k \in K : active[k] = t
                     THEN "stopped" ELSE timer[t]]

\* A fault: a timer is tracked that is never set.
TimerNotSet ==
    /\ lpc = "schedule"
    /\ last' = last + 1
    /\ timer' = Stopped({lkey})
    /\ timerKey' = [timerKey EXCEPT ![last'] = lkey]
    /\ active' = [active EXCEPT ![lkey] = last']
    /\ inherited' = inherited \ {RuleOf[lkey]}
    /\ lpc' = "idle"
    /\ UNCHANGED <<fw, ready, linked, proc, lkey, pending, starts, unclean>>

\* A fault: the old timer is replaced in the map and not stopped.
OldTimerRuns ==
    /\ lpc = "schedule"
    /\ last' = last + 1
    /\ timer' = [timer EXCEPT ![last'] = "armed"]
    /\ timerKey' = [timerKey EXCEPT ![last'] = lkey]
    /\ active' = [active EXCEPT ![lkey] = last']
    /\ inherited' = inherited \ {RuleOf[lkey]}
    /\ lpc' = "idle"
    /\ UNCHANGED <<fw, ready, linked, proc, lkey, pending, starts, unclean>>

\* A fault: the old timer is stopped and stays in the map.
ScheduleUntracked ==
    /\ lpc = "schedule"
    /\ last' = last + 1
    /\ timer' = [Stopped({lkey}) EXCEPT ![last'] = "armed"]
    /\ timerKey' = [timerKey EXCEPT ![last'] = lkey]
    /\ active' = [active EXCEPT ![lkey] = IF @ = NoTimer THEN last' ELSE @]
    /\ inherited' = inherited \ {RuleOf[lkey]}
    /\ lpc' = "idle"
    /\ UNCHANGED <<fw, ready, linked, proc, lkey, pending, starts, unclean>>

\* scheduleClose, also for a refresh: stop the tracked timer, track a new one.
ScheduleClose ==
    /\ lpc = "schedule"
    /\ last' = last + 1
    /\ timer' = [Stopped({lkey}) EXCEPT ![last'] = "armed"]
    /\ timerKey' = [timerKey EXCEPT ![last'] = lkey]
    /\ active' = [active EXCEPT ![lkey] = last']
    /\ inherited' = inherited \ {RuleOf[lkey]}
    /\ lpc' = "idle"
    /\ UNCHANGED <<fw, ready, linked, proc, lkey, pending, starts, unclean>>

(* The timers: CloseRule *)

TimerFires(t) ==
    /\ timer[t] = "armed"
    /\ timer' = [timer EXCEPT ![t] = "fired"]
    /\ UNCHANGED <<fw, ready, linked, proc, active, timerKey, last, lpc, lkey,
                   pending, starts, unclean, inherited>>

\* A fault: the close command is not run.
CloseSkipped(r) == UNCHANGED <<fw, inherited>>

\* Running the close command for rule r: its effect, or its failure, which is
\* logged and leaves the rule as it is.
CloseCommand(r) ==
    \/ /\ HasClose
       /\ fw' = AfterClose(fw, r)
       /\ UNCHANGED inherited
    \/ /\ HasClose => CloseMayFail \/ ~ ready
       /\ inherited' = IF fw[r] > 0 THEN inherited \union {r} ELSE inherited
       /\ UNCHANGED fw

\* The close command of CloseRule.  Success or failure makes no difference.
RunClose(t) ==
    /\ timer[t] = "fired"
    /\ timer' = [timer EXCEPT ![t] = "ran"]
    /\ CloseCommand(RuleOf[timerKey[t]])
    /\ UNCHANGED <<ready, linked, proc, active, timerKey, last, lpc, lkey,
                   pending, starts, unclean>>

\* The end of CloseRule: the key is deleted whatever is tracked under it now.
Forget(t) ==
    /\ timer[t] = "ran"
    /\ timer' = [timer EXCEPT ![t] = "done"]
    /\ active' = [active EXCEPT ![timerKey[t]] = NoTimer]
    /\ UNCHANGED <<fw, ready, linked, proc, timerKey, last, lpc, lkey, pending,
                   starts, unclean, inherited>>

(* The signal goroutine: Shutdown *)

\* A fault: the map is cleared without a snapshot of it.
ShutdownForgets ==
    /\ proc = "up"
    /\ proc' = "stopping"
    /\ timer' = Stopped(Key)
    /\ active' = [k \in Key |-> NoTimer]
    /\ UNCHANGED <<fw, ready, linked, timerKey, last, lpc, lkey, pending,
                   starts, unclean, inherited>>

\* Snapshot the map, stop its timers and clear it, under the lock.
BeginShutdown ==
    /\ proc = "up"
    /\ proc' = "stopping"
    /\ pending' = {k \in Key : active[k] # NoTimer}
    /\ timer' = Stopped(Key)
    /\ active' = [k \in Key |-> NoTimer]
    /\ UNCHANGED <<fw, ready, linked, timerKey, last, lpc, lkey, starts,
                   unclean, inherited>>

\* A fault: a rule that was closed stays in the list.
ShutdownRepeats(k) ==
    /\ proc = "stopping"
    /\ k \in pending
    /\ CloseCommand(RuleOf[k])
    /\ UNCHANGED <<ready, linked, proc, active, timerKey, timer, last, lpc,
                   lkey, pending, starts, unclean>>

\* Close the rules of the snapshot, in the map's random order.
ShutdownCloses(k) ==
    /\ proc = "stopping"
    /\ k \in pending
    /\ pending' = pending \ {k}
    /\ CloseCommand(RuleOf[k])
    /\ UNCHANGED <<ready, linked, proc, active, timerKey, timer, last, lpc,
                   lkey, starts, unclean>>

\* A command of the shutdown template fails; Shutdown logs that and goes on.
CommandFails ==
    /\ ShutdownMayFail
    /\ unclean' = TRUE
    /\ UNCHANGED <<ready, linked>>

\* The shutdown command, if one is configured; of iptables the first part, -F.
RunShutdown ==
    /\ proc = "stopping"
    /\ pending = {}
    /\ proc' = IF HasShutdown /\ InParts THEN "emptied" ELSE "flushed"
    /\ \/ /\ HasShutdown
          /\ fw' = NoRules
          /\ ready' = (ready /\ ~ ChainGoes)
          /\ UNCHANGED <<linked, unclean>>
       \/ /\ HasShutdown
          /\ fw' \in {fw, NoRules}
          /\ CommandFails
       \/ /\ ~ HasShutdown
          /\ UNCHANGED <<fw, ready, linked, unclean>>
    /\ UNCHANGED <<active, timerKey, timer, last, lpc, lkey, pending, starts,
                   inherited>>

\* A fault: the template lacks -D INPUT.
DetachSkipped ==
    /\ proc = "emptied"
    /\ proc' = "detached"
    /\ UNCHANGED <<fw, ready, linked, active, timerKey, timer, last, lpc, lkey,
                   pending, starts, unclean, inherited>>

\* The second part, iptables -D INPUT -j: packets pass by the chain.
DetachChain ==
    /\ proc = "emptied"
    /\ proc' = "detached"
    /\ \/ /\ linked' = FALSE
          /\ UNCHANGED <<ready, unclean>>
       \/ CommandFails
    /\ UNCHANGED <<fw, active, timerKey, timer, last, lpc, lkey, pending,
                   starts, inherited>>

\* The third part, iptables -X: it deletes a chain only if it is empty and
\* nothing leads to it, and a rule may have been opened since -F.
DeleteChain ==
    /\ proc = "detached"
    /\ proc' = "flushed"
    /\ \/ /\ ~ linked /\ fw = NoRules
          /\ ready' = FALSE
          /\ UNCHANGED <<linked, unclean>>
       \/ /\ linked \/ fw # NoRules
          /\ UNCHANGED <<ready, linked, unclean>>
       \/ CommandFails
    /\ UNCHANGED <<fw, active, timerKey, timer, last, lpc, lkey, pending,
                   starts, inherited>>

(* The life of the process *)

\* Nothing of the process's memory survives it; the firewall keeps its rules,
\* in a chain that packets pass by too.
Stop ==
    /\ proc' = "down"
    /\ active' = [k \in Key |-> NoTimer]
    /\ timerKey' = [t \in Timer |-> AnyKey]
    /\ timer' = [t \in Timer |-> "free"]
    /\ last' = 0
    /\ lpc' = "idle"
    /\ lkey' = AnyKey
    /\ pending' = {}
    /\ inherited' = {r \in Rule : fw[r] > 0}
    /\ UNCHANGED <<fw, ready, linked, starts, unclean>>

\* os.Exit(0) after Shutdown, wherever the listener and the timers stand.
Exit == proc = "flushed" /\ Stop

\* The process ends without Shutdown: it is killed, or the listener returns
\* from a read error.
Abort == proc \in {"up", "stopping", "emptied", "detached"} /\ Stop

\* A new life begins with the init command, which links the chain again.
Start ==
    /\ proc = "down"
    /\ starts < MaxStarts
    /\ starts' = starts + 1
    /\ proc' = "up"
    /\ fw' = AfterInit(fw)
    /\ ready' = TRUE
    /\ linked' = TRUE
    /\ unclean' = FALSE
    /\ inherited' = {r \in inherited : AfterInit(fw)[r] > 0}
    /\ UNCHANGED <<active, timerKey, timer, last, lpc, lkey, pending>>

\* The firewall drops a rule by itself: the firewalld template gives every
\* rule a timeout of its own.
RuleExpires(r) ==
    /\ Backend = "firewalld"
    /\ fw[r] > 0
    /\ fw' = [fw EXCEPT ![r] = 0]
    /\ UNCHANGED <<ready, linked, proc, active, timerKey, timer, last, lpc,
                   lkey, pending, starts, unclean, inherited>>

OpenRule  == RunCheck \/ RunOpen \/ ScheduleClose
CloseRule(t) == RunClose(t) \/ Forget(t)
Shutdown ==
    \/ \E k \in Key : ShutdownCloses(k)
    \/ RunShutdown
    \/ DetachChain
    \/ DeleteChain

Next ==
    \/ \E k \in Key : Request(k)
    \/ RunCheck
    \/ RunOpen
    \/ ScheduleClose
    \/ \E t \in Timer : TimerFires(t) \/ RunClose(t) \/ Forget(t)
    \/ BeginShutdown
    \/ \E k \in Key : ShutdownCloses(k)
    \/ RunShutdown
    \/ DetachChain
    \/ DeleteChain
    \/ Exit
    \/ Abort
    \/ Start
    \/ \E r \in Rule : RuleExpires(r)

Spec == Init /\ [][Next]_vars

\* Commands terminate, timers fire, and a goroutine that can run does.
Fairness ==
    /\ WF_vars(OpenRule)
    /\ \A t \in Timer : WF_vars(TimerFires(t)) /\ WF_vars(CloseRule(t))
    /\ WF_vars(Shutdown)
    /\ WF_vars(Exit)

FairSpec == Spec /\ Fairness
-----------------------------------------------------------------------------
(* Properties *)

\* Every variable holds a value of its type.
TypeOK ==
    /\ fw \in [Rule -> Nat]
    /\ ready \in BOOLEAN
    /\ linked \in BOOLEAN
    /\ proc \in {"up", "stopping", "emptied", "detached", "flushed", "down"}
    /\ active \in [Key -> {NoTimer} \union 1..last]
    /\ timerKey \in [Timer -> Key]
    /\ timer \in [Timer -> {"free", "armed", "stopped", "fired", "ran", "done"}]
    /\ last \in 0..MaxTimers
    /\ \A t \in Timer : timer[t] = "free" <=> t > last
    /\ lpc \in {"idle", "check", "open", "schedule"}
    /\ lpc # "idle" => last < MaxTimers
    /\ lkey \in Key
    /\ pending \subseteq Key
    /\ starts \in 0..MaxStarts
    /\ unclean \in BOOLEAN
    /\ inherited \subseteq Rule

\* A timer or a shutdown in progress is going to run the close command for r,
\* or the listener is about to set such a timer.
HasCloser(r) ==
    \/ \E t \in Timer : timer[t] \in {"armed", "fired"} /\ RuleOf[timerKey[t]] = r
    \/ lpc = "schedule" /\ RuleOf[lkey] = r
    \/ \E k \in pending : RuleOf[k] = r

\* No rule the daemon opened is ever left without somebody to close it, in
\* whatever order requests, refreshes, firing timers, late CloseRules and
\* Shutdown interleave (activeRule: "opened and will be closed on timeout"),
\* unless its close command failed; and the next request mends that, too.
CloserExists ==
    Running => \A r \in Rule : fw[r] > 0 /\ r \notin inherited => HasCloser(r)

\* The check keeps rules single, though what it saw may be stale when the
\* open command runs: one close suffices to remove a rule.
NoDuplicateRule == \A r \in Rule : fw[r] <= 1

\* The listener acts on a check result that others can only have made safer.
CheckStillHolds == lpc = "open" /\ HasCheck /\ ready => fw[RuleOf[lkey]] = 0

\* What the induction behind CloserExists needs besides: no chain, no rule; no
\* list of rules to close outside Shutdown; and a process that is down has no
\* request in hand and counts every rule as left open.
Bookkeeping ==
    /\ ~ ready => \A r \in Rule : fw[r] = 0
    /\ pending # {} => proc = "stopping"
    /\ proc = "down" => lpc = "idle" /\ \A r \in Rule : fw[r] > 0 => r \in inherited

\* The map tracks, under each key, the newest timer of that key, and never a
\* stopped one: stopping and replacing a timer are one step to everybody else.
TrackedTimerIsNewest ==
    \A k \in Key : active[k] # NoTimer =>
        /\ timerKey[active[k]] = k
        /\ timer[active[k]] \in {"armed", "fired", "ran"}
        /\ \A t \in (active[k] + 1)..last : timerKey[t] # k

\* A timer that is going to fire is in the map, where Shutdown finds its rule,
\* unless a CloseRule of an older timer of its key came late and deleted the
\* key (actions.go: Shutdown "stops all pending timers, closes all active
\* rules").
ArmedTimersTracked ==
    \A t \in Timer : timer[t] = "armed" =>
        \/ active[timerKey[t]] = t
        \/ \E u \in 1..(t - 1) : timerKey[u] = timerKey[t] /\ timer[u] = "done"

InForce(r) == fw[r] > 0 /\ linked

\* When Shutdown has run the shutdown command of a template that removes or
\* unlinks its chain, and no part of that command failed, no rule is in force,
\* though the listener may have opened one between any two parts of it and the
\* commands that close single rules may have failed (actions.go: "closes all
\* active rules, and runs the shutdown command").
ExitLeavesNoRule == proc = "flushed" /\ ~ unclean => \A r \in Rule : ~ InForce(r)

\* The inductive invariant behind CloserExists.
RuleInv ==
    /\ NoDuplicateRule
    /\ CheckStillHolds
    /\ Bookkeeping
    /\ TrackedTimerIsNewest
    /\ CloserExists

\* The check does what the daemon relies on: there is one, and it fails only
\* when there is no rule.
SoundCheck == HasCheck /\ ~ CheckMayErr

\* A rule whose timer is tracked and still armed is open.  The code does not
\* give this: a CloseRule already under way closes a rule just refreshed.
TrackedRuleIsOpen ==
    proc = "up" => \A k \in Key :
        active[k] # NoTimer /\ timer[active[k]] = "armed" => fw[RuleOf[k]] > 0

\* A shutdown that has begun comes to its end, or the process is killed.
ShutdownCompletes == (proc = "stopping") ~> (proc = "down")

Windows == INSTANCE AccessWindow
    WITH up <- Running,
         window <- [r \in Rule |-> IF fw[r] = 0 THEN "closed"
                                   ELSE IF Running /\ HasCloser(r) THEN "open"
                                   ELSE "orphan"]

\* A rule the daemon is in charge of is closed again and again, or it is
\* requested again and again: each refresh stops the timer and sets a new one,
\* and a client that refreshes in time keeps its rule open without end.
RulesClose ==
    \A r \in Rule :
        \/ []<><<\E k \in Key : RuleOf[k] = r /\ Request(k)>>_vars
        \/ []<>~ (Running /\ fw[r] > 0 /\ HasCloser(r))

\* The daemon keeps the promise of AccessWindow: rules become orphans only
\* when it stops; and a rule that is requested no more does not stay open.
ImplementsAccessWindow == Windows!Spec /\ RulesClose
=============================================================================
