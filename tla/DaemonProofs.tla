---------------------------- MODULE DaemonProofs ----------------------------
(***************************************************************************)
(* Proofs about Daemon, for every number of processes, terminals, starts,  *)
(* files and ports, and all settings.                                      *)
(***************************************************************************)
EXTENDS Daemon, TLAPS

\* Init establishes the types.
LEMMA InitType == Init => TypeOK
<1> SUFFICES ASSUME Init PROVE TypeOK
  OBVIOUS
<1>1. AnyInvocation \in Invocation
  BY DaemonAssumption DEF AnyInvocation
<1>2. Idle \in CommandType
  BY DEF Idle, CommandType
<1>3. /\ cmd \in [Admin -> CommandType]
      /\ \A a \in Admin : cmd[a].pc = "idle"
  BY <1>2 DEF Init, Idle
<1>4. /\ stage \in [Pid -> DaemonStages \union {"free", "other"}]
      /\ inv \in [Pid -> Invocation]
      /\ handler \in [Pid -> {"none", "waiting", "stopping", "flushed"}]
      /\ file \in [Path -> Pid \union {Missing, Empty}]
  BY <1>1 DEF Init
<1>5. starts \in 0..MaxStarts
  BY DaemonAssumption DEF Init
<1>6. QED
  BY <1>3, <1>4, <1>5 DEF Init, TypeOK

\* The types of the commands, which Watch keeps.
CommandsOK ==
    /\ cmd \in [Admin -> CommandType]
    /\ \A a \in Admin :
          cmd[a].pc = "read" => cmd[a].path \in Path /\ cmd[a].pid \in Pid

\* Watch changes nothing of a command but what it has seen.
LEMMA WatchEffect ==
    ASSUME TypeOK, Watch
    PROVE  /\ CommandsOK'
           /\ \A a \in Admin : /\ cmd'[a].pc = cmd[a].pc /\ cmd'[a].path = cmd[a].path
                               /\ cmd'[a].pid = cmd[a].pid
                               /\ cmd[a].down => cmd'[a].down
                               /\ cmd'[a].hidden = cmd[a].hidden
                               /\ cmd[a].pc = "read" /\ ~ cmd'[a].down
                                    => cmd[a].path \notin Absent'
<1>1. ASSUME NEW a \in Admin
      PROVE  /\ cmd'[a] \in CommandType
             /\ cmd'[a].pc = cmd[a].pc /\ cmd'[a].path = cmd[a].path
             /\ cmd'[a].pid = cmd[a].pid /\ cmd'[a].hidden = cmd[a].hidden
             /\ cmd'[a].down = (cmd[a].down \/ (cmd[a].pc = "read" /\ cmd[a].path \in Absent'))
  <2> DEFINE d == cmd[a].down \/ (cmd[a].pc = "read" /\ cmd[a].path \in Absent')
  <2>1. cmd'[a] = [cmd[a] EXCEPT !.down = d]
    BY DEF Watch
  <2>2. cmd[a] \in CommandType
    BY DEF TypeOK
  <2>3. d \in BOOLEAN
    OBVIOUS
  <2> HIDE DEF d
  <2>4. /\ cmd'[a] \in CommandType
        /\ cmd'[a].pc = cmd[a].pc /\ cmd'[a].path = cmd[a].path
        /\ cmd'[a].pid = cmd[a].pid /\ cmd'[a].down = d /\ cmd'[a].hidden = cmd[a].hidden
    BY <2>1, <2>2, <2>3 DEF CommandType
  <2>5. QED
    BY <2>4 DEF d
<1>2. CommandsOK'
  <2>1. cmd' \in [Admin -> CommandType]
    BY <1>1 DEF Watch
  <2>2. QED
    BY <1>1, <2>1 DEF CommandsOK, TypeOK
<1>3. QED
  BY <1>1, <1>2

\* The types of the processes and the host.
ProcsOK ==
    /\ stage \in [Pid -> DaemonStages \union {"free", "other"}]
    /\ inv \in [Pid -> Invocation]
    /\ handler \in [Pid -> {"none", "waiting", "stopping", "flushed"}]
    /\ file \in [Path -> Pid \union {Missing, Empty}]
    /\ named \subseteq Pid /\ chan \subseteq Pid
    /\ fw \subseteq Pid \union {Nobody}
    /\ ready \in BOOLEAN
    /\ starts \in 0..MaxStarts
    /\ alone \in BOOLEAN
    /\ events \subseteq Events
    /\ \A p \in Pid : handler[p] # "none" <=> stage[p] \in {"guarded", "serving", "returning"}
    /\ \A p \in named : stage[p] \in {"named", "guarded", "serving", "returning"}
    /\ \A p \in chan : handler[p] # "none"
    /\ \A p \in fw \ {Nobody} : stage[p] \in {"serving", "returning"}

\* A signal waits in the channel, or ends a daemon that has not asked for signals.
Sent(p) ==
    /\ handler[p] # "none"
    /\ chan' = chan \union {p}
    /\ UNCHANGED <<stage, inv, named, handler, host, history>>
Ended(p) ==
    /\ IsDaemon(p) /\ handler[p] = "none"
    /\ Ends(p)
    /\ events' = events \union {"undeferred"}
    /\ UNCHANGED <<file, ready, starts, alone>>

\* Each step of a daemon preserves the types of the processes.
LEMMA StepType ==
    ASSUME ProcsOK, NEW p \in Pid, DaemonStep(p)
    PROVE  ProcsOK'
<1> USE DEF Starting, DaemonStages, Events
<1>0. AnyInvocation \in Invocation
  BY DaemonAssumption DEF AnyInvocation
<1>1. ASSUME NEW i \in Invocation, Start(p, i) PROVE ProcsOK'
  BY <1>1, DaemonAssumption DEF Start, ProcsOK, host
<1>2. CASE StartFails(p)
  BY <1>0, <1>2, DaemonAssumption DEF StartFails, ProcsOK, Ends, procs, host, history
<1>3. CASE RunInit(p)
  BY <1>0, <1>3, DaemonAssumption DEF RunInit, ProcsOK, procs, host, history
<1>4. CASE CreateFile(p)
  BY <1>0, <1>4, DaemonAssumption DEF CreateFile, ProcsOK, procs, host, history
<1>5. CASE WriteNumber(p)
  BY <1>0, <1>5, DaemonAssumption DEF WriteNumber, ProcsOK, procs, host, history
<1>6. CASE Guard(p)
  BY <1>0, <1>6, DaemonAssumption DEF Guard, ProcsOK, procs, host, history
<1>7. CASE Bind(p)
  BY <1>0, <1>7, DaemonAssumption DEF Bind, ProcsOK, procs, host, history
<1>8. CASE OpenRule(p)
  BY <1>0, <1>8, DaemonAssumption DEF OpenRule, ProcsOK, procs, host, history
<1>9. CASE CloseRules(p)
  BY <1>0, <1>9, DaemonAssumption DEF CloseRules, ProcsOK, procs, host, history
<1>10. CASE ReadFails(p)
  BY <1>0, <1>10, DaemonAssumption DEF ReadFails, ProcsOK, procs, host, history
<1>11. CASE Return(p)
  BY <1>0, <1>11, DaemonAssumption DEF Return, ProcsOK, Ends, procs, host, history
<1>12. CASE TakeSignal(p)
  BY <1>0, <1>12, DaemonAssumption DEF TakeSignal, ProcsOK, procs, host, history
<1>13. CASE Flush(p)
  BY <1>0, <1>13, DaemonAssumption DEF Flush, ProcsOK, procs, host, history
<1>14. CASE Exit(p)
  BY <1>0, <1>14, DaemonAssumption DEF Exit, ProcsOK, Ends, procs, host, history
<1>15. CASE OtherStarts(p)
  BY <1>0, <1>15, DaemonAssumption DEF OtherStarts, ProcsOK, procs, host, history
<1>16. CASE OtherEnds(p)
  BY <1>0, <1>16, DaemonAssumption DEF OtherEnds, ProcsOK, procs, host, history
<1>17. CASE Kill(p)
  BY <1>0, <1>17, DaemonAssumption DEF Kill, Ends, ProcsOK, procs, host, history
<1>18. CASE SystemSignals(p)
  <2>1. CASE Sent(p)
    BY <1>0, <2>1, DaemonAssumption DEF Sent, ProcsOK, procs, host, history
  <2>2. CASE Ended(p)
    BY <1>0, <2>2, DaemonAssumption DEF Ended, Ends, ProcsOK, procs, host, history
  <2>3. QED
    BY <1>18, <2>1, <2>2 DEF SystemSignals, Deliver, Sent, Ended
<1>19. QED
  BY <1>1, <1>2, <1>3, <1>4, <1>5, <1>6, <1>7, <1>8, <1>9, <1>10, <1>11, <1>12, <1>13,
       <1>14, <1>15, <1>16, <1>17, <1>18 DEF DaemonStep

-----------------------------------------------------------------------------
(* The inductive invariant *)

\* While no two daemons have overlapped, there is at most one.
Single ==
    alone => \A p, q \in Pid : IsDaemon(p) /\ IsDaemon(q) => p = q

\* Only a daemon in the background writes a PID file.
NamedBackground ==
    \A p \in Pid : p \in named \/ stage[p] = "created" => ~ Foreground(inv[p])

\* StaleExplained, with the daemon that emptied the file: it is past that step
\* and will remove the file when it returns.
Creator(p) ==
    /\ stage[p] \in {"created", "named", "guarded", "serving", "returning"}
    /\ ~ Foreground(inv[p])
StaleCause ==
    \A f \in Path :
        \/ file[f] = Missing
        \/ \E p \in named : file[f] = p /\ PathOf(inv[p]) = f
        \/ file[f] = Empty /\ \E p \in Pid : Creator(p) /\ PathOf(inv[p]) = f
        \/ "undeferred" \in events

\* After a Shutdown that took the chain away there is none, and no rule, until
\* the next init command.
FlushedEmpty ==
    alone /\ "unflushed" \notin events => \A p \in Pid : handler[p] = "flushed" => ~ ready /\ fw = {}

\* A daemon returns because a read failed or its port was taken.
ReturnsExplained ==
    alone /\ "unflushed" \notin events => \A p \in Pid : stage[p] # "returning"

\* A command that has seen a daemon serve all the time holds the number of that
\* daemon, unless it has not written the file, and does not say no.
Sees(c) ==
    /\ c.pc = "read" /\ ~ c.down => Up(c.path)
    /\ c.pc = "read" /\ ~ c.down /\ ~ Hidden(c.path) =>
           /\ c.pid \in named /\ stage[c.pid] = "serving"
           /\ PathOf(inv[c.pid]) = c.path
    /\ c.pc = "no" => c.down \/ c.hidden
CommandSees == alone => \A a \in Admin : Sees(cmd[a])

IInv ==
    /\ TypeOK
    /\ Single
    /\ NamedBackground
    /\ StaleCause
    /\ FileNamesServer
    /\ FlushedEmpty
    /\ ReturnsExplained
    /\ OrphansExplained
    /\ CommandSees

-----------------------------------------------------------------------------
(* What a step of a daemon does to the rest of the system *)

\* A step of one process leaves what the others have.
LEMMA Others ==
    ASSUME TypeOK, NEW p \in Pid, DaemonStep(p), NEW q \in Pid, q # p
    PROVE  /\ stage'[q] = stage[q] /\ inv'[q] = inv[q] /\ handler'[q] = handler[q]
           /\ (q \in named' <=> q \in named)
<1> DEFINE Same == /\ stage'[q] = stage[q] /\ inv'[q] = inv[q] /\ handler'[q] = handler[q]
                  /\ (q \in named' <=> q \in named)
<1> USE DEF TypeOK, procs, host, history
<1>1. ASSUME NEW i \in Invocation, Start(p, i) PROVE Same
  BY <1>1 DEF Start
<1>2. CASE StartFails(p)
  BY <1>2 DEF StartFails, Ends
<1>3. CASE RunInit(p)
  BY <1>3 DEF RunInit
<1>4. CASE CreateFile(p)
  BY <1>4 DEF CreateFile
<1>5. CASE WriteNumber(p)
  BY <1>5 DEF WriteNumber
<1>6. CASE Guard(p)
  BY <1>6 DEF Guard
<1>7. CASE Bind(p)
  BY <1>7 DEF Bind
<1>8. CASE OpenRule(p)
  BY <1>8 DEF OpenRule
<1>9. CASE CloseRules(p)
  BY <1>9 DEF CloseRules
<1>10. CASE ReadFails(p)
  BY <1>10 DEF ReadFails
<1>11. CASE Return(p)
  BY <1>11 DEF Return, Ends
<1>12. CASE TakeSignal(p)
  BY <1>12 DEF TakeSignal
<1>13. CASE Flush(p)
  BY <1>13 DEF Flush
<1>14. CASE Exit(p)
  BY <1>14 DEF Exit, Ends
<1>15. CASE OtherStarts(p)
  BY <1>15 DEF OtherStarts
<1>16. CASE OtherEnds(p)
  BY <1>16 DEF OtherEnds
<1>17. CASE Kill(p)
  BY <1>17 DEF Kill, Ends
<1>18. CASE SystemSignals(p)
  <2>1. CASE Sent(p)
    BY <2>1 DEF Sent
  <2>2. CASE Ended(p)
    BY <2>2 DEF Ended, Ends
  <2>3. QED
    BY <1>18, <2>1, <2>2 DEF SystemSignals, Deliver, Sent, Ended
<1>19. QED
  BY <1>1, <1>2, <1>3, <1>4, <1>5, <1>6, <1>7, <1>8, <1>9, <1>10, <1>11, <1>12, <1>13,
       <1>14, <1>15, <1>16, <1>17, <1>18 DEF DaemonStep

\* TypeOK is the types of the processes and those of the commands.
LEMMA Types == TypeOK <=> ProcsOK /\ CommandsOK
BY DEF TypeOK, ProcsOK, CommandsOK

\* A step of a daemon preserves the types.
LEMMA StepProcs ==
    ASSUME TypeOK, NEW p \in Pid, DaemonStep(p)
    PROVE  ProcsOK'
BY Types, StepType

\* At most one daemon, as long as none overlap.
LEMMA StepSingle ==
    ASSUME IInv, NEW p \in Pid, DaemonStep(p)
    PROVE  Single'
<1> USE DEF procs, host, history, TypeOK, IInv, Single, IsDaemon, Starting, DaemonStages
<1>1. ASSUME NEW i \in Invocation, Start(p, i) PROVE Single'
  <2>1. SUFFICES ASSUME alone', NEW q1 \in Pid, NEW q2 \in Pid,
                        IsDaemon(q1)', IsDaemon(q2)'
                 PROVE  q1 = p /\ q2 = p
    BY DEF Single
  <2>2. \A q \in Pid : q # p => (IsDaemon(q)' <=> IsDaemon(q))
    BY <1>1 DEF Start
  <2>3. \A q \in Pid : ~ IsDaemon(q)
    BY <1>1, <2>1 DEF Start
  <2>4. QED
    BY <2>1, <2>2, <2>3
<1>2. CASE StartFails(p)
  BY <1>2 DEF StartFails, Ends
<1>3. CASE RunInit(p)
  BY <1>3 DEF RunInit
<1>4. CASE CreateFile(p)
  BY <1>4 DEF CreateFile
<1>5. CASE WriteNumber(p)
  BY <1>5 DEF WriteNumber
<1>6. CASE Guard(p)
  BY <1>6 DEF Guard
<1>7. CASE Bind(p)
  BY <1>7 DEF Bind
<1>8. CASE OpenRule(p)
  BY <1>8 DEF OpenRule
<1>9. CASE CloseRules(p)
  BY <1>9 DEF CloseRules
<1>10. CASE ReadFails(p)
  BY <1>10 DEF ReadFails
<1>11. CASE Return(p)
  BY <1>11 DEF Return, Ends
<1>12. CASE TakeSignal(p)
  BY <1>12 DEF TakeSignal
<1>13. CASE Flush(p)
  BY <1>13 DEF Flush
<1>14. CASE Exit(p)
  BY <1>14 DEF Exit, Ends
<1>15. CASE OtherStarts(p)
  BY <1>15 DEF OtherStarts
<1>16. CASE OtherEnds(p)
  BY <1>16 DEF OtherEnds
<1>17. CASE Kill(p)
  BY <1>17 DEF Kill, Ends
<1>18. CASE SystemSignals(p)
  <2>1. CASE Sent(p)
    BY <2>1 DEF Sent
  <2>2. CASE Ended(p)
    BY <2>2 DEF Ended, Ends
  <2>3. QED
    BY <1>18, <2>1, <2>2 DEF SystemSignals, Deliver, Sent, Ended
<1>19. QED
  BY <1>1, <1>2, <1>3, <1>4, <1>5, <1>6, <1>7, <1>8, <1>9, <1>10, <1>11, <1>12, <1>13,
       <1>14, <1>15, <1>16, <1>17, <1>18 DEF DaemonStep

\* Named daemons are in the background.
LEMMA StepBackground ==
    ASSUME IInv, NEW p \in Pid, DaemonStep(p)
    PROVE  NamedBackground'
<1> USE DEF procs, host, history, TypeOK, IInv, NamedBackground
<1>1. ASSUME NEW i \in Invocation, Start(p, i) PROVE NamedBackground'
  BY <1>1 DEF Start
<1>2. CASE StartFails(p)
  BY <1>2 DEF StartFails, Ends
<1>3. CASE RunInit(p)
  BY <1>3 DEF RunInit
<1>4. CASE CreateFile(p)
  BY <1>4 DEF CreateFile
<1>5. CASE WriteNumber(p)
  BY <1>5 DEF WriteNumber
<1>6. CASE Guard(p)
  BY <1>6 DEF Guard
<1>7. CASE Bind(p)
  BY <1>7 DEF Bind
<1>8. CASE OpenRule(p)
  BY <1>8 DEF OpenRule
<1>9. CASE CloseRules(p)
  BY <1>9 DEF CloseRules
<1>10. CASE ReadFails(p)
  BY <1>10 DEF ReadFails
<1>11. CASE Return(p)
  BY <1>11 DEF Return, Ends
<1>12. CASE TakeSignal(p)
  BY <1>12 DEF TakeSignal
<1>13. CASE Flush(p)
  BY <1>13 DEF Flush
<1>14. CASE Exit(p)
  BY <1>14 DEF Exit, Ends
<1>15. CASE OtherStarts(p)
  BY <1>15 DEF OtherStarts
<1>16. CASE OtherEnds(p)
  BY <1>16 DEF OtherEnds
<1>17. CASE Kill(p)
  BY <1>17 DEF Kill, Ends
<1>18. CASE SystemSignals(p)
  <2>1. CASE Sent(p)
    BY <2>1 DEF Sent
  <2>2. CASE Ended(p)
    BY <2>2 DEF Ended, Ends
  <2>3. QED
    BY <1>18, <2>1, <2>2 DEF SystemSignals, Deliver, Sent, Ended
<1>19. QED
  BY <1>1, <1>2, <1>3, <1>4, <1>5, <1>6, <1>7, <1>8, <1>9, <1>10, <1>11, <1>12, <1>13,
       <1>14, <1>15, <1>16, <1>17, <1>18 DEF DaemonStep

\* Each file still names a live daemon, or nobody, or a signal explains it.
LEMMA StepStale ==
    ASSUME IInv, NEW p \in Pid, DaemonStep(p)
    PROVE  StaleCause'
<1> USE DEF procs, host, history, TypeOK, IInv, StaleCause, NamedBackground, Creator
<1>1. ASSUME NEW i \in Invocation, Start(p, i) PROVE StaleCause'
  BY <1>1 DEF Start
<1>2. CASE StartFails(p)
  BY <1>2 DEF StartFails, Ends
<1>3. CASE RunInit(p)
  BY <1>3 DEF RunInit
<1>4. CASE CreateFile(p)
  BY <1>4 DEF CreateFile
<1>5. CASE WriteNumber(p)
  BY <1>5 DEF WriteNumber
<1>6. CASE Guard(p)
  BY <1>6 DEF Guard
<1>7. CASE Bind(p)
  BY <1>7 DEF Bind
<1>8. CASE OpenRule(p)
  BY <1>8 DEF OpenRule
<1>9. CASE CloseRules(p)
  BY <1>9 DEF CloseRules
<1>10. CASE ReadFails(p)
  BY <1>10 DEF ReadFails
<1>11. CASE Return(p)
  BY <1>11 DEF Return, Ends
<1>12. CASE TakeSignal(p)
  BY <1>12 DEF TakeSignal
<1>13. CASE Flush(p)
  BY <1>13 DEF Flush
<1>14. CASE Exit(p)
  BY <1>14 DEF Exit, Ends
<1>15. CASE OtherStarts(p)
  BY <1>15 DEF OtherStarts
<1>16. CASE OtherEnds(p)
  BY <1>16 DEF OtherEnds
<1>17. CASE Kill(p)
  BY <1>17 DEF Kill, Ends, Events
<1>18. CASE SystemSignals(p)
  <2>1. CASE Sent(p)
    BY <2>1 DEF Sent
  <2>2. CASE Ended(p)
    BY <2>2 DEF Ended, Ends
  <2>3. QED
    BY <1>18, <2>1, <2>2 DEF SystemSignals, Deliver, Sent, Ended
<1>19. QED
  BY <1>1, <1>2, <1>3, <1>4, <1>5, <1>6, <1>7, <1>8, <1>9, <1>10, <1>11, <1>12, <1>13,
       <1>14, <1>15, <1>16, <1>17, <1>18 DEF DaemonStep

\* The file of a named daemon still names it.
LEMMA StepNames ==
    ASSUME IInv, NEW p \in Pid, DaemonStep(p)
    PROVE  FileNamesServer'
<1> USE DEF procs, host, history, TypeOK, IInv, FileNamesServer, Single, IsDaemon,
     Starting, DaemonStages
<1>1. ASSUME NEW i \in Invocation, Start(p, i) PROVE FileNamesServer'
  BY <1>1 DEF Start
<1>2. CASE StartFails(p)
  BY <1>2 DEF StartFails, Ends
<1>3. CASE RunInit(p)
  BY <1>3 DEF RunInit
<1>4. CASE CreateFile(p)
  <2>1. SUFFICES ASSUME alone', NEW q \in named', file'[PathOf(inv'[q])] # q PROVE FALSE
    BY DEF FileNamesServer
  <2>2. q \in named /\ inv'[q] = inv[q] /\ alone /\ IsDaemon(q) /\ IsDaemon(p)
    BY <1>4, <2>1 DEF CreateFile
  <2>3. q # p
    BY <1>4, <2>2 DEF CreateFile
  <2>4. QED
    BY <2>2, <2>3
<1>5. CASE WriteNumber(p)
  <2>1. IsDaemon(p) /\ file \in [Path -> Pid \union {Missing, Empty}]
        /\ PathOf(inv[p]) \in Path /\ inv' = inv
    BY <1>5, DaemonAssumption DEF WriteNumber
  <2>2. SUFFICES ASSUME alone', NEW q \in named' PROVE file'[PathOf(inv[q])] = q
    BY <2>1 DEF FileNamesServer
  <2>3. CASE q \in named
    <3>1. q = p
      BY <1>5, <2>1, <2>2, <2>3 DEF WriteNumber
    <3>2. QED
      BY <1>5, <2>1, <2>2, <2>3, <3>1 DEF WriteNumber
  <2>4. CASE q \notin named
    BY <1>5, <2>1, <2>2, <2>4 DEF WriteNumber
  <2>5. QED
    BY <2>3, <2>4
<1>6. CASE Guard(p)
  BY <1>6 DEF Guard
<1>7. CASE Bind(p)
  BY <1>7 DEF Bind
<1>8. CASE OpenRule(p)
  BY <1>8 DEF OpenRule
<1>9. CASE CloseRules(p)
  BY <1>9 DEF CloseRules
<1>10. CASE ReadFails(p)
  BY <1>10 DEF ReadFails
<1>11. CASE Return(p)
  BY <1>11 DEF Return, Ends
<1>12. CASE TakeSignal(p)
  BY <1>12 DEF TakeSignal
<1>13. CASE Flush(p)
  BY <1>13 DEF Flush
<1>14. CASE Exit(p)
  BY <1>14 DEF Exit, Ends
<1>15. CASE OtherStarts(p)
  BY <1>15 DEF OtherStarts
<1>16. CASE OtherEnds(p)
  BY <1>16 DEF OtherEnds
<1>17. CASE Kill(p)
  BY <1>17 DEF Kill, Ends
<1>18. CASE SystemSignals(p)
  <2>1. CASE Sent(p)
    BY <2>1 DEF Sent
  <2>2. CASE Ended(p)
    BY <2>2 DEF Ended, Ends
  <2>3. QED
    BY <1>18, <2>1, <2>2 DEF SystemSignals, Deliver, Sent, Ended
<1>19. QED
  BY <1>1, <1>2, <1>3, <1>4, <1>5, <1>6, <1>7, <1>8, <1>9, <1>10, <1>11, <1>12, <1>13,
       <1>14, <1>15, <1>16, <1>17, <1>18 DEF DaemonStep

\* What Shutdown has removed stays away.
LEMMA StepFlushed ==
    ASSUME IInv, NEW p \in Pid, DaemonStep(p)
    PROVE  FlushedEmpty'
<1> USE DEF procs, host, history, TypeOK, IInv, FlushedEmpty, Single, IsDaemon,
     Starting, DaemonStages
<1>1. ASSUME NEW i \in Invocation, Start(p, i) PROVE FlushedEmpty'
  BY <1>1 DEF Start
<1>2. CASE StartFails(p)
  BY <1>2 DEF StartFails, Ends
<1>3. CASE RunInit(p)
  BY <1>3 DEF RunInit
<1>4. CASE CreateFile(p)
  BY <1>4 DEF CreateFile
<1>5. CASE WriteNumber(p)
  BY <1>5 DEF WriteNumber
<1>6. CASE Guard(p)
  BY <1>6 DEF Guard
<1>7. CASE Bind(p)
  BY <1>7 DEF Bind
<1>8. CASE OpenRule(p)
  BY <1>8 DEF OpenRule
<1>9. CASE CloseRules(p)
  BY <1>9 DEF CloseRules
<1>10. CASE ReadFails(p)
  BY <1>10 DEF ReadFails
<1>11. CASE Return(p)
  BY <1>11 DEF Return, Ends
<1>12. CASE TakeSignal(p)
  BY <1>12 DEF TakeSignal
<1>13. CASE Flush(p)
  BY <1>13 DEF Flush
<1>14. CASE Exit(p)
  BY <1>14 DEF Exit, Ends
<1>15. CASE OtherStarts(p)
  BY <1>15 DEF OtherStarts
<1>16. CASE OtherEnds(p)
  BY <1>16 DEF OtherEnds
<1>17. CASE Kill(p)
  BY <1>17 DEF Kill, Ends
<1>18. CASE SystemSignals(p)
  <2>1. CASE Sent(p)
    BY <2>1 DEF Sent
  <2>2. CASE Ended(p)
    BY <2>2 DEF Ended, Ends
  <2>3. QED
    BY <1>18, <2>1, <2>2 DEF SystemSignals, Deliver, Sent, Ended
<1>19. QED
  BY <1>1, <1>2, <1>3, <1>4, <1>5, <1>6, <1>7, <1>8, <1>9, <1>10, <1>11, <1>12, <1>13,
       <1>14, <1>15, <1>16, <1>17, <1>18 DEF DaemonStep

\* A return is still explained.
LEMMA StepReturns ==
    ASSUME IInv, NEW p \in Pid, DaemonStep(p)
    PROVE  ReturnsExplained'
<1> USE DEF procs, host, history, TypeOK, IInv, ReturnsExplained, Single, IsDaemon,
     Starting, DaemonStages
<1>1. ASSUME NEW i \in Invocation, Start(p, i) PROVE ReturnsExplained'
  BY <1>1 DEF Start
<1>2. CASE StartFails(p)
  BY <1>2 DEF StartFails, Ends
<1>3. CASE RunInit(p)
  BY <1>3 DEF RunInit
<1>4. CASE CreateFile(p)
  BY <1>4 DEF CreateFile
<1>5. CASE WriteNumber(p)
  BY <1>5 DEF WriteNumber
<1>6. CASE Guard(p)
  BY <1>6 DEF Guard
<1>7. CASE Bind(p)
  BY <1>7 DEF Bind
<1>8. CASE OpenRule(p)
  BY <1>8 DEF OpenRule
<1>9. CASE CloseRules(p)
  BY <1>9 DEF CloseRules
<1>10. CASE ReadFails(p)
  BY <1>10 DEF ReadFails
<1>11. CASE Return(p)
  BY <1>11 DEF Return, Ends
<1>12. CASE TakeSignal(p)
  BY <1>12 DEF TakeSignal
<1>13. CASE Flush(p)
  BY <1>13 DEF Flush
<1>14. CASE Exit(p)
  BY <1>14 DEF Exit, Ends
<1>15. CASE OtherStarts(p)
  BY <1>15 DEF OtherStarts
<1>16. CASE OtherEnds(p)
  BY <1>16 DEF OtherEnds
<1>17. CASE Kill(p)
  BY <1>17 DEF Kill, Ends
<1>18. CASE SystemSignals(p)
  <2>1. CASE Sent(p)
    BY <2>1 DEF Sent
  <2>2. CASE Ended(p)
    BY <2>2 DEF Ended, Ends
  <2>3. QED
    BY <1>18, <2>1, <2>2 DEF SystemSignals, Deliver, Sent, Ended
<1>19. QED
  BY <1>1, <1>2, <1>3, <1>4, <1>5, <1>6, <1>7, <1>8, <1>9, <1>10, <1>11, <1>12, <1>13,
       <1>14, <1>15, <1>16, <1>17, <1>18 DEF DaemonStep

\* Rules nobody tracks are still explained.
LEMMA StepOrphans ==
    ASSUME IInv, NEW p \in Pid, DaemonStep(p)
    PROVE  OrphansExplained'
<1> USE DEF procs, host, history, TypeOK, IInv, OrphansExplained, ReturnsExplained,
     FlushedEmpty, Single, IsDaemon, Starting, DaemonStages
<1>1. ASSUME NEW i \in Invocation, Start(p, i) PROVE OrphansExplained'
  BY <1>1 DEF Start
<1>2. CASE StartFails(p)
  BY <1>2 DEF StartFails, Ends
<1>3. CASE RunInit(p)
  BY <1>3 DEF RunInit
<1>4. CASE CreateFile(p)
  BY <1>4 DEF CreateFile
<1>5. CASE WriteNumber(p)
  BY <1>5 DEF WriteNumber
<1>6. CASE Guard(p)
  BY <1>6 DEF Guard
<1>7. CASE Bind(p)
  BY <1>7 DEF Bind
<1>8. CASE OpenRule(p)
  BY <1>8, DaemonAssumption DEF OpenRule
<1>9. CASE CloseRules(p)
  BY <1>9 DEF CloseRules
<1>10. CASE ReadFails(p)
  BY <1>10 DEF ReadFails
<1>11. CASE Return(p)
  BY <1>11 DEF Return, Ends
<1>12. CASE TakeSignal(p)
  BY <1>12 DEF TakeSignal
<1>13. CASE Flush(p)
  BY <1>13 DEF Flush
<1>14. CASE Exit(p)
  BY <1>14 DEF Exit, Ends
<1>15. CASE OtherStarts(p)
  BY <1>15 DEF OtherStarts
<1>16. CASE OtherEnds(p)
  BY <1>16 DEF OtherEnds
<1>17. CASE Kill(p)
  BY <1>17 DEF Kill, Ends, Events
<1>18. CASE SystemSignals(p)
  <2>1. CASE Sent(p)
    BY <2>1 DEF Sent
  <2>2. CASE Ended(p)
    BY <2>2 DEF Ended, Ends
  <2>3. QED
    BY <1>18, <2>1, <2>2 DEF SystemSignals, Deliver, Sent, Ended
<1>19. QED
  BY <1>1, <1>2, <1>3, <1>4, <1>5, <1>6, <1>7, <1>8, <1>9, <1>10, <1>11, <1>12, <1>13,
       <1>14, <1>15, <1>16, <1>17, <1>18 DEF DaemonStep

\* A daemon that goes on serving keeps its settings, and its PID file or none.
LEMMA ServingKeeps ==
    ASSUME TypeOK, NEW p \in Pid, DaemonStep(p), NEW q \in Pid,
           stage[q] = "serving", stage'[q] = "serving"
    PROVE  inv'[q] = inv[q] /\ (q \in named' <=> q \in named)
<1>1. CASE q # p
  BY <1>1, Others
<1>2. CASE q = p
  <2> USE DEF TypeOK, procs, host, history
  <2>1. ~ \E i \in Invocation : Start(p, i)
    BY <1>2 DEF Start
  <2>2. ~ (StartFails(p) \/ RunInit(p) \/ CreateFile(p) \/ WriteNumber(p) \/ Guard(p)
            \/ Bind(p) \/ OtherStarts(p) \/ OtherEnds(p))
    BY <1>2 DEF StartFails, RunInit, CreateFile, WriteNumber, Guard, Bind, OtherStarts,
                OtherEnds
  <2>3. ~ (Return(p) \/ Exit(p) \/ Kill(p))
    BY <1>2 DEF Return, Exit, Kill, Ends
  <2>4. CASE OpenRule(p) \/ CloseRules(p) \/ ReadFails(p) \/ TakeSignal(p) \/ Flush(p)
    BY <1>2, <2>4 DEF OpenRule, CloseRules, ReadFails, TakeSignal, Flush
  <2>5. CASE SystemSignals(p)
    BY <1>2, <2>5 DEF SystemSignals, Deliver, Ends
  <2>6. QED
    BY <2>1, <2>2, <2>3, <2>4, <2>5 DEF DaemonStep
<1>3. QED
  BY <1>1, <1>2

\* What a command has seen stays true while daemons take steps.
LEMMA StepSees ==
    ASSUME IInv, NEW p \in Pid, DaemonStep(p), Watch, Single', alone', NEW a \in Admin
    PROVE  Sees(cmd[a])'
<1>1. alone
  BY DEF DaemonStep, Start, StartFails, RunInit, CreateFile, WriteNumber, Guard, Bind,
         OpenRule, CloseRules, ReadFails, Return, TakeSignal, Flush, Exit, Kill,
         SystemSignals, Deliver, OtherStarts, OtherEnds, history
<1>2. /\ cmd'[a].pc = cmd[a].pc /\ cmd'[a].path = cmd[a].path
      /\ cmd'[a].pid = cmd[a].pid /\ cmd'[a].hidden = cmd[a].hidden
      /\ cmd[a].down => cmd'[a].down
      /\ cmd[a].pc = "read" /\ ~ cmd'[a].down => cmd[a].path \notin Absent'
  BY WatchEffect DEF IInv
<1>3. Sees(cmd[a])
  BY <1>1 DEF IInv, CommandSees
<1>4. cmd'[a].pc = "no" => cmd'[a].down \/ cmd'[a].hidden
  BY <1>2, <1>3 DEF Sees
<1>5. ASSUME cmd'[a].pc = "read", ~ cmd'[a].down
      PROVE  \E r \in Pid : stage'[r] = "serving" /\ PathOf(inv'[r]) = cmd[a].path
  BY <1>2, <1>5 DEF IInv, TypeOK, Absent, Up
<1>6. cmd'[a].pc = "read" /\ ~ cmd'[a].down => Up(cmd[a].path)'
  BY <1>2, <1>5 DEF Up
<1>7. ASSUME cmd'[a].pc = "read", ~ cmd'[a].down, ~ Hidden(cmd[a].path)'
      PROVE  /\ cmd'[a].pid \in named' /\ stage'[cmd'[a].pid] = "serving"
             /\ PathOf(inv'[cmd'[a].pid]) = cmd'[a].path
  <2>1. PICK r \in Pid : stage'[r] = "serving" /\ PathOf(inv'[r]) = cmd[a].path
    BY <1>5, <1>7
  <2>2. r \in named'
    BY <1>2, <1>7, <2>1 DEF Hidden
  <2>3. PICK q \in Pid : stage[q] = "serving" /\ PathOf(inv[q]) = cmd[a].path
    BY <1>2, <1>3, <1>7 DEF Sees, Up
  <2>4. q = r
    <3>1. CASE q = p
      <4>1. r # p => stage[r] = "serving"
        BY <2>1, Others DEF IInv
      <4>2. QED
        BY <1>1, <2>3, <3>1, <4>1 DEF IInv, Single, IsDaemon, DaemonStages
    <3>2. CASE q # p
      <4>1. stage'[q] = "serving"
        BY <2>3, <3>2, Others DEF IInv
      <4>2. QED
        BY <2>1, <4>1 DEF Single, IsDaemon, DaemonStages
    <3>3. QED
      BY <3>1, <3>2
  <2>5. q \in named
    BY <2>1, <2>2, <2>3, <2>4, ServingKeeps DEF IInv
  <2>6. ~ Hidden(cmd[a].path)
    <3>1. \A o \in Pid : stage[o] = "serving" => o = q
      BY <1>1, <2>3 DEF IInv, Single, IsDaemon, DaemonStages
    <3>2. QED
      BY <2>5, <3>1 DEF Hidden
  <2>7. cmd[a].pid \in named /\ stage[cmd[a].pid] = "serving"
    BY <1>2, <1>3, <1>7, <2>6 DEF Sees
  <2>8. cmd[a].pid = q
    BY <1>1, <2>3, <2>7 DEF IInv, TypeOK, Single, IsDaemon, DaemonStages
  <2>9. QED
    BY <1>2, <2>1, <2>2, <2>4, <2>8
<1>8. QED
  BY <1>2, <1>4, <1>6, <1>7 DEF Sees

-----------------------------------------------------------------------------
(* What a command does *)

\* A command leaves the processes alone, or a process gets a signal of it.
LEMMA CommandEffect ==
    ASSUME TypeOK, NEW a \in Admin, Command(a)
    PROVE  UNCHANGED <<procs, host, history>> \/ \E p \in Pid : Deliver(p)
<1>1. CASE Signal(a)
  BY <1>1 DEF Signal, TypeOK
<1>2. CASE ~ Signal(a)
  BY <1>2 DEF Command, ReadFile, SaysNo, SaysRunning, Answered
<1>3. QED
  BY <1>1, <1>2

\* Everything but what is said of commands.
Parts ==
    /\ Single /\ NamedBackground /\ StaleCause /\ FileNamesServer
    /\ FlushedEmpty /\ ReturnsExplained /\ OrphansExplained

\* So it preserves the parts that are not about commands, as systemd's signals do.
LEMMA CommandParts ==
    ASSUME IInv, NEW a \in Admin, Command(a)
    PROVE  ProcsOK' /\ Parts'
<1>0. ProcsOK /\ Parts
  BY Types DEF IInv, Parts
<1>1. CASE UNCHANGED <<procs, host, history>>
  <2> USE DEF procs, host, history
  <2>1. ProcsOK'
    BY <1>0, <1>1 DEF ProcsOK
  <2>2. Parts'
    BY <1>0, <1>1 DEF Parts, Single, NamedBackground, StaleCause, Creator, FileNamesServer,
                     FlushedEmpty, ReturnsExplained, OrphansExplained, IsDaemon
  <2>3. QED
    BY <2>1, <2>2
<1>2. ASSUME NEW p \in Pid, Deliver(p) PROVE ProcsOK' /\ Parts'
  <2>1. DaemonStep(p)
    BY <1>2 DEF DaemonStep, SystemSignals
  <2>2. QED
    BY <2>1, StepProcs, StepSingle, StepBackground, StepStale, StepNames, StepFlushed,
       StepReturns, StepOrphans DEF IInv, Parts
<1>3. QED
  BY <1>1, <1>2, CommandEffect DEF IInv

\* A command changes nothing about the daemons that serve.
LEMMA CommandUp ==
    ASSUME TypeOK, NEW a \in Admin, Command(a)
    PROVE  /\ \A q \in Pid :
                 /\ stage'[q] = "serving" <=> stage[q] = "serving"
                 /\ stage[q] = "serving" =>
                        inv'[q] = inv[q] /\ (q \in named' <=> q \in named)
           /\ alone' = alone
           /\ file' = file
<1> DEFINE Same == /\ \A q \in Pid :
                        /\ stage'[q] = "serving" <=> stage[q] = "serving"
                        /\ stage[q] = "serving" =>
                               inv'[q] = inv[q] /\ (q \in named' <=> q \in named)
                   /\ alone' = alone
                   /\ file' = file
<1>1. CASE UNCHANGED <<procs, host, history>>
  BY <1>1 DEF procs, host, history
<1>2. ASSUME NEW p \in Pid, Deliver(p) PROVE Same
  <2>1. CASE UNCHANGED <<stage, inv, named, handler, host, history>>
    BY <2>1 DEF host, history
  <2>2. CASE handler[p] = "none" /\ Ends(p) /\ UNCHANGED <<file, ready, starts, alone>>
    BY <2>2 DEF Ends, TypeOK
  <2>3. QED
    BY <1>2, <2>1, <2>2 DEF Deliver
<1>3. QED
  BY <1>1, <1>2, CommandEffect

\* What a command reports when it finds nobody.
LEMMA DenialIs ==
    ASSUME NEW path, NEW d \in BOOLEAN
    PROVE  /\ Denial(path, d) \in CommandType
           /\ Denial(path, d).pc = "no" /\ Denial(path, d).down = d
           /\ Denial(path, d).hidden <=> Hidden(path)
<1> DEFINE h == Hidden(path)
<1>1. h \in BOOLEAN
  BY DEF Hidden
<1>2. Denial(path, d) = [Idle EXCEPT !.pc = "no", !.down = d, !.hidden = h]
  BY DEF Denial
<1> HIDE DEF h
<1>3. /\ Denial(path, d) \in CommandType
      /\ Denial(path, d).pc = "no" /\ Denial(path, d).down = d
      /\ Denial(path, d).hidden = h
  BY <1>1, <1>2 DEF Idle, CommandType
<1>4. QED
  BY <1>3 DEF h

\* What a command knows when it has read a number.
Reading(i) ==
    [pc |-> "read", mode |-> ModeOf(Conf(i)), path |-> PathOf(i),
     pid |-> file[PathOf(i)], down |-> ~ Up(PathOf(i)), hidden |-> FALSE]

LEMMA ReadingIs ==
    ASSUME TypeOK, NEW i \in Invocation, Asks(i), file[PathOf(i)] \in Pid
    PROVE  /\ Reading(i) \in CommandType
           /\ Reading(i).pc = "read" /\ Reading(i).path = PathOf(i)
           /\ Reading(i).pid = file[PathOf(i)]
           /\ Reading(i).down <=> ~ Up(PathOf(i))
<1> DEFINE d == ~ Up(PathOf(i))
          m == ModeOf(Conf(i))
<1>1. d \in BOOLEAN /\ m \in {"status", "kill", "restart"} /\ PathOf(i) \in Path
  BY DaemonAssumption DEF Up, Asks
<1>2. Reading(i) = [pc |-> "read", mode |-> m, path |-> PathOf(i),
                    pid |-> file[PathOf(i)], down |-> d, hidden |-> FALSE]
  BY DEF Reading
<1> HIDE DEF d, m
<1>3. /\ Reading(i) \in CommandType
      /\ Reading(i).pc = "read" /\ Reading(i).path = PathOf(i)
      /\ Reading(i).pid = file[PathOf(i)] /\ Reading(i).down = d
  BY <1>1, <1>2 DEF CommandType
<1>4. QED
  BY <1>3 DEF d

\* A command keeps its types.
LEMMA CommandTypes ==
    ASSUME TypeOK, NEW a \in Admin, Command(a)
    PROVE  CommandsOK'
<1>0. /\ cmd \in [Admin -> CommandType]
      /\ \A b \in Admin :
            cmd[b].pc = "read" => cmd[b].path \in Path /\ cmd[b].pid \in Pid
  BY DEF TypeOK
<1>1. ASSUME NEW c \in CommandType, cmd' = [cmd EXCEPT ![a] = c],
             c.pc = "read" => c.path \in Path /\ c.pid \in Pid
      PROVE  CommandsOK'
  BY <1>0, <1>1 DEF CommandsOK
<1>2. ASSUME NEW i \in Invocation, ReadFile(a, i) PROVE CommandsOK'
  <2>0. PathOf(i) \in Path /\ Asks(i)
    BY <1>2, DaemonAssumption DEF ReadFile
  <2>1. CASE file[PathOf(i)] \in Pid
    <3>1. cmd' = [cmd EXCEPT ![a] = Reading(i)]
      BY <1>2, <2>1 DEF ReadFile, Reading
    <3>2. QED
      BY <1>1, <2>0, <2>1, <3>1, ReadingIs
  <2>2. CASE file[PathOf(i)] \notin Pid
    <3> DEFINE d == ~ Up(PathOf(i))
    <3>1. d \in BOOLEAN
      BY DEF Up
    <3>2. cmd' = [cmd EXCEPT ![a] = Denial(PathOf(i), d)]
      BY <1>2, <2>2 DEF ReadFile
    <3> HIDE DEF d
    <3>3. QED
      BY <1>1, <3>1, <3>2, DenialIs
  <2>3. QED
    BY <2>1, <2>2
<1>3. CASE SaysNo(a)
  <2>1. cmd[a].down \in BOOLEAN
    BY <1>0 DEF CommandType
  <2>2. QED
    BY <1>1, <1>3, <2>1, DenialIs DEF SaysNo
<1>4. CASE SaysRunning(a) \/ Signal(a) \/ Answered(a)
  <2>1. cmd' = [cmd EXCEPT ![a] = Idle]
    BY <1>4 DEF SaysRunning, Signal, Answered
  <2>2. Idle \in CommandType /\ Idle.pc = "idle"
    BY DEF Idle, CommandType
  <2>3. QED
    BY <1>1, <2>1, <2>2
<1>5. QED
  BY <1>2, <1>3, <1>4 DEF Command

\* A command that has seen a daemon serve all the time reads its number, and does
\* not say no.
LEMMA CommandSight ==
    ASSUME IInv, NEW a \in Admin, Command(a)
    PROVE  CommandSees'
<1>0. TypeOK
  BY DEF IInv
<1>1. SUFFICES ASSUME alone, NEW b \in Admin PROVE Sees(cmd[b])'
  BY <1>0, CommandUp DEF CommandSees
<1>2. \A q \in Pid : /\ stage'[q] = "serving" <=> stage[q] = "serving"
                     /\ stage[q] = "serving" =>
                            inv'[q] = inv[q] /\ (q \in named' <=> q \in named)
  BY <1>0, CommandUp
<1>3. cmd \in [Admin -> CommandType] /\ Sees(cmd[b])
  BY <1>1 DEF IInv, TypeOK, CommandSees
<1>4. named \subseteq Pid
  BY <1>0 DEF TypeOK
<1>5. ASSUME NEW c, cmd'[b] = c, Sees(c) PROVE Sees(cmd[b])'
  BY <1>2, <1>4, <1>5 DEF Sees, Up, Hidden
<1>6. CASE b # a
  <2>1. cmd'[b] = cmd[b]
    BY <1>3, <1>6 DEF Command, ReadFile, SaysNo, SaysRunning, Signal, Answered
  <2>2. QED
    BY <1>3, <1>5, <2>1
<1>7. ASSUME b = a, NEW i \in Invocation, ReadFile(a, i) PROVE Sees(cmd[b])'
  <2>1. Up(PathOf(i)) /\ ~ Hidden(PathOf(i)) =>
          /\ file[PathOf(i)] \in named /\ stage[file[PathOf(i)]] = "serving"
          /\ PathOf(inv[file[PathOf(i)]]) = PathOf(i)
    BY <1>1 DEF Up, Hidden, IInv, FileNamesServer
  <2>2. CASE file[PathOf(i)] \in Pid
    <3>1. cmd'[b] = Reading(i) /\ Asks(i)
      BY <1>3, <1>7, <2>2 DEF ReadFile, Reading
    <3>2. Sees(Reading(i))
      BY <1>0, <2>1, <2>2, <3>1, ReadingIs DEF Sees
    <3>3. QED
      BY <1>5, <3>1, <3>2
  <2>3. CASE file[PathOf(i)] \notin Pid
    <3> DEFINE d == ~ Up(PathOf(i))
    <3>1. d \in BOOLEAN
      BY DEF Up
    <3>2. cmd'[b] = Denial(PathOf(i), d)
      BY <1>3, <1>7, <2>3 DEF ReadFile
    <3>3. d \/ Hidden(PathOf(i))
      BY <1>4, <2>1, <2>3
    <3> HIDE DEF d
    <3>4. Sees(Denial(PathOf(i), d))
      BY <3>1, <3>3, DenialIs DEF Sees
    <3>5. QED
      BY <1>5, <3>2, <3>4
  <2>4. QED
    BY <2>2, <2>3
<1>8. ASSUME b = a, SaysNo(a) PROVE Sees(cmd[b])'
  <2>1. cmd'[b] = Denial(cmd[b].path, cmd[b].down)
    BY <1>3, <1>8 DEF SaysNo
  <2>2. cmd[b].down \in BOOLEAN
    BY <1>3 DEF CommandType
  <2>3. cmd[b].down \/ Hidden(cmd[b].path)
    BY <1>3, <1>8 DEF SaysNo, Sees
  <2>4. Sees(Denial(cmd[b].path, cmd[b].down))
    BY <2>2, <2>3, DenialIs DEF Sees
  <2>5. QED
    BY <1>5, <2>1, <2>4
<1>9. ASSUME b = a, SaysRunning(a) \/ Signal(a) \/ Answered(a) PROVE Sees(cmd[b])'
  <2>1. cmd'[b] = Idle
    BY <1>3, <1>9 DEF SaysRunning, Signal, Answered
  <2>2. Sees(Idle)
    BY DEF Idle, Sees
  <2>3. QED
    BY <1>5, <2>1, <2>2
<1>10. QED
  BY <1>6, <1>7, <1>8, <1>9 DEF Command

-----------------------------------------------------------------------------
(* The theorems *)

\* The invariant holds at the start, ...
LEMMA InitIInv == Init => IInv
<1> SUFFICES ASSUME Init PROVE IInv
  OBVIOUS
<1>1. TypeOK
  BY InitType
<1>2. CommandSees
  BY DEF Init, CommandSees, Sees, Idle
<1>3. OrphansExplained
  BY DEF Init, OrphansExplained
<1>4. QED
  BY <1>1, <1>2, <1>3 DEF Init, IInv, Single, NamedBackground, StaleCause,
       FileNamesServer, FlushedEmpty, ReturnsExplained, IsDaemon, Starting, DaemonStages

\* ... every step preserves it, ...
LEMMA NextIInv == IInv /\ [Next]_vars => IInv'
<1> SUFFICES ASSUME IInv, [Next]_vars PROVE IInv'
  OBVIOUS
<1>1. ASSUME NEW p \in Pid, DaemonStep(p), Watch PROVE IInv'
  <2>1. ProcsOK' /\ CommandsOK'
    BY <1>1, StepProcs, WatchEffect DEF IInv
  <2>2. TypeOK'
    BY <2>1 DEF TypeOK, ProcsOK, CommandsOK
  <2>3. Single' /\ NamedBackground' /\ StaleCause' /\ FileNamesServer'
    BY <1>1, StepSingle, StepBackground, StepStale, StepNames
  <2>4. FlushedEmpty' /\ ReturnsExplained' /\ OrphansExplained'
    BY <1>1, StepFlushed, StepReturns, StepOrphans
  <2>5. CommandSees'
    <3>1. SUFFICES ASSUME alone', NEW a \in Admin PROVE Sees(cmd[a])'
      BY DEF CommandSees
    <3>2. QED
      BY <1>1, <2>3, <3>1, StepSees
  <2>6. QED
    BY <2>2, <2>3, <2>4, <2>5 DEF IInv
<1>2. ASSUME NEW a \in Admin, Command(a) PROVE IInv'
  <2>1. ProcsOK' /\ CommandsOK'
    BY <1>2, CommandParts, CommandTypes DEF IInv
  <2>2. TypeOK'
    BY <2>1 DEF TypeOK, ProcsOK, CommandsOK
  <2>3. QED
    BY <1>2, <2>2, CommandParts, CommandSight DEF IInv, Parts
<1>3. CASE UNCHANGED vars
  BY <1>3 DEF vars, IInv, TypeOK, Single, NamedBackground, StaleCause, Creator,
              FileNamesServer, FlushedEmpty, ReturnsExplained, OrphansExplained,
              CommandSees, Sees, IsDaemon, Up, Hidden
<1>4. QED
  BY <1>1, <1>2, <1>3 DEF Next

\* ... and so it holds throughout.
LEMMA Invariant == Spec => []IInv
BY InitIInv, NextIInv, PTL DEF Spec

\* What a process has, it has only while it is there, however many processes,
\* terminals and starts there are.
THEOREM TypeCorrect == Spec => []TypeOK
<1>1. IInv => TypeOK
  BY DEF IInv
<1>2. QED
  BY <1>1, Invariant, PTL

\* Without overlap the PID file names the daemon that wrote it until it ends.
THEOREM FilesNameServers == Spec => []FileNamesServer
<1>1. IInv => FileNamesServer
  BY DEF IInv
<1>2. QED
  BY <1>1, Invariant, PTL

\* Every PID file that is left over is a signal's or a kill's doing, overlap or
\* not.
THEOREM StaleFilesExplained == Spec => []StaleExplained
<1>1. IInv => StaleExplained
  BY DEF IInv, StaleCause, StaleExplained, Creator, IsDaemon, DaemonStages, Starting
<1>2. QED
  BY <1>1, Invariant, PTL

\* Without overlap a command that finds nobody missed a daemon at some moment, or
\* one serves that it cannot know of.
THEOREM StatusIsHonest == Spec => []StatusHonest
<1>1. IInv => StatusHonest
  BY DEF IInv, CommandSees, Sees, StatusHonest
<1>2. QED
  BY <1>1, Invariant, PTL

\* Without overlap --kill and --restart signal the daemon that served all along,
\* if it wrote the file: no stale number and no other process.
THEOREM CommandsHitServer == Spec => []TargetIsServer
<1>1. IInv => TargetIsServer
  BY DEF IInv, CommandSees, Sees, TargetIsServer
<1>2. QED
  BY <1>1, Invariant, PTL

\* Without overlap only a kill, a failed read or a Shutdown that left the chain
\* leaves rules that nobody will close.
THEOREM OrphansAreExplained == Spec => []OrphansExplained
<1>1. IInv => OrphansExplained
  BY DEF IInv
<1>2. QED
  BY <1>1, Invariant, PTL
=============================================================================
