----------------------- MODULE ActionRulesRefinement -----------------------
(***************************************************************************)
(* The rule lifecycle implements the safety part of AccessWindow, for all  *)
(* templates whose check is sound and whose close commands do not fail.    *)
(***************************************************************************)
EXTENDS ActionRulesProofs

ClosesWork == HasClose /\ ~ CloseMayFail

\* A rule left over is nobody's business until it is requested: no timer and
\* no shutdown is about it.  A process that is down has made no timer.
LeftoversAreIdle ==
    /\ \A t \in Timer : timer[t] # "free" => RuleOf[timerKey[t]] \notin inherited
    /\ \A k \in pending : RuleOf[k] \notin inherited
    /\ proc = "down" => last = 0

\* A close command that works, or for which there is no chain, adds nothing to
\* the rules left over.
LEMMA ClosedIsGone ==
    ASSUME ClosesWork, TypeOK, Bookkeeping, NEW r \in Rule, CloseCommand(r)
    PROVE  UNCHANGED inherited
<1>1. ~ ready => fw[r] = 0
  BY DEF Bookkeeping
<1> QED
  BY <1>1 DEF ClosesWork, CloseCommand

\* Every action leaves the rules left over idle.
LEMMA NextLeftovers ==
    ASSUME ClosesWork
    PROVE  TypeOK /\ RuleInv /\ LeftoversAreIdle /\ [Next]_vars => LeftoversAreIdle'
<1> SUFFICES ASSUME TypeOK, RuleInv, LeftoversAreIdle, [Next]_vars
             PROVE  LeftoversAreIdle'
  OBVIOUS
<1> USE ActionAssumption, NextType DEF LeftoversAreIdle
<1>1. CASE ScheduleClose
  <2>1. last' \in Timer /\ inherited' = inherited \ {RuleOf[lkey]}
    BY <1>1 DEF ScheduleClose, TypeOK, Timer
  <2>2. ASSUME NEW t \in Timer, timer'[t] # "free"
        PROVE  RuleOf[timerKey'[t]] \notin inherited'
    <3>1. CASE t = last'
      BY <1>1, <2>1, <3>1 DEF ScheduleClose, TypeOK
    <3>2. CASE t # last'
      <4>1. timerKey'[t] = timerKey[t] /\ timer'[t] = Stopped({lkey})[t]
        BY <1>1, <2>1, <3>2, StoppedEffect DEF ScheduleClose, TypeOK
      <4>2. timer[t] # "free"
        BY <2>2, <4>1, StoppedEffect
      <4> QED
        BY <2>1, <4>1, <4>2
    <3> QED
      BY <3>1, <3>2
  <2> QED
    BY <1>1, <2>1, <2>2 DEF ScheduleClose, RuleInv, Bookkeeping
<1>2. ASSUME NEW t \in Timer, TimerFires(t) \/ Forget(t) PROVE LeftoversAreIdle'
  BY <1>2 DEF TimerFires, Forget, TypeOK
<1>3. ASSUME NEW t \in Timer, RunClose(t) PROVE LeftoversAreIdle'
  <2>1. UNCHANGED inherited
    BY <1>3, ClosedIsGone DEF RunClose, RuleInv, TypeOK
  <2> QED
    BY <1>3, <2>1 DEF RunClose, TypeOK
<1>4. CASE BeginShutdown
  <2>1. \A t \in Timer : timer'[t] # "free" => timer[t] # "free"
    BY <1>4, StoppedEffect DEF BeginShutdown
  <2>2. \A k \in pending' : active[k] \in Timer /\ timer[active[k]] # "free"
                            /\ timerKey[active[k]] = k
    BY <1>4 DEF BeginShutdown, RuleInv, TrackedTimerIsNewest, TypeOK, Timer, NoTimer
  <2> QED
    BY <1>4, <2>1, <2>2 DEF BeginShutdown
<1>5. ASSUME NEW k \in Key, ShutdownCloses(k) PROVE LeftoversAreIdle'
  <2>1. UNCHANGED inherited
    BY <1>5, ClosedIsGone DEF ShutdownCloses, RuleInv
  <2> QED
    BY <1>5, <2>1 DEF ShutdownCloses
<1>6. CASE Exit \/ Abort
  BY <1>6 DEF Exit, Abort, Stop
<1>7. CASE \/ \E k \in Key : Request(k)
           \/ RunCheck \/ RunOpen \/ RunShutdown \/ DetachChain \/ DeleteChain \/ Start
           \/ \E r \in Rule : RuleExpires(r)
           \/ UNCHANGED vars
  <2>1. UNCHANGED <<timer, timerKey, pending, last>> /\ inherited' \subseteq inherited
    BY <1>7 DEF Request, RunCheck, RunOpen, RunShutdown, DetachChain, DeleteChain,
       Start, RuleExpires, vars
  <2>2. proc' = "down" => proc = "down"
    BY <1>7 DEF Request, RunCheck, RunOpen, RunShutdown, DetachChain, DeleteChain,
       Start, RuleExpires, vars
  <2> QED
    BY <2>1, <2>2
<1>8. QED
  BY <1>1, <1>2, <1>3, <1>4, <1>5, <1>6, <1>7 DEF Next

\* No timer and no shutdown is ever about a rule left over by an earlier life.
LEMMA LeftoversStayIdle ==
    ASSUME SoundCheck, ClosesWork
    PROVE  Spec => []LeftoversAreIdle
<1>1. Init => LeftoversAreIdle
  BY DEF Init, LeftoversAreIdle
<1>2. QED
  BY <1>1, NextLeftovers, RuleInvHolds, InitType, NextType, PTL DEF Spec
-----------------------------------------------------------------------------
(* How a step looks from AccessWindow *)

Window == [r \in Rule |-> IF fw[r] = 0 THEN "closed"
                          ELSE IF Running /\ HasCloser(r) THEN "open" ELSE "orphan"]

\* Rules are closed, or nothing happens.
LEMMA SeenAsWithdraw ==
    ASSUME UNCHANGED Running, \A q \in Rule : Window'[q] \in {"closed", Window[q]}
    PROVE  [Windows!Next]_(Windows!vars)
<1>1. PICK S \in SUBSET Rule : S = {q \in Rule : Window'[q] = "closed"}
  OBVIOUS
<1>2. Window' = [q \in Rule |-> IF q \in S THEN "closed" ELSE Window[q]]
  BY <1>1 DEF Window
<1>3. CASE S = {}
  <2>1. Window' = Window
    BY <1>2, <1>3 DEF Window
  <2> QED
    BY <2>1 DEF Windows!vars, Window
<1>4. CASE S # {}
  <2>1. Windows!Withdraw(S)
    BY <1>2, <1>4 DEF Windows!Withdraw, Window
  <2> QED
    BY <2>1 DEF Windows!Next
<1> QED
  BY <1>3, <1>4

\* One rule is opened or taken charge of.
LEMMA SeenAsGrant ==
    ASSUME NEW r \in Rule, Running, Running', Window[r] # "open", Window'[r] = "open",
           \A q \in Rule \ {r} : Window'[q] \in {"closed", Window[q]}
    PROVE  [Windows!Next]_(Windows!vars)
<1> DEFINE S == {q \in Rule \ {r} : Window'[q] = "closed"}
<1>1. Window' = [q \in Rule |-> IF q = r THEN "open"
                                ELSE IF q \in S THEN "closed" ELSE Window[q]]
  BY DEF Window
<1>2. Window[r] \in {"closed", "orphan"}
  BY DEF Window
<1>3. S \in SUBSET (Rule \ {r})
  OBVIOUS
<1>4. Windows!Grant(r)
  BY <1>1, <1>2, <1>3 DEF Windows!Grant, Window, Running
<1> QED
  BY <1>4 DEF Windows!Next
-----------------------------------------------------------------------------
(* What each action does to the closers *)

\* While the process runs, no action adds to the rules left over.
LEMMA NoNewLeftovers ==
    ASSUME ClosesWork, TypeOK, RuleInv, [Next]_vars, Running'
    PROVE  inherited' \subseteq inherited
<1> USE ActionAssumption
<1>1. ASSUME NEW t \in Timer, RunClose(t) PROVE UNCHANGED inherited
  BY <1>1, ClosedIsGone DEF RunClose, RuleInv, TypeOK
<1>2. ASSUME NEW k \in Key, ShutdownCloses(k) PROVE UNCHANGED inherited
  BY <1>2, ClosedIsGone DEF ShutdownCloses, RuleInv
<1>3. CASE Exit \/ Abort
  BY <1>3 DEF Exit, Abort, Stop, Running
<1>4. CASE \/ \E k \in Key : Request(k)
           \/ RunCheck \/ RunOpen \/ ScheduleClose
           \/ RunShutdown \/ DetachChain \/ DeleteChain \/ Start
           \/ \E t \in Timer : TimerFires(t) \/ Forget(t)
           \/ BeginShutdown
           \/ \E r \in Rule : RuleExpires(r)
           \/ UNCHANGED vars
  BY <1>4 DEF Request, RunCheck, RunOpen, ScheduleClose, RunShutdown, DetachChain,
     DeleteChain, Start, TimerFires, Forget, BeginShutdown, RuleExpires, vars
<1>5. QED
  BY <1>1, <1>2, <1>3, <1>4 DEF Next

\* A rule that is open and has a closer keeps one until it is closed.
LEMMA CloserStays ==
    ASSUME SoundCheck, ClosesWork, TypeOK, RuleInv, LeftoversAreIdle, [Next]_vars,
           Running', NEW q \in Rule, HasCloser(q), fw'[q] > 0
    PROVE  HasCloser(q)'
<1> USE ActionAssumption
<1>1. CASE q \notin inherited'
  BY <1>1, NextCloser DEF CloserExists
<1>2. CASE q \in inherited'
  <2>1. q \in inherited
    BY <1>2, NoNewLeftovers
  <2>2. lpc = "schedule" /\ RuleOf[lkey] = q
    BY <2>1 DEF LeftoversAreIdle, HasCloser
  <2>3. ~ ScheduleClose
    BY <1>2, <2>2 DEF ScheduleClose
  <2>4. ~ RunCheck /\ ~ RunOpen /\ \A k \in Key : ~ Request(k)
    BY <2>2 DEF RunCheck, RunOpen, Request
  <2>5. UNCHANGED <<lpc, lkey>>
    BY <2>3, <2>4 DEF Next, TimerFires, RunClose, Forget, BeginShutdown,
       ShutdownCloses, RunShutdown, DetachChain, DeleteChain, Exit, Abort, Stop,
       Start, RuleExpires, vars, Running
  <2> QED
    BY <2>2, <2>5 DEF HasCloser
<1> QED
  BY <1>1, <1>2

\* Only the listener gives a closer to a rule that has none: no timer, no late
\* CloseRule and no Shutdown takes charge of a rule left over.
LEMMA NoNewCloser ==
    ASSUME TypeOK, RuleInv, LeftoversAreIdle, [Next]_vars, ~ RunCheck, ~ RunOpen,
           Running, Running', NEW q \in Rule, fw[q] > 0, ~ HasCloser(q)
    PROVE  ~ HasCloser(q)'
<1> USE ActionAssumption
<1>1. CASE ScheduleClose
  <2>1. last' \in Timer /\ RuleOf[lkey] # q
    BY <1>1 DEF ScheduleClose, TypeOK, Timer, HasCloser
  <2>2. ASSUME NEW t \in Timer, timer'[t] \in {"armed", "fired"}, RuleOf[timerKey'[t]] = q
        PROVE  FALSE
    <3>1. t # last'
      BY <1>1, <2>1, <2>2 DEF ScheduleClose, TypeOK
    <3>2. timerKey'[t] = timerKey[t] /\ timer'[t] = Stopped({lkey})[t]
      BY <1>1, <2>1, <3>1, StoppedEffect DEF ScheduleClose, TypeOK
    <3>3. timer[t] \in {"armed", "fired"}
      BY <2>2, <3>2, StoppedEffect
    <3> QED
      BY <2>2, <3>2, <3>3 DEF HasCloser
  <2> QED
    BY <1>1, <2>2 DEF ScheduleClose, HasCloser
<1>2. CASE BeginShutdown
  <2>1. ASSUME NEW t \in Timer, timer'[t] \in {"armed", "fired"}, RuleOf[timerKey'[t]] = q
        PROVE  FALSE
    <3>1. timer[t] \in {"armed", "fired"} /\ timerKey' = timerKey
      BY <1>2, <2>1, StoppedEffect DEF BeginShutdown
    <3> QED
      BY <2>1, <3>1 DEF HasCloser
  <2>2. ASSUME NEW k \in pending', RuleOf[k] = q
        PROVE  FALSE
    <3>1. active[k] \in Timer /\ timer[active[k]] # "free" /\ timerKey[active[k]] = k
      BY <1>2, <2>2 DEF BeginShutdown, RuleInv, TrackedTimerIsNewest, TypeOK, Timer, NoTimer
    <3>2. q \notin inherited
      BY <2>2, <3>1 DEF LeftoversAreIdle
    <3> QED
      BY <3>2 DEF RuleInv, CloserExists
  <2> QED
    BY <1>2, <2>1, <2>2 DEF BeginShutdown, HasCloser
<1>3. ASSUME NEW k \in Key, Request(k) PROVE ~ HasCloser(q)'
  BY <1>3 DEF Request, HasCloser
<1>4. ASSUME NEW t \in Timer, TimerFires(t) PROVE ~ HasCloser(q)'
  BY <1>4 DEF TimerFires, HasCloser, TypeOK
<1>5. ASSUME NEW t \in Timer, RunClose(t) PROVE ~ HasCloser(q)'
  BY <1>5 DEF RunClose, HasCloser, TypeOK
<1>6. ASSUME NEW t \in Timer, Forget(t) PROVE ~ HasCloser(q)'
  BY <1>6 DEF Forget, HasCloser, TypeOK
<1>7. ASSUME NEW k \in Key, ShutdownCloses(k) PROVE ~ HasCloser(q)'
  BY <1>7 DEF ShutdownCloses, HasCloser
<1>8. CASE \/ RunShutdown \/ DetachChain \/ DeleteChain
           \/ \E r \in Rule : RuleExpires(r)
           \/ UNCHANGED vars
  BY <1>8 DEF RunShutdown, DetachChain, DeleteChain, RuleExpires, vars, HasCloser
<1>9. CASE Exit \/ Abort \/ Start
  BY <1>9 DEF Exit, Abort, Stop, Start, Running
<1>10. QED
  BY <1>1, <1>2, <1>3, <1>4, <1>5, <1>6, <1>7, <1>8, <1>9 DEF Next

\* Only the open command adds a rule.
LEMMA OnlyOpenAdds ==
    ASSUME TypeOK, [Next]_vars, ~ RunOpen, NEW q \in Rule, fw'[q] > 0
    PROVE  fw[q] > 0
<1> USE ActionAssumption
<1>0. fw \in [Rule -> Nat] /\ fw' \in [Rule -> Nat]
  BY NextType DEF TypeOK
<1>1. ASSUME NEW t \in Timer, RunClose(t) PROVE fw[q] > 0
  <2>1. RuleOf[timerKey[t]] \in Rule /\ CloseCommand(RuleOf[timerKey[t]])
    BY <1>1 DEF RunClose, TypeOK
  <2> QED
    BY <1>0, <2>1, CloseCommandEffect
<1>2. ASSUME NEW k \in Key, ShutdownCloses(k) PROVE fw[q] > 0
  <2>1. RuleOf[k] \in Rule /\ CloseCommand(RuleOf[k])
    BY <1>2 DEF ShutdownCloses
  <2> QED
    BY <1>0, <2>1, CloseCommandEffect
<1>3. CASE RunShutdown \/ DetachChain \/ DeleteChain \/ Start
  BY <1>3 DEF RunShutdown, DetachChain, DeleteChain, Start, AfterInit, NoRules
<1>4. ASSUME NEW r \in Rule, RuleExpires(r) PROVE fw[q] > 0
  BY <1>0, <1>4 DEF RuleExpires
<1>5. CASE \/ \E k \in Key : Request(k)
           \/ RunCheck \/ ScheduleClose \/ Exit \/ Abort
           \/ \E t \in Timer : TimerFires(t) \/ Forget(t)
           \/ BeginShutdown \/ UNCHANGED vars
  BY <1>5 DEF Request, RunCheck, ScheduleClose, Exit, Abort, Stop, TimerFires,
     Forget, BeginShutdown, vars
<1>6. QED
  BY <1>1, <1>2, <1>3, <1>4, <1>5 DEF Next
-----------------------------------------------------------------------------
(* Every step is one of AccessWindow, or a stutter *)

\* The listener's check takes charge of a rule left over, or changes nothing.
LEMMA CheckIsStep ==
    ASSUME TypeOK, Bookkeeping, RunCheck
    PROVE  [Windows!Next]_(Windows!vars)
<1> USE ActionAssumption
<1>1. Running /\ Running'
  BY DEF RunCheck, Bookkeeping, Running
<1>2. RuleOf[lkey] \in Rule /\ fw' = fw
  BY DEF RunCheck, TypeOK
<1>3. \A q \in Rule \ {RuleOf[lkey]} : HasCloser(q)' <=> HasCloser(q)
  BY DEF RunCheck, HasCloser
<1>4. \A q \in Rule \ {RuleOf[lkey]} : Window'[q] = Window[q]
  BY <1>1, <1>2, <1>3 DEF Window
<1>5. CASE lpc' = "schedule" /\ fw[RuleOf[lkey]] # 0 /\ ~ HasCloser(RuleOf[lkey])
  <2>1. Window[RuleOf[lkey]] # "open"
    BY <1>2, <1>5 DEF Window
  <2>2. HasCloser(RuleOf[lkey])'
    BY <1>5 DEF RunCheck, HasCloser
  <2>3. Window'[RuleOf[lkey]] = "open"
    BY <1>1, <1>2, <1>5, <2>2 DEF Window, RunCheck
  <2> QED
    BY <1>1, <1>2, <1>4, <2>1, <2>3, SeenAsGrant
<1>6. CASE lpc' # "schedule" \/ fw[RuleOf[lkey]] = 0 \/ HasCloser(RuleOf[lkey])
  <2>1. \/ fw[RuleOf[lkey]] = 0
        \/ HasCloser(RuleOf[lkey])' <=> HasCloser(RuleOf[lkey])
    BY <1>6 DEF RunCheck, HasCloser
  <2>2. Window'[RuleOf[lkey]] = Window[RuleOf[lkey]]
    <3>1. lkey' = lkey
      BY DEF RunCheck
    <3> QED
      BY <1>1, <1>2, <2>1, <3>1 DEF Window
  <2> QED
    BY <1>1, <1>4, <2>2, SeenAsWithdraw
<1> QED
  BY <1>5, <1>6

\* The open command opens a closed rule, or nothing happens.
LEMMA OpenIsStep ==
    ASSUME SoundCheck, TypeOK, RuleInv, RunOpen
    PROVE  [Windows!Next]_(Windows!vars)
<1> USE ActionAssumption DEF RuleInv
<1>1. Running /\ Running'
  BY DEF RunOpen, Bookkeeping, Running
<1>2. RuleOf[lkey] \in Rule /\ lkey' = lkey /\ fw \in [Rule -> Nat]
  BY DEF RunOpen, TypeOK
<1>3. \A q \in Rule \ {RuleOf[lkey]} : HasCloser(q)' <=> HasCloser(q)
  BY DEF RunOpen, HasCloser
<1>4. CASE ready /\ fw' = AfterOpen(fw, RuleOf[lkey]) /\ lpc' = "schedule"
  <2>1. fw[RuleOf[lkey]] = 0
    BY <1>4 DEF RunOpen, CheckStillHolds, SoundCheck
  <2>2. /\ fw' \in [Rule -> Nat] /\ fw'[RuleOf[lkey]] = 1
        /\ \A q \in Rule : q # RuleOf[lkey] => fw'[q] <= fw[q]
    BY <1>2, <1>4, <2>1, OpenEffect
  <2>3. \A q \in Rule \ {RuleOf[lkey]} : fw'[q] = 0 \/ fw[q] # 0
    BY <1>2, <2>2
  <2>4. \A q \in Rule \ {RuleOf[lkey]} : Window'[q] \in {"closed", Window[q]}
    BY <1>1, <1>3, <2>3 DEF Window
  <2>5. HasCloser(RuleOf[lkey])'
    BY <1>2, <1>4 DEF HasCloser
  <2>6. Window'[RuleOf[lkey]] = "open"
    BY <1>1, <1>2, <2>2, <2>5 DEF Window
  <2>7. Window[RuleOf[lkey]] # "open"
    BY <1>2, <2>1 DEF Window
  <2> QED
    BY <1>1, <1>2, <2>4, <2>6, <2>7, SeenAsGrant
<1>5. CASE fw' = fw /\ lpc' = "idle"
  <2>1. \A q \in Rule : HasCloser(q)' <=> HasCloser(q)
    BY <1>5 DEF RunOpen, HasCloser
  <2>2. \A q \in Rule : Window'[q] = Window[q]
    BY <1>1, <1>5, <2>1 DEF Window
  <2> QED
    BY <1>1, <2>2, SeenAsWithdraw
<1> QED
  BY <1>4, <1>5 DEF RunOpen

\* The process stops, and what is still open is an orphan.
LEMMA EndIsStop ==
    ASSUME Bookkeeping, Exit \/ Abort
    PROVE  Windows!Stop
<1>1. Running /\ ~ Running' /\ fw' = fw
  BY DEF Exit, Abort, Stop, Running
<1>2. Window' = [q \in Rule |-> IF Window[q] = "closed" THEN "closed" ELSE "orphan"]
  BY <1>1 DEF Window
<1> QED
  BY <1>1, <1>2 DEF Windows!Stop, Window, Running

\* The process starts; nobody is in charge of the rules that survived the init
\* command.
LEMMA StartIsStart ==
    ASSUME TypeOK, Bookkeeping, LeftoversAreIdle, Start
    PROVE  Windows!Start
<1>1. ~ Running /\ Running'
  BY DEF Start, Running
<1>2. \A q \in Rule : ~ HasCloser(q)'
  <2>1. lpc' = "idle" /\ pending' = {}
    BY DEF Start, Bookkeeping
  <2>2. \A t \in Timer : timer'[t] = "free"
    BY DEF Start, LeftoversAreIdle, TypeOK, Timer
  <2> QED
    BY <2>1, <2>2 DEF HasCloser
<1>3. \A q \in Rule : fw'[q] = 0 \/ fw'[q] = fw[q]
  BY DEF Start, AfterInit, NoRules
<1>4. PICK S \in SUBSET Rule : S = {q \in Rule : fw'[q] = 0}
  OBVIOUS
<1>5. Window' = [q \in Rule |-> IF q \in S THEN "closed" ELSE Window[q]]
  BY <1>1, <1>2, <1>3, <1>4 DEF Window
<1> QED
  BY <1>1, <1>5 DEF Windows!Start, Window, Running

\* Each step of the daemon is a step of AccessWindow or leaves the windows as
\* they are.
LEMMA StepIsStep ==
    ASSUME SoundCheck, ClosesWork
    PROVE  TypeOK /\ RuleInv /\ LeftoversAreIdle /\ [Next]_vars
             => [Windows!Next]_(Windows!vars)
<1> SUFFICES ASSUME TypeOK, RuleInv, LeftoversAreIdle, [Next]_vars
             PROVE  [Windows!Next]_(Windows!vars)
  OBVIOUS
<1>1. CASE RunCheck
  BY <1>1, CheckIsStep DEF RuleInv
<1>2. CASE RunOpen
  BY <1>2, OpenIsStep
<1>3. CASE Exit \/ Abort
  BY <1>3, EndIsStop DEF RuleInv, Windows!Next
<1>4. CASE Start
  BY <1>4, StartIsStart DEF RuleInv, Windows!Next
<1>5. CASE ~ RunCheck /\ ~ RunOpen /\ ~ Exit /\ ~ Abort /\ ~ Start
  <2>1. UNCHANGED Running
    BY <1>5 DEF Next, Request, ScheduleClose, TimerFires, RunClose, Forget,
       BeginShutdown, ShutdownCloses, RunShutdown, DetachChain, DeleteChain,
       RuleExpires, vars, Running
  <2>2. ASSUME NEW q \in Rule PROVE Window'[q] \in {"closed", Window[q]}
    <3>1. CASE fw'[q] = 0
      BY <3>1 DEF Window
    <3>2. CASE fw'[q] # 0
      <4>1. fw'[q] > 0 /\ fw[q] > 0
        <5>1. fw'[q] \in Nat
          BY NextType DEF TypeOK
        <5>2. fw'[q] > 0
          BY <3>2, <5>1
        <5> QED
          BY <1>5, <5>2, OnlyOpenAdds
      <4>2. Running => (HasCloser(q)' <=> HasCloser(q))
        BY <1>5, <2>1, <4>1, CloserStays, NoNewCloser
      <4>3. fw[q] # 0
        BY <4>1
      <4> QED
        BY <2>1, <3>2, <4>2, <4>3 DEF Window
    <3> QED
      BY <3>1, <3>2
  <2> QED
    BY <2>1, <2>2, SeenAsWithdraw
<1> QED
  BY <1>1, <1>2, <1>3, <1>4, <1>5

\* With a sound check and close commands that work, the daemon keeps the
\* promise of AccessWindow: a rule becomes an orphan only when it stops, only a
\* request takes charge of one, and whatever else timers, late CloseRules,
\* refreshes and Shutdown do, in any order, only closes rules.
THEOREM RefinesAccessWindow ==
    ASSUME SoundCheck, ClosesWork
    PROVE  Spec => Windows!Spec
<1>1. Init => Windows!Init
  BY DEF Init, Windows!Init, Running, NoRules
<1>2. QED
  BY <1>1, LeftoversStayIdle, StepIsStep, RuleInvHolds, InitType, NextType, PTL
     DEF Spec, Windows!Spec
-----------------------------------------------------------------------------
(* What that means for a rule *)

\* As long as the process runs, a rule that is open and that somebody is going
\* to close stays somebody's charge until it is closed: a refresh stops the old
\* timer and sets the new one in one step, and Shutdown takes over the rules
\* whose timers it stops.
ChargeKept ==
    Running' => \A r \in Rule : HasCloser(r) /\ fw'[r] > 0 => HasCloser(r)'

\* Nobody but the request for a rule takes charge of one that is open and has
\* nobody to close it: a timer, a late CloseRule and Shutdown deal with the
\* rules this process has opened, and the request for another rule with that.
ChargeTaken ==
    Running /\ Running' =>
        \A r \in Rule : fw[r] > 0 /\ ~ HasCloser(r) /\ HasCloser(r)' =>
            (RunCheck \/ RunOpen) /\ RuleOf[lkey] = r

\* With a sound check and closes that work, no step of scheduleClose, CloseRule
\* or Shutdown drops a rule that is open.
THEOREM ChargeIsKept ==
    ASSUME SoundCheck, ClosesWork
    PROVE  Spec => [][ChargeKept]_vars
<1>1. TypeOK /\ RuleInv /\ LeftoversAreIdle /\ [Next]_vars => ChargeKept
  BY CloserStays DEF ChargeKept
<1>2. QED
  BY <1>1, LeftoversStayIdle, RuleInvHolds, InitType, NextType, PTL DEF Spec

\* With a sound check and closes that work, only the request for a rule left
\* over by an earlier life gets it closed again.
THEOREM ChargeTakenByRequest ==
    ASSUME SoundCheck, ClosesWork
    PROVE  Spec => [][ChargeTaken]_vars
<1>1. ASSUME TypeOK, RuleInv, LeftoversAreIdle, [Next]_vars
      PROVE  ChargeTaken
  <2> SUFFICES ASSUME Running, Running', NEW r \in Rule, fw[r] > 0,
                      ~ HasCloser(r), HasCloser(r)'
               PROVE  (RunCheck \/ RunOpen) /\ RuleOf[lkey] = r
    BY DEF ChargeTaken
  <2>1. RunCheck \/ RunOpen
    BY <1>1, NoNewCloser
  <2>2. RuleOf[lkey] = r
    BY <2>1 DEF RunCheck, RunOpen, HasCloser
  <2> QED
    BY <2>1, <2>2
<1>2. QED
  BY <1>1, LeftoversStayIdle, RuleInvHolds, InitType, NextType, PTL DEF Spec
=============================================================================
