------------------------- MODULE ActionRulesProofs -------------------------
(***************************************************************************)
(* Proofs about ActionRules, for every set of keys, every number of timers *)
(* and restarts, every backend and every aliasing of keys.                 *)
(***************************************************************************)
EXTENDS ActionRules, TLAPS

\* A rule that is not in force is in force once after open, and no other rule
\* gains from it.
LEMMA OpenEffect ==
    ASSUME NEW f \in [Rule -> Nat], NEW r \in Rule
    PROVE  /\ AfterOpen(f, r) \in [Rule -> Nat]
           /\ f[r] = 0 => AfterOpen(f, r)[r] = 1
           /\ \A q \in Rule : q # r => AfterOpen(f, r)[q] <= f[q]
BY DEF AfterOpen

\* close removes a rule that is in force once, and no rule gains from it.
LEMMA CloseEffect ==
    ASSUME NEW f \in [Rule -> Nat], NEW r \in Rule
    PROVE  /\ AfterClose(f, r) \in [Rule -> Nat]
           /\ f[r] <= 1 => AfterClose(f, r)[r] = 0
           /\ \A q \in Rule : AfterClose(f, r)[q] <= f[q]
BY FirewallAssumption DEF AfterClose, ClosedBy

\* The close command never adds to a rule, and removes one that is in force
\* once; when it fails, the rule is one of those left open.
LEMMA CloseCommandEffect ==
    ASSUME NEW r \in Rule, fw \in [Rule -> Nat], CloseCommand(r)
    PROVE  /\ fw' \in [Rule -> Nat]
           /\ \A q \in Rule : fw'[q] <= fw[q]
           /\ inherited \subseteq inherited'
           /\ inherited \subseteq Rule => inherited' \subseteq Rule
           /\ fw[r] <= 1 /\ r \notin inherited' => fw'[r] = 0
<1>1. CASE fw' = AfterClose(fw, r) /\ UNCHANGED inherited
  BY <1>1, CloseEffect
<1>2. CASE /\ inherited' = IF fw[r] > 0 THEN inherited \union {r} ELSE inherited
           /\ UNCHANGED fw
  BY <1>2
<1>3. QED
  BY <1>1, <1>2 DEF CloseCommand

\* Stopping timers changes no timer but armed ones that are tracked.
LEMMA StoppedEffect ==
    ASSUME NEW K, TypeOK
    PROVE  /\ Stopped(K) \in [Timer -> {"free", "armed", "stopped", "fired", "ran", "done"}]
           /\ \A t \in Timer : Stopped(K)[t] # timer[t] =>
                 /\ timer[t] = "armed" /\ Stopped(K)[t] = "stopped"
                 /\ \E k \in K : active[k] = t
BY DEF Stopped, TypeOK

\* Every variable keeps its type: Init establishes TypeOK.
LEMMA InitType == Init => TypeOK
<1> SUFFICES ASSUME Init PROVE TypeOK
  OBVIOUS
<1>1. AnyKey \in Key
  BY ActionAssumption DEF AnyKey
<1>2. fw \in [Rule -> Nat] /\ starts \in 0..MaxStarts /\ last \in 0..MaxTimers
  BY ActionAssumption DEF Init, NoRules
<1>3. /\ timerKey \in [Timer -> Key] /\ timer = [t \in Timer |-> "free"]
      /\ active \in [Key -> {NoTimer} \union 1..last] /\ lkey \in Key
  BY <1>1 DEF Init
<1>4. \A t \in Timer : t > last
  BY ActionAssumption DEF Init, Timer
<1>5. ready \in BOOLEAN /\ linked \in BOOLEAN /\ unclean \in BOOLEAN
  BY DEF Init
<1>6. lpc = "idle" /\ proc = "up" /\ pending = {} /\ inherited = {}
  BY DEF Init
<1>7. QED
  BY <1>2, <1>3, <1>4, <1>5, <1>6 DEF TypeOK

\* Every variable keeps its type: each action preserves TypeOK.
LEMMA NextType == TypeOK /\ [Next]_vars => TypeOK'
<1> SUFFICES ASSUME TypeOK, [Next]_vars PROVE TypeOK'
  OBVIOUS
<1> USE ActionAssumption DEF Timer, NoTimer
<1>1. AnyKey \in Key
  BY DEF AnyKey
<1>2. ASSUME NEW k \in Key, Request(k) PROVE TypeOK'
  BY <1>2 DEF Request, TypeOK
<1>3. CASE RunCheck
  BY <1>3 DEF RunCheck, TypeOK
<1>4. CASE RunOpen
  <2>1. fw' \in [Rule -> Nat]
    BY <1>4, OpenEffect DEF RunOpen, TypeOK
  <2>2. QED
    BY <1>4, <2>1 DEF RunOpen, TypeOK
<1>5. CASE ScheduleClose
  <2>1. last' \in 1..MaxTimers /\ last' = last + 1
    BY <1>5 DEF ScheduleClose, TypeOK
  <2>2. Stopped({lkey}) \in [Timer -> {"free", "armed", "stopped", "fired", "ran", "done"}]
    BY StoppedEffect
  <2>3. timer' = [Stopped({lkey}) EXCEPT ![last'] = "armed"]
    BY <1>5 DEF ScheduleClose
  <2>4. timer' \in [Timer -> {"free", "armed", "stopped", "fired", "ran", "done"}]
    BY <2>1, <2>2, <2>3
  <2>5. ASSUME NEW t \in Timer PROVE timer'[t] = "free" <=> t > last'
    <3>1. timer[t] = "free" <=> t > last
      BY DEF TypeOK
    <3>2. Stopped({lkey})[t] = "free" <=> timer[t] = "free"
      BY StoppedEffect
    <3>3. last \in Nat
      BY DEF TypeOK
    <3>4. QED
      BY <2>1, <2>2, <2>3, <3>1, <3>2, <3>3
  <2>6. active' \in [Key -> {NoTimer} \union 1..last']
    BY <1>5, <2>1 DEF ScheduleClose, TypeOK
  <2>7. timerKey' \in [Timer -> Key]
    BY <1>5, <2>1 DEF ScheduleClose, TypeOK
  <2>8. /\ fw' \in [Rule -> Nat] /\ ready' \in BOOLEAN
        /\ linked' \in BOOLEAN
        /\ proc' \in {"up", "stopping", "emptied", "detached", "flushed", "down"}
        /\ lpc' = "idle" /\ lkey' \in Key
        /\ pending' \subseteq Key /\ starts' \in 0..MaxStarts
        /\ unclean' \in BOOLEAN /\ inherited' \subseteq Rule
    BY <1>5 DEF ScheduleClose, TypeOK
  <2>9. last' \in 0..MaxTimers
    BY <2>1
  <2>10. QED
    BY <2>4, <2>5, <2>6, <2>7, <2>8, <2>9 DEF TypeOK
<1>6. ASSUME NEW t \in Timer, TimerFires(t) PROVE TypeOK'
  BY <1>6 DEF TimerFires, TypeOK
<1>7. ASSUME NEW t \in Timer, RunClose(t) PROVE TypeOK'
  <2>1. fw' \in [Rule -> Nat] /\ inherited' \subseteq Rule
    BY <1>7, CloseCommandEffect DEF RunClose, TypeOK
  <2>2. QED
    BY <1>7, <2>1 DEF RunClose, TypeOK
<1>8. ASSUME NEW t \in Timer, Forget(t) PROVE TypeOK'
  BY <1>8 DEF Forget, TypeOK
<1>9. CASE BeginShutdown
  <2>1. timer' \in [Timer -> {"free", "armed", "stopped", "fired", "ran", "done"}]
    BY <1>9, StoppedEffect DEF BeginShutdown
  <2>2. \A t \in Timer : timer'[t] = "free" <=> t > last
    BY <1>9, StoppedEffect DEF BeginShutdown, TypeOK
  <2>3. QED
    BY <1>9, <2>1, <2>2 DEF BeginShutdown, TypeOK
<1>10. ASSUME NEW k \in Key, ShutdownCloses(k) PROVE TypeOK'
  <2>1. fw' \in [Rule -> Nat] /\ inherited' \subseteq Rule
    BY <1>10, CloseCommandEffect DEF ShutdownCloses, TypeOK
  <2>2. QED
    BY <1>10, <2>1 DEF ShutdownCloses, TypeOK
<1>11. CASE RunShutdown \/ DetachChain \/ DeleteChain
  <2>1. fw' \in [Rule -> Nat]
    BY <1>11 DEF RunShutdown, DetachChain, DeleteChain, NoRules, TypeOK
  <2>2. ready' \in BOOLEAN /\ linked' \in BOOLEAN /\ unclean' \in BOOLEAN
    BY <1>11 DEF RunShutdown, DetachChain, DeleteChain, CommandFails, TypeOK
  <2>3. proc' \in {"emptied", "detached", "flushed"}
    BY <1>11 DEF RunShutdown, DetachChain, DeleteChain
  <2>4. UNCHANGED <<active, timerKey, timer, last, lpc, lkey, pending, starts, inherited>>
    BY <1>11 DEF RunShutdown, DetachChain, DeleteChain
  <2>5. QED
    BY <2>1, <2>2, <2>3, <2>4 DEF TypeOK
<1>12. CASE Exit \/ Abort
  BY <1>1, <1>12 DEF Exit, Abort, Stop, TypeOK
<1>13. CASE Start
  <2>1. fw' \in [Rule -> Nat]
    BY <1>13 DEF Start, AfterInit, NoRules, TypeOK
  <2>2. /\ ready' \in BOOLEAN /\ linked' \in BOOLEAN /\ unclean' \in BOOLEAN
        /\ proc' = "up" /\ inherited' \subseteq Rule
    <3>1. \A S : {r \in inherited : S[r] > 0} \subseteq inherited
      OBVIOUS
    <3>2. inherited' \subseteq Rule
      BY <1>13, <3>1 DEF Start, TypeOK
    <3>3. QED
      BY <1>13, <3>2 DEF Start
  <2>3. starts' \in 0..MaxStarts
    BY <1>13 DEF Start, TypeOK
  <2>4. UNCHANGED <<active, timerKey, timer, last, lpc, lkey, pending>>
    BY <1>13 DEF Start
  <2>5. QED
    BY <2>1, <2>2, <2>3, <2>4 DEF TypeOK
<1>14. ASSUME NEW r \in Rule, RuleExpires(r) PROVE TypeOK'
  BY <1>14 DEF RuleExpires, TypeOK
<1>15. CASE UNCHANGED vars
  BY <1>15 DEF vars, TypeOK
<1>16. QED
  BY <1>2, <1>3, <1>4, <1>5, <1>6, <1>7, <1>8, <1>9, <1>10, <1>11, <1>12, <1>13,
     <1>14, <1>15 DEF Next

\* Type correctness of the rule lifecycle.
THEOREM TypeCorrect == Spec => []TypeOK
BY InitType, NextType, PTL DEF Spec
-----------------------------------------------------------------------------
\* The map tracks the newest timer of a key and never a stopped one: every
\* action preserves TrackedTimerIsNewest.
LEMMA NextTracked ==
    TypeOK /\ TrackedTimerIsNewest /\ [Next]_vars => TrackedTimerIsNewest'
<1> SUFFICES ASSUME TypeOK, TrackedTimerIsNewest, [Next]_vars
             PROVE  TrackedTimerIsNewest'
  OBVIOUS
<1> USE ActionAssumption, NextType DEF Timer, NoTimer
<1>1. CASE ScheduleClose
  <2>1. last' \in 1..MaxTimers /\ last' = last + 1 /\ last \in Nat
    BY <1>1 DEF ScheduleClose, TypeOK
  <2>2. SUFFICES ASSUME NEW k \in Key, active'[k] # NoTimer
                 PROVE  /\ timerKey'[active'[k]] = k
                        /\ timer'[active'[k]] \in {"armed", "fired", "ran"}
                        /\ \A t \in (active'[k] + 1)..last' : timerKey'[t] # k
    BY DEF TrackedTimerIsNewest
  <2>3. CASE k = lkey
    <3>1. active'[k] = last'
      BY <1>1, <2>3 DEF ScheduleClose, TypeOK
    <3>2. timerKey'[last'] = k /\ timer'[last'] = "armed"
      BY <1>1, <2>1, <2>3, StoppedEffect DEF ScheduleClose, TypeOK
    <3>3. QED
      BY <2>1, <3>1, <3>2
  <2>4. CASE k # lkey
    <3>1. active'[k] = active[k] /\ active[k] \in 1..last
      BY <1>1, <2>2, <2>4 DEF ScheduleClose, TypeOK
    <3>2. /\ timerKey[active[k]] = k
          /\ timer[active[k]] \in {"armed", "fired", "ran"}
          /\ \A t \in (active[k] + 1)..last : timerKey[t] # k
      BY <3>1 DEF TrackedTimerIsNewest
    <3>3. active[lkey] # active[k]
      BY <2>4, <3>1, <3>2 DEF TrackedTimerIsNewest, TypeOK
    <3>4. active[k] \in Timer /\ Stopped({lkey})[active[k]] = timer[active[k]]
      BY <2>1, <3>1, <3>3 DEF Stopped, TypeOK
    <3>5. timer'[active[k]] = timer[active[k]]
      BY <1>1, <2>1, <3>1, <3>4, StoppedEffect DEF ScheduleClose
    <3>6. timerKey'[active[k]] = k /\ timerKey'[last'] = lkey
      BY <1>1, <2>1, <3>1, <3>2 DEF ScheduleClose, TypeOK
    <3>7. \A t \in (active[k] + 1)..last : timerKey'[t] = timerKey[t]
      BY <1>1, <2>1, <3>1 DEF ScheduleClose, TypeOK
    <3>8. \A t \in (active[k] + 1)..last' : timerKey'[t] # k
      BY <2>1, <2>4, <3>1, <3>2, <3>6, <3>7
    <3>9. QED
      BY <3>1, <3>2, <3>5, <3>6, <3>8
  <2>5. QED
    BY <2>3, <2>4
<1>2. ASSUME NEW t \in Timer, TimerFires(t) PROVE TrackedTimerIsNewest'
  BY <1>2 DEF TimerFires, TrackedTimerIsNewest, TypeOK
<1>3. ASSUME NEW t \in Timer, RunClose(t) PROVE TrackedTimerIsNewest'
  <2>1. /\ timer' = [timer EXCEPT ![t] = "ran"]
        /\ active' = active /\ timerKey' = timerKey /\ last' = last
    BY <1>3 DEF RunClose
  <2>2. \A u \in Timer : timer[u] \in {"armed", "fired", "ran"}
                           => timer'[u] \in {"armed", "fired", "ran"}
    BY <2>1 DEF TypeOK
  <2>3. \A k \in Key : active[k] # NoTimer => active[k] \in Timer
    BY DEF TypeOK
  <2>4. QED
    BY <2>1, <2>2, <2>3 DEF TrackedTimerIsNewest
<1>4. ASSUME NEW t \in Timer, Forget(t) PROVE TrackedTimerIsNewest'
  <2>1. \A k \in Key : active'[k] # NoTimer =>
           active'[k] = active[k] /\ active[k] # t /\ active[k] \in Timer
    BY <1>4 DEF Forget, TrackedTimerIsNewest, TypeOK
  <2>2. \A k \in Key : active'[k] # NoTimer => timer'[active[k]] = timer[active[k]]
    BY <1>4, <2>1 DEF Forget, TypeOK
  <2>3. timerKey' = timerKey /\ last' = last
    BY <1>4 DEF Forget
  <2>4. QED
    BY <2>1, <2>2, <2>3 DEF TrackedTimerIsNewest
<1>5. CASE BeginShutdown
  BY <1>5 DEF BeginShutdown, TrackedTimerIsNewest
<1>6. CASE Exit \/ Abort
  BY <1>6 DEF Exit, Abort, Stop, TrackedTimerIsNewest
<1>7. CASE \/ \E k \in Key : Request(k) \/ ShutdownCloses(k)
           \/ RunCheck \/ RunOpen \/ RunShutdown \/ DetachChain \/ DeleteChain \/ Start
           \/ \E r \in Rule : RuleExpires(r)
           \/ UNCHANGED vars
  <2>1. UNCHANGED timers
    BY <1>7 DEF Request, ShutdownCloses, RunCheck, RunOpen, RunShutdown,
       DetachChain, DeleteChain, Start, RuleExpires, vars, timers
  <2>2. QED
    BY <2>1 DEF TrackedTimerIsNewest, timers
<1>8. QED
  BY <1>1, <1>2, <1>3, <1>4, <1>5, <1>6, <1>7 DEF Next

\* Without its chain no rule exists, no list of rules is kept outside Shutdown,
\* and a stopped process knows what it left.
LEMMA NextBookkeeping ==
    TypeOK /\ Bookkeeping /\ [Next]_vars => Bookkeeping'
<1> SUFFICES ASSUME TypeOK, Bookkeeping, [Next]_vars PROVE Bookkeeping'
  OBVIOUS
<1> USE ActionAssumption, NextType DEF Bookkeeping
<1> DEFINE Shrinks == /\ \A r \in Rule : fw[r] = 0 => fw'[r] = 0
                     /\ inherited \subseteq inherited'
<1>1. CASE RunOpen
  BY <1>1 DEF RunOpen
<1>2. ASSUME NEW t \in Timer, RunClose(t) PROVE Bookkeeping'
  <2>1. Shrinks
    <3>1. RuleOf[timerKey[t]] \in Rule /\ CloseCommand(RuleOf[timerKey[t]])
      BY <1>2 DEF RunClose, TypeOK
    <3>2. QED
      BY <3>1, CloseCommandEffect DEF TypeOK
  <2>2. QED
    BY <1>2, <2>1 DEF RunClose, TypeOK
<1>3. ASSUME NEW k \in Key, ShutdownCloses(k) PROVE Bookkeeping'
  <2>1. Shrinks
    BY <1>3, CloseCommandEffect DEF ShutdownCloses, TypeOK
  <2>2. QED
    BY <1>3, <2>1 DEF ShutdownCloses
<1>4. CASE RunShutdown \/ DetachChain \/ DeleteChain
  BY <1>4 DEF RunShutdown, DetachChain, DeleteChain, CommandFails, NoRules
<1>5. CASE Exit \/ Abort
  BY <1>5 DEF Exit, Abort, Stop
<1>6. CASE Start
  BY <1>6 DEF Start, AfterInit, NoRules
<1>7. CASE \E r \in Rule : RuleExpires(r)
  BY <1>7 DEF RuleExpires, TypeOK
<1>8. CASE \/ \E k \in Key : Request(k)
           \/ RunCheck \/ ScheduleClose
           \/ \E t \in Timer : TimerFires(t) \/ Forget(t)
           \/ BeginShutdown \/ UNCHANGED vars
  BY <1>8 DEF Request, RunCheck, ScheduleClose, TimerFires, Forget, BeginShutdown,
     vars, Running
<1>9. QED
  BY <1>1, <1>2, <1>3, <1>4, <1>5, <1>6, <1>7, <1>8 DEF Next

\* The check keeps rules single: the listener is the only one to add a rule,
\* so what its check did not find is still absent when it opens.
LEMMA NextSingle ==
    ASSUME SoundCheck
    PROVE  TypeOK /\ Bookkeeping /\ NoDuplicateRule /\ CheckStillHolds /\ [Next]_vars
             => NoDuplicateRule' /\ CheckStillHolds'
<1> SUFFICES ASSUME TypeOK, Bookkeeping, NoDuplicateRule, CheckStillHolds, [Next]_vars
             PROVE  NoDuplicateRule' /\ CheckStillHolds'
  OBVIOUS
<1> USE ActionAssumption, NextType DEF SoundCheck
<1> DEFINE Shrinks == \A r \in Rule : fw'[r] <= fw[r]
<1>1. Shrinks /\ (ready' => ready) /\ UNCHANGED <<lpc, lkey>>
        => NoDuplicateRule' /\ CheckStillHolds'
  BY DEF NoDuplicateRule, CheckStillHolds, TypeOK
<1>2. ASSUME NEW k \in Key, Request(k) PROVE NoDuplicateRule' /\ CheckStillHolds'
  BY <1>2 DEF Request, NoDuplicateRule, CheckStillHolds
<1>3. CASE RunCheck
  <2>1. RuleOf[lkey] \in Rule
    BY DEF TypeOK
  <2>2. lpc' = "open" => ~ CheckFinds(fw, ready, RuleOf[lkey])
    BY <1>3 DEF RunCheck
  <2>3. ready /\ ~ CheckFinds(fw, ready, RuleOf[lkey]) => fw[RuleOf[lkey]] = 0
    BY <2>1, FirewallAssumption DEF CheckFinds, TypeOK
  <2>4. QED
    BY <1>3, <2>2, <2>3 DEF RunCheck, NoDuplicateRule, CheckStillHolds
<1>4. CASE RunOpen
  <2>1. ready => fw[RuleOf[lkey]] = 0 /\ RuleOf[lkey] \in Rule
    BY <1>4 DEF RunOpen, CheckStillHolds, TypeOK
  <2>2. NoDuplicateRule'
    <3>1. CASE ready /\ fw' = AfterOpen(fw, RuleOf[lkey])
      <4>1. fw'[RuleOf[lkey]] = 1
        BY <2>1, <3>1, OpenEffect DEF TypeOK
      <4>2. \A q \in Rule : q # RuleOf[lkey] => fw'[q] <= fw[q] /\ fw[q] <= 1
        BY <2>1, <3>1, OpenEffect DEF NoDuplicateRule, TypeOK
      <4>3. fw' \in [Rule -> Nat] /\ fw \in [Rule -> Nat]
        BY NextType DEF TypeOK
      <4>4. QED
        BY <4>1, <4>2, <4>3 DEF NoDuplicateRule
    <3>2. CASE fw' = fw
      BY <3>2 DEF NoDuplicateRule
    <3>3. QED
      BY <1>4, <3>1, <3>2 DEF RunOpen
  <2>3. QED
    BY <1>4, <2>2 DEF RunOpen, CheckStillHolds
<1>5. CASE ScheduleClose
  BY <1>5 DEF ScheduleClose, NoDuplicateRule, CheckStillHolds
<1>6. ASSUME NEW t \in Timer, RunClose(t) PROVE Shrinks /\ UNCHANGED <<ready, lpc, lkey>>
  BY <1>6, CloseCommandEffect DEF RunClose, TypeOK
<1>7. ASSUME NEW k \in Key, ShutdownCloses(k) PROVE Shrinks /\ UNCHANGED <<ready, lpc, lkey>>
  BY <1>7, CloseCommandEffect DEF ShutdownCloses, TypeOK
<1>8. CASE RunShutdown \/ DetachChain \/ DeleteChain
  <2>1. Shrinks /\ (ready' => ready) /\ UNCHANGED <<lpc, lkey>>
    BY <1>8 DEF RunShutdown, DetachChain, DeleteChain, CommandFails, NoRules, TypeOK
  <2>2. QED
    BY <1>1, <2>1
<1>9. CASE Exit \/ Abort
  BY <1>9 DEF Exit, Abort, Stop, NoDuplicateRule, CheckStillHolds
<1>10. CASE Start
  BY <1>10 DEF Start, AfterInit, NoRules, NoDuplicateRule, CheckStillHolds, Bookkeeping
<1>11. ASSUME NEW r \in Rule, RuleExpires(r) PROVE Shrinks /\ UNCHANGED <<ready, lpc, lkey>>
  BY <1>11 DEF RuleExpires, TypeOK
<1>12. CASE \/ \E t \in Timer : TimerFires(t) \/ Forget(t)
            \/ BeginShutdown \/ UNCHANGED vars
  <2>1. UNCHANGED <<fw, ready, lpc, lkey>>
    BY <1>12 DEF TimerFires, Forget, BeginShutdown, vars
  <2>2. QED
    BY <2>1 DEF NoDuplicateRule, CheckStillHolds
<1>13. QED
  BY <1>1, <1>2, <1>3, <1>4, <1>5, <1>6, <1>7, <1>8, <1>9, <1>10, <1>11, <1>12 DEF Next

\* No rule is ever left without a closer: each action that takes one away has
\* put another in its place or has removed the rule.
LEMMA NextCloser ==
    ASSUME SoundCheck
    PROVE  TypeOK /\ RuleInv /\ [Next]_vars => CloserExists'
<1> SUFFICES ASSUME TypeOK, RuleInv, [Next]_vars, Running',
                    NEW q \in Rule, fw'[q] > 0, q \notin inherited'
             PROVE  HasCloser(q)'
  BY DEF CloserExists
<1> USE ActionAssumption, NextType DEF SoundCheck, RuleInv
<1>0. fw \in [Rule -> Nat] /\ fw' \in [Rule -> Nat]
  BY DEF TypeOK
<1>1. Running /\ q \notin inherited /\ fw[q] > 0 => HasCloser(q)
  BY DEF CloserExists
<1>2. ASSUME NEW k \in Key, Request(k) PROVE HasCloser(q)'
  BY <1>1, <1>2 DEF Request, HasCloser, Running
<1>3. CASE RunCheck
  <2>1. Running
    BY <1>3 DEF RunCheck, Bookkeeping, Running
  <2>2. QED
    BY <1>1, <1>3, <2>1 DEF RunCheck, HasCloser
<1>4. CASE RunOpen
  <2>1. Running
    BY <1>4 DEF RunOpen, Bookkeeping, Running
  <2>2. CASE q = RuleOf[lkey] /\ lpc' = "schedule"
    BY <1>4, <2>2 DEF RunOpen, HasCloser
  <2>3. CASE q # RuleOf[lkey] \/ lpc' = "idle"
    <3>1. fw'[q] <= fw[q] /\ q \notin inherited
      BY <1>4, <1>0, <2>3, OpenEffect DEF RunOpen, TypeOK
    <3>2. HasCloser(q)
      BY <1>0, <1>1, <2>1, <3>1
    <3>3. QED
      BY <1>4, <3>2 DEF RunOpen, HasCloser
  <2>4. QED
    BY <1>4, <2>2, <2>3 DEF RunOpen
<1>5. CASE ScheduleClose
  <2>1. last' \in Timer /\ last' = last + 1 /\ timer[last'] = "free"
    BY <1>5 DEF ScheduleClose, TypeOK, Timer
  <2>2. timer'[last'] = "armed" /\ timerKey'[last'] = lkey
    BY <1>5, <2>1, StoppedEffect DEF ScheduleClose, TypeOK
  <2>3. CASE q = RuleOf[lkey]
    BY <2>1, <2>2, <2>3 DEF HasCloser
  <2>4. CASE q # RuleOf[lkey]
    <3>1. HasCloser(q)
      BY <1>1, <1>5, <2>4 DEF ScheduleClose, Bookkeeping, Running
    <3>2. ASSUME NEW t \in Timer, timer[t] \in {"armed", "fired"}, RuleOf[timerKey[t]] = q
          PROVE  timer'[t] = timer[t] /\ timerKey'[t] = timerKey[t]
      <4>1. t # last'
        BY <2>1, <3>2
      <4>2. active[lkey] # t
        <5>1. lkey \in Key /\ t # NoTimer
          BY DEF TypeOK, Timer, NoTimer
        <5>2. active[lkey] # NoTimer => timerKey[active[lkey]] = lkey
          BY <5>1 DEF TrackedTimerIsNewest
        <5>3. QED
          BY <2>4, <3>2, <5>1, <5>2
      <4>3. Stopped({lkey})[t] = timer[t]
        BY <4>2 DEF Stopped
      <4>4. QED
        BY <1>5, <2>1, <4>1, <4>3, StoppedEffect DEF ScheduleClose, TypeOK
    <3>3. QED
      BY <1>5, <2>4, <3>1, <3>2 DEF ScheduleClose, HasCloser
  <2>5. QED
    BY <2>3, <2>4
<1>6. ASSUME NEW t \in Timer, TimerFires(t) PROVE HasCloser(q)'
  BY <1>1, <1>6 DEF TimerFires, HasCloser, Running, TypeOK
<1>7. ASSUME NEW t \in Timer, RunClose(t) PROVE HasCloser(q)'
  <2>1. RuleOf[timerKey[t]] \in Rule /\ CloseCommand(RuleOf[timerKey[t]])
    BY <1>7 DEF RunClose, TypeOK
  <2>2. fw'[q] <= fw[q] /\ q \notin inherited
    BY <1>0, <2>1, CloseCommandEffect
  <2>3. q # RuleOf[timerKey[t]]
    BY <1>0, <2>1, CloseCommandEffect DEF NoDuplicateRule
  <2>4. HasCloser(q)
    BY <1>0, <1>1, <1>7, <2>2 DEF RunClose, Running
  <2>5. QED
    BY <1>7, <2>3, <2>4 DEF RunClose, HasCloser, TypeOK
<1>8. ASSUME NEW t \in Timer, Forget(t) PROVE HasCloser(q)'
  BY <1>1, <1>8 DEF Forget, HasCloser, Running, TypeOK
<1>9. CASE BeginShutdown
  <2>1. HasCloser(q)
    BY <1>1, <1>9 DEF BeginShutdown, Running
  <2>2. pending = {}
    BY <1>9 DEF BeginShutdown, Bookkeeping
  <2>3. ASSUME NEW t \in Timer, timer[t] \in {"armed", "fired"}, RuleOf[timerKey[t]] = q
        PROVE  HasCloser(q)'
    <3>1. CASE timer'[t] = timer[t]
      BY <1>9, <2>3, <3>1 DEF BeginShutdown, HasCloser
    <3>2. CASE timer'[t] # timer[t]
      <4>1. PICK k \in Key : active[k] = t
        BY <1>9, <3>2, StoppedEffect DEF BeginShutdown
      <4>2. timerKey[t] = k /\ active[k] # NoTimer
        BY <4>1 DEF TrackedTimerIsNewest, Timer, NoTimer
      <4>3. k \in pending' /\ RuleOf[k] = q
        BY <1>9, <2>3, <4>2 DEF BeginShutdown
      <4>4. QED
        BY <4>3 DEF HasCloser
    <3>3. QED
      BY <3>1, <3>2
  <2>4. QED
    BY <1>9, <2>1, <2>2, <2>3 DEF BeginShutdown, HasCloser
<1>10. ASSUME NEW k \in Key, ShutdownCloses(k) PROVE HasCloser(q)'
  <2>1. RuleOf[k] \in Rule /\ CloseCommand(RuleOf[k])
    BY <1>10 DEF ShutdownCloses
  <2>2. fw'[q] <= fw[q] /\ q \notin inherited
    BY <1>0, <2>1, CloseCommandEffect
  <2>3. q # RuleOf[k]
    BY <1>0, <2>1, CloseCommandEffect DEF NoDuplicateRule
  <2>4. HasCloser(q)
    BY <1>0, <1>1, <1>10, <2>2 DEF ShutdownCloses, Running
  <2>5. QED
    BY <1>10, <2>3, <2>4 DEF ShutdownCloses, HasCloser
<1>11. CASE RunShutdown \/ DetachChain \/ DeleteChain
  <2>1. fw'[q] = fw[q]
    BY <1>11 DEF RunShutdown, DetachChain, DeleteChain, NoRules
  <2>2. Running /\ UNCHANGED <<timer, timerKey, lpc, lkey, pending, inherited>>
    BY <1>11 DEF RunShutdown, DetachChain, DeleteChain, Running
  <2>3. QED
    BY <1>1, <2>1, <2>2 DEF HasCloser
<1>12. CASE Exit \/ Abort
  BY <1>12 DEF Exit, Abort, Stop, Running
<1>13. CASE Start
  <2>1. fw[q] > 0 /\ AfterInit(fw)[q] > 0
    BY <1>13 DEF Start, AfterInit, NoRules
  <2>2. QED
    BY <1>13, <2>1 DEF Start, Bookkeeping
<1>14. ASSUME NEW r \in Rule, RuleExpires(r) PROVE HasCloser(q)'
  <2>1. fw'[q] <= fw[q]
    BY <1>0, <1>14 DEF RuleExpires
  <2>2. QED
    BY <1>0, <1>1, <1>14, <2>1 DEF RuleExpires, HasCloser, Running
<1>15. CASE UNCHANGED vars
  BY <1>1, <1>15 DEF vars, HasCloser, Running
<1>16. QED
  BY <1>2, <1>3, <1>4, <1>5, <1>6, <1>7, <1>8, <1>9, <1>10, <1>11, <1>12, <1>13,
     <1>14, <1>15 DEF Next

\* Init establishes the inductive invariant.
LEMMA InitRules == Init => RuleInv
BY DEF Init, RuleInv, NoDuplicateRule, CheckStillHolds, Bookkeeping,
   TrackedTimerIsNewest, CloserExists, NoRules

\* With a sound check the inductive invariant holds throughout.
LEMMA RuleInvHolds == ASSUME SoundCheck PROVE Spec => []RuleInv
<1>1. TypeOK /\ RuleInv /\ [Next]_vars => RuleInv'
  BY NextTracked, NextBookkeeping, NextSingle, NextCloser DEF RuleInv
<1>2. QED
  BY <1>1, InitRules, InitType, NextType, PTL DEF Spec

\* With a template that checks rules soundly, no rule the daemon opened is left
\* without a closer while it runs, unless its close command fails, in every
\* interleaving of requests, timers, late CloseRules and Shutdown.
THEOREM RulesAreClosed == ASSUME SoundCheck PROVE Spec => []CloserExists
BY RuleInvHolds, PTL DEF RuleInv

\* With a sound check no rule is ever in force twice, so that one close
\* command removes it.
THEOREM RulesStaySingle == ASSUME SoundCheck PROVE Spec => []NoDuplicateRule
BY RuleInvHolds, PTL DEF RuleInv

\* With a sound check its answer still holds when the open command runs,
\* though timers and Shutdown run in between.
THEOREM CheckOutlivesTheGap == ASSUME SoundCheck PROVE Spec => []CheckStillHolds
BY RuleInvHolds, PTL DEF RuleInv

\* The map loses an armed timer only to a late CloseRule: every action
\* preserves ArmedTimersTracked.
LEMMA NextArmed ==
    TypeOK /\ TrackedTimerIsNewest /\ ArmedTimersTracked /\ [Next]_vars
      => ArmedTimersTracked'
<1> SUFFICES ASSUME TypeOK, TrackedTimerIsNewest, ArmedTimersTracked, [Next]_vars,
                    NEW t \in Timer, timer'[t] = "armed"
             PROVE  \/ active'[timerKey'[t]] = t
                    \/ \E u \in 1..(t - 1) : /\ timerKey'[u] = timerKey'[t]
                                            /\ timer'[u] = "done"
  BY DEF ArmedTimersTracked
<1> USE ActionAssumption DEF Timer, NoTimer
<1> DEFINE Was == \/ active[timerKey[t]] = t
                  \/ \E u \in 1..(t - 1) : timerKey[u] = timerKey[t] /\ timer[u] = "done"
<1>1. timer[t] = "armed" => Was
  BY DEF ArmedTimersTracked
<1>2. CASE ScheduleClose
  <2>1. last' \in Timer /\ last' = last + 1 /\ timer[last'] = "free"
    BY <1>2 DEF ScheduleClose, TypeOK
  <2>2. CASE t = last'
    BY <1>2, <2>1, <2>2 DEF ScheduleClose, TypeOK
  <2>3. CASE t # last'
    <3>1. timer'[t] = Stopped({lkey})[t] /\ timerKey'[t] = timerKey[t]
      BY <1>2, <2>1, <2>3, StoppedEffect DEF ScheduleClose, TypeOK
    <3>2. timer[t] = "armed" /\ active[lkey] # t
      BY <3>1 DEF Stopped, TypeOK
    <3>3. CASE active[timerKey[t]] = t
      <4>1. timerKey[t] # lkey
        BY <3>2, <3>3
      <4>2. active'[timerKey[t]] = t
        BY <1>2, <3>3, <4>1 DEF ScheduleClose, TypeOK
      <4>3. QED
        BY <3>1, <4>2
    <3>4. ASSUME NEW u \in 1..(t - 1), timerKey[u] = timerKey[t], timer[u] = "done"
          PROVE  timerKey'[u] = timerKey'[t] /\ timer'[u] = "done"
      <4>1. u \in Timer /\ u # last'
        BY <2>1, <3>4
      <4>2. timer'[u] = Stopped({lkey})[u] /\ timerKey'[u] = timerKey[u]
        BY <1>2, <2>1, <4>1, StoppedEffect DEF ScheduleClose, TypeOK
      <4>3. Stopped({lkey})[u] = "done"
        BY <3>4, <4>1 DEF Stopped
      <4>4. QED
        BY <3>1, <3>4, <4>2, <4>3
    <3>5. QED
      BY <1>1, <3>2, <3>3, <3>4
  <2>4. QED
    BY <2>2, <2>3
<1>3. ASSUME NEW c \in Timer, Forget(c)
      PROVE  \/ active'[timerKey'[t]] = t
             \/ \E u \in 1..(t - 1) : timerKey'[u] = timerKey'[t] /\ timer'[u] = "done"
  <2>1. timer[c] = "ran" /\ timer'[c] = "done" /\ timerKey' = timerKey
    BY <1>3 DEF Forget, TypeOK
  <2>2. t # c /\ timer[t] = "armed"
    BY <1>3, <2>1 DEF Forget, TypeOK
  <2>3. CASE active[timerKey[t]] = t /\ timerKey[c] = timerKey[t]
    <3>1. c \notin (t + 1)..last
      <4>1. timerKey[t] \in Key /\ active[timerKey[t]] # NoTimer
        BY <2>3 DEF TypeOK
      <4>2. \A u \in (t + 1)..last : timerKey[u] # timerKey[t]
        BY <2>3, <4>1 DEF TrackedTimerIsNewest
      <4>3. QED
        BY <2>3, <4>2
    <3>2. c \in 1..last
      BY <2>1 DEF TypeOK
    <3>3. c \in 1..(t - 1)
      BY <2>2, <3>1, <3>2
    <3>4. QED
      BY <2>1, <2>3, <3>3
  <2>4. CASE active[timerKey[t]] = t /\ timerKey[c] # timerKey[t]
    BY <1>3, <2>1, <2>4 DEF Forget, TypeOK
  <2>5. ASSUME NEW u \in 1..(t - 1), timerKey[u] = timerKey[t], timer[u] = "done"
        PROVE  timerKey'[u] = timerKey'[t] /\ timer'[u] = "done"
    BY <1>3, <2>5 DEF Forget, TypeOK
  <2>6. QED
    BY <1>1, <2>2, <2>3, <2>4, <2>5
<1>4. ASSUME NEW c \in Timer, TimerFires(c) \/ RunClose(c)
      PROVE  \/ active'[timerKey'[t]] = t
             \/ \E u \in 1..(t - 1) : timerKey'[u] = timerKey'[t] /\ timer'[u] = "done"
  <2>1. active' = active /\ timerKey' = timerKey /\ timer[t] = "armed"
    BY <1>4 DEF TimerFires, RunClose, TypeOK
  <2>2. \A u \in Timer : timer[u] = "done" => timer'[u] = "done"
    BY <1>4 DEF TimerFires, RunClose, TypeOK
  <2>3. QED
    BY <1>1, <2>1, <2>2
<1>5. CASE BeginShutdown
  <2>1. timer'[t] = Stopped(Key)[t] /\ timerKey' = timerKey /\ timerKey[t] \in Key
    BY <1>5 DEF BeginShutdown, TypeOK
  <2>2. timer[t] = "armed" /\ active[timerKey[t]] # t
    BY <2>1 DEF Stopped
  <2>3. PICK u \in 1..(t - 1) : timerKey[u] = timerKey[t] /\ timer[u] = "done"
    BY <1>1, <2>2
  <2>4. u \in Timer /\ timer'[u] = "done"
    BY <1>5, <2>3 DEF BeginShutdown, Stopped
  <2>5. QED
    BY <2>1, <2>3, <2>4
<1>6. CASE Exit \/ Abort
  BY <1>6 DEF Exit, Abort, Stop
<1>7. CASE \/ \E k \in Key : Request(k) \/ ShutdownCloses(k)
           \/ RunCheck \/ RunOpen \/ RunShutdown \/ DetachChain \/ DeleteChain \/ Start
           \/ \E r \in Rule : RuleExpires(r)
           \/ UNCHANGED vars
  <2>1. UNCHANGED timers
    BY <1>7 DEF Request, ShutdownCloses, RunCheck, RunOpen, RunShutdown,
       DetachChain, DeleteChain, Start, RuleExpires, vars, timers
  <2>2. QED
    BY <1>1, <2>1 DEF timers
<1>8. QED
  BY <1>2, <1>3, <1>4, <1>5, <1>6, <1>7 DEF Next

\* Whatever the templates do, a timer that is going to fire is in the map, or
\* an older timer of its key has closed its rule late.
THEOREM ArmedTimersAreTracked == Spec => []ArmedTimersTracked
<1>1. Init => TrackedTimerIsNewest /\ ArmedTimersTracked
  BY DEF Init, TrackedTimerIsNewest, ArmedTimersTracked
<1>2. QED
  BY <1>1, NextTracked, NextArmed, InitType, NextType, PTL DEF Spec

\* How far a shutdown command of which no part failed has come: a table or zone
\* is gone when Shutdown is over, and no packet is led through the chain of
\* iptables once it is detached, whether or not it could be deleted.
ShutdownTookEffect ==
    /\ proc = "flushed" /\ ~ unclean => ~ ready \/ ~ linked
    /\ proc = "detached" /\ ~ unclean => ~ linked

\* With the templates of iptables, nftables and firewalld, and a shutdown command
\* of which no part failed, no rule is in force when the process exits, whatever
\* the listener opened before, between and after the parts of the command and
\* whichever close commands failed.
THEOREM ExitLeavesNothing ==
    ASSUME HasShutdown, InParts \/ ChainGoes
    PROVE  Spec => []ExitLeavesNoRule
<1>1. Init => ShutdownTookEffect /\ Bookkeeping
  BY DEF Init, ShutdownTookEffect, Bookkeeping, NoRules
<1>2. TypeOK /\ ShutdownTookEffect /\ [Next]_vars => ShutdownTookEffect'
  <2> SUFFICES ASSUME TypeOK, ShutdownTookEffect, [Next]_vars
               PROVE  ShutdownTookEffect'
    OBVIOUS
  <2>1. CASE RunShutdown
    BY <2>1 DEF RunShutdown, CommandFails, ShutdownTookEffect
  <2>2. CASE DetachChain
    BY <2>2 DEF DetachChain, CommandFails, ShutdownTookEffect
  <2>3. CASE DeleteChain
    BY <2>3 DEF DeleteChain, CommandFails, ShutdownTookEffect
  <2>4. CASE BeginShutdown \/ Exit \/ Abort \/ Start
    BY <2>4 DEF BeginShutdown, Exit, Abort, Stop, Start, ShutdownTookEffect
  <2>5. CASE \/ \E k \in Key : Request(k) \/ ShutdownCloses(k)
             \/ RunCheck \/ RunOpen \/ ScheduleClose
             \/ \E t \in Timer : TimerFires(t) \/ RunClose(t) \/ Forget(t)
             \/ \E r \in Rule : RuleExpires(r)
             \/ UNCHANGED vars
    <3>1. UNCHANGED <<ready, linked, proc, unclean>>
      BY <2>5 DEF Request, ShutdownCloses, RunCheck, RunOpen, ScheduleClose,
         TimerFires, RunClose, Forget, RuleExpires, vars
    <3> QED
      BY <3>1 DEF ShutdownTookEffect
  <2> QED
    BY <2>1, <2>2, <2>3, <2>4, <2>5 DEF Next
<1>3. TypeOK /\ ShutdownTookEffect /\ Bookkeeping => ExitLeavesNoRule
  <2> SUFFICES ASSUME TypeOK, ShutdownTookEffect, Bookkeeping, proc = "flushed",
                      ~ unclean, NEW r \in Rule, InForce(r)
               PROVE  FALSE
    BY DEF ExitLeavesNoRule
  <2>1. linked /\ ready
    BY DEF InForce, ShutdownTookEffect, Bookkeeping, TypeOK
  <2> QED
    BY <2>1 DEF ShutdownTookEffect
<1>4. QED
  BY <1>1, <1>2, <1>3, NextBookkeeping, InitType, NextType, PTL DEF Spec

\* Whatever the templates do, the map tracks the newest timer of each key and
\* never a stopped one.
THEOREM MapTracksNewestTimer == Spec => []TrackedTimerIsNewest
<1>1. Init => TrackedTimerIsNewest
  BY DEF Init, TrackedTimerIsNewest
<1>2. QED
  BY <1>1, NextTracked, TypeCorrect, PTL DEF Spec
=============================================================================
