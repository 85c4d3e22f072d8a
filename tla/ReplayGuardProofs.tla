------------------------- MODULE ReplayGuardProofs -------------------------
(***************************************************************************)
(* Proofs about ReplayGuard, for every set of packets and every value of   *)
(* the bounds.  TypeCorrect and CacheForgets need no assumption beyond     *)
(* those on the constants; the others hold of a deployment that is         *)
(* Timely.                                                                 *)
(***************************************************************************)
EXTENDS ReplayGuard, TLAPS

\* The interval between purges is a positive number of ticks.
LEMMA PurgeIntervalNat == PurgeInterval \in Nat \ {0}
BY ConstAssumption DEF PurgeInterval, TTL

\* Every variable keeps its type: Init establishes TypeOK.
LEMMA InitType == Init => TypeOK
<1> SUFFICES ASSUME Init PROVE TypeOK
  OBVIOUS
<1>1. purgeDue \in mono..(mono + PurgeInterval)
  BY PurgeIntervalNat DEF Init
<1>2. stamp \in [Packet -> Int] /\ accepts \in [Packet -> Nat]
  BY ConstAssumption DEF Init
<1>3. QED
  BY <1>1, <1>2, ConstAssumption DEF Init, TypeOK

\* Every variable keeps its type: each action preserves TypeOK.
LEMMA NextType == TypeOK /\ [Next]_vars => TypeOK'
<1> SUFFICES ASSUME TypeOK, [Next]_vars PROVE TypeOK'
  OBVIOUS
<1> USE PurgeIntervalNat
<1>1. CASE Tick
  BY <1>1 DEF Tick, TypeOK
<1>2. CASE StepWallClock
  BY <1>2 DEF StepWallClock, TypeOK
<1>3. ASSUME NEW p \in Packet, ReadPacket(p) PROVE TypeOK'
  BY <1>3 DEF ReadPacket, TypeOK
<1>4. CASE CheckAge
  BY <1>4 DEF CheckAge, TypeOK
<1>5. CASE IsDuplicate
  BY <1>5 DEF IsDuplicate, Without, TypeOK
<1>6. CASE AddDigest
  <2>1. NewExpiry(mono) \in Nat
    BY ConstAssumption DEF NewExpiry, TTL, TypeOK
  <2>2. accepts' \in [Packet -> Nat]
    BY <1>6 DEF AddDigest, TypeOK
  <2>3. /\ DOMAIN entries' = DOMAIN entries \union {pkt}
        /\ entries' = [p \in DOMAIN entries' |-> entries'[p]]
        /\ \A p \in DOMAIN entries' : entries'[p] \in Nat
    BY <1>6, <2>1 DEF AddDigest, TypeOK
  <2>4. QED
    BY <1>6, <2>2, <2>3 DEF AddDigest, TypeOK
<1>7. CASE Purge
  BY <1>7 DEF Purge, Without, TypeOK
<1>8. CASE Restart
  BY <1>8, ConstAssumption DEF Restart, TypeOK
<1>9. CASE UNCHANGED vars
  BY <1>9 DEF vars, TypeOK
<1>10. QED
  BY <1>1, <1>2, <1>3, <1>4, <1>5, <1>6, <1>7, <1>8, <1>9 DEF Next

\* Type correctness: no interleaving of the serving goroutine, the purge, the
\* clocks and restarts takes a variable out of its type.
THEOREM TypeCorrect == Spec => []TypeOK
BY InitType, NextType, PTL DEF Spec
-----------------------------------------------------------------------------
\* The cache forgets: each action keeps the next purge within one interval of
\* every expiry, and the clock does not pass a purge that is due.
LEMMA NextLifetime ==
    TypeOK /\ EntryLifetimeBounded /\ [Next]_vars => EntryLifetimeBounded'
<1> SUFFICES ASSUME TypeOK, EntryLifetimeBounded, [Next]_vars
             PROVE  EntryLifetimeBounded'
  OBVIOUS
<1> DEFINE Due(d, e) == d <= e + PurgeInterval
<1>1. SUFFICES (\A p \in DOMAIN entries : Due(purgeDue, entries[p]))'
  <2>1. (\A p \in DOMAIN entries : Due(purgeDue, entries[p]))'
          => (\A p \in DOMAIN entries : mono <= entries[p] + PurgeInterval)'
    BY NextType, PurgeIntervalNat DEF TypeOK
  <2>2. QED
    BY <1>1, <2>1 DEF EntryLifetimeBounded, PurgeInterval, TTL
<1>2. \A p \in DOMAIN entries : Due(purgeDue, entries[p])
  BY DEF EntryLifetimeBounded
<1>3. CASE AddDigest
  <2>1. Due(purgeDue, NewExpiry(mono))
    BY ConstAssumption, PurgeIntervalNat DEF TypeOK, NewExpiry, TTL
  <2>2. QED
    BY <1>2, <1>3, <2>1 DEF AddDigest
<1>4. CASE Purge
  <2>1. \A p \in DOMAIN entries' :
           p \in DOMAIN entries /\ entries'[p] = entries[p] /\ mono <= entries[p]
    BY <1>4 DEF Purge, Without, Expired, TypeOK
  <2>2. purgeDue' = mono + PurgeInterval
    BY <1>4 DEF Purge
  <2>3. QED
    BY <2>1, <2>2, PurgeIntervalNat DEF TypeOK
<1>5. CASE IsDuplicate
  BY <1>2, <1>5 DEF IsDuplicate, Without
<1>6. CASE Restart
  BY <1>6 DEF Restart
<1>7. CASE Tick \/ StepWallClock \/ (\E p \in Packet : ReadPacket(p)) \/ CheckAge
             \/ UNCHANGED vars
  BY <1>2, <1>7 DEF Tick, StepWallClock, ReadPacket, CheckAge, vars
<1>8. QED
  BY <1>3, <1>4, <1>5, <1>6, <1>7 DEF Next

\* No digest outlives its TTL by more than one purge interval, whatever the
\* rates of packets, purges and restarts.
THEOREM CacheForgets == Spec => []EntryLifetimeBounded
<1>1. Init => EntryLifetimeBounded
  BY DEF Init, EntryLifetimeBounded
<1>2. QED
  BY <1>1, NextLifetime, TypeCorrect, PTL DEF Spec
-----------------------------------------------------------------------------
\* The cache entry of an accepted packet outlives the packet's validity and
\* decisions in progress stay valid: each action preserves OnceInv.
LEMMA NextOnce ==
    ASSUME Timely
    PROVE  TypeOK /\ OnceInv /\ [Next]_vars => OnceInv'
<1> SUFFICES ASSUME TypeOK, OnceInv, [Next]_vars PROVE OnceInv'
  OBVIOUS
<1> USE ConstAssumption, NextType DEF OnceInv
<1>1. CASE Tick
  <2>1. EntryOutlivesValidity'
    BY <1>1 DEF Tick, TypeOK, EntryOutlivesValidity
  <2>2. DecisionStillValid'
    BY <1>1 DEF Tick, TypeOK, DecisionStillValid
  <2>3. QED
    BY <1>1, <2>1, <2>2 DEF Tick, AtMostOnce
<1>2. CASE StepWallClock
  BY <1>2 DEF StepWallClock, EntryOutlivesValidity, DecisionStillValid, AtMostOnce
<1>3. ASSUME NEW p \in Packet, ReadPacket(p) PROVE OnceInv'
  BY <1>3 DEF ReadPacket, EntryOutlivesValidity, DecisionStillValid, AtMostOnce
<1>4. CASE CheckAge
  <2>1. DecisionStillValid'
    <3>1. ~ TooOld(pkt) => mono + LeastOffset <= stamp[pkt] + MaxAge
      BY DEF TooOld, Timely, TypeOK
    <3>2. QED
      BY <1>4, <3>1 DEF CheckAge, DecisionStillValid, TypeOK
  <2>2. QED
    BY <1>4, <2>1 DEF CheckAge, EntryOutlivesValidity, AtMostOnce
<1>5. CASE IsDuplicate
  <2>1. CASE pc' = "idle"
    BY <1>5, <2>1 DEF IsDuplicate, EntryOutlivesValidity, DecisionStillValid, AtMostOnce
  <2>2. CASE pc' = "unseen"
    <3>1. pkt \in DOMAIN entries => Expired(entries[pkt], mono)
      BY <1>5, <2>2 DEF IsDuplicate
    <3>2. mono <= stamp[pkt] + MinTransit + MaxAge
      BY <1>5 DEF IsDuplicate, DecisionStillValid, Timely, TypeOK
    <3>3. accepts[pkt] = 0
      BY <3>1, <3>2 DEF EntryOutlivesValidity, Expired, TypeOK
    <3>4. EntryOutlivesValidity'
      BY <1>5, <2>2, <3>3 DEF IsDuplicate, Without, EntryOutlivesValidity
    <3>5. QED
      BY <1>5, <3>3, <3>4 DEF IsDuplicate, DecisionStillValid, AtMostOnce
  <2>3. QED
    BY <1>5, <2>1, <2>2 DEF IsDuplicate
<1>6. CASE AddDigest
  <2>1. NewExpiry(mono) >= stamp[pkt] + MinTransit + MaxAge
    BY <1>6 DEF AddDigest, DecisionStillValid, NewExpiry, TTL, TypeOK
  <2>2. EntryOutlivesValidity'
    BY <1>6, <2>1 DEF AddDigest, EntryOutlivesValidity, TypeOK
  <2>3. AtMostOnce'
    BY <1>6 DEF AddDigest, AtMostOnce, DecisionStillValid, TypeOK
  <2>4. QED
    BY <1>6, <2>2, <2>3 DEF AddDigest, DecisionStillValid
<1>7. CASE Purge
  <2>1. \A p \in DOMAIN entries : ~ Expired(entries[p], mono)
          => p \in DOMAIN entries' /\ entries'[p] = entries[p]
    BY <1>7 DEF Purge, Without
  <2>2. EntryOutlivesValidity'
    BY <1>7, <2>1 DEF Purge, EntryOutlivesValidity, Expired, TypeOK
  <2>3. QED
    BY <1>7, <2>2 DEF Purge, DecisionStillValid, AtMostOnce
<1>8. CASE Restart
  BY <1>8 DEF Restart, EntryOutlivesValidity, DecisionStillValid, AtMostOnce, TypeOK
<1>9. CASE UNCHANGED vars
  BY <1>9 DEF vars, EntryOutlivesValidity, DecisionStillValid, AtMostOnce
<1>10. QED
  BY <1>1, <1>2, <1>3, <1>4, <1>5, <1>6, <1>7, <1>8, <1>9 DEF Next

\* Init establishes the inductive invariant.
LEMMA InitOnce == Init => OnceInv
BY DEF Init, OnceInv, EntryOutlivesValidity, DecisionStillValid, AtMostOnce

\* In a Timely deployment the inductive invariant holds throughout.
LEMMA OnceInvHolds == ASSUME Timely PROVE Spec => []OnceInv
BY InitOnce, NextOnce, InitType, NextType, PTL DEF Spec

\* In a Timely deployment a life of the daemon accepts each packet at most
\* once, however often and in whatever order the network delivers it.
THEOREM AcceptsOnce == ASSUME Timely PROVE Spec => []AtMostOnce
BY OnceInvHolds, PTL DEF OnceInv

\* In a Timely deployment the cache entry of an accepted packet outlives its
\* validity, through every purge and every step of the wall clock.
THEOREM EntriesLastLongEnough == ASSUME Timely PROVE Spec => []EntryOutlivesValidity
BY OnceInvHolds, PTL DEF OnceInv

\* In a Timely deployment what the serving goroutine read earlier still binds
\* when it acts on it.
THEOREM DecisionsStayValid == ASSUME Timely PROVE Spec => []DecisionStillValid
BY OnceInvHolds, PTL DEF OnceInv
-----------------------------------------------------------------------------
\* A step of the guard is a step of Admission or a stutter: only AddDigest
\* admits, and it admits a packet that was not admitted and is not too late.
LEMMA AdmissionStep ==
    ASSUME Timely
    PROVE  TypeOK /\ OnceInv /\ [Next]_vars => [Admitting!Next]_(Admitting!vars)
<1> SUFFICES ASSUME TypeOK, OnceInv, [Next]_vars
             PROVE  [Admitting!Next]_(Admitting!vars)
  OBVIOUS
<1> USE DEF Admitting!Next, Admitting!vars
<1>1. CASE Tick
  BY <1>1 DEF Tick, Admitting!Pass
<1>2. CASE AddDigest
  <2>1. accepts[pkt] = 0
    BY <1>2 DEF AddDigest, OnceInv, DecisionStillValid
  <2>2. mono <= stamp[pkt] + (MaxAge + MaxPause - LeastOffset)
    BY <1>2, ConstAssumption DEF AddDigest, OnceInv, DecisionStillValid, TypeOK
  <2>3. accepts' = [accepts EXCEPT ![pkt] = 1]
    BY <1>2, <2>1 DEF AddDigest, TypeOK
  <2>4. Admitting!Admit(pkt)
    BY <1>2, <2>1, <2>2, <2>3 DEF AddDigest, Admitting!Admit
  <2>5. QED
    BY <2>4 DEF TypeOK
<1>3. CASE Restart
  BY <1>3 DEF Restart, Admitting!NewLife
<1>4. CASE StepWallClock \/ (\E p \in Packet : ReadPacket(p)) \/ CheckAge
             \/ IsDuplicate \/ Purge \/ UNCHANGED vars
  BY <1>4 DEF StepWallClock, ReadPacket, CheckAge, IsDuplicate, Purge, vars
<1>5. QED
  BY <1>1, <1>2, <1>3, <1>4 DEF Next

\* In a Timely deployment the age check and the cache implement Admission.
THEOREM RefinesAdmission ==
    ASSUME Timely
    PROVE  Spec => ImplementsAdmission
<1>1. Init => Admitting!Init
  BY ConstAssumption DEF Init, Admitting!Init
<1>2. QED
  BY <1>1, OnceInvHolds, AdmissionStep, TypeCorrect, PTL
     DEF Spec, ImplementsAdmission, Admitting!Spec
=============================================================================
