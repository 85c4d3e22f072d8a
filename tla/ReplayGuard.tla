---------------------------- MODULE ReplayGuard ----------------------------
(***************************************************************************)
(* The age check and the replay cache of fwknopd: cmd/fwknopd/replay.go    *)
(* and the steps of processSPAPacket that use it.  One goroutine serves    *)
(* packets; a second one purges the cache.  The age check reads the wall   *)
(* clock (a parsed timestamp carries no monotonic reading), the cache      *)
(* compares monotonic readings, and the three readings that decide about   *)
(* a packet are taken at three different times.                            *)
(*                                                                         *)
(* The network may deliver a packet any number of times and in any order,  *)
(* the wall clock may be stepped, and the daemon may be restarted, which   *)
(* empties the cache.                                                      *)
(***************************************************************************)
EXTENDS Integers, FiniteSets

CONSTANTS
    Packet,       \* wire texts that some stanza decrypts, one per digest; without an
                  \* HMAC several may hold one message (base64.go ignores line breaks)
    Stamps,       \* timestamps clients put into packets
    MaxAge,       \* max_spa_packet_age; 0 = no limit
    MinPurge,     \* least interval between purges
    MinTransit,   \* a packet arrives no sooner than this after its timestamp;
                  \* negative when the client's clock runs ahead
    MaxPause,     \* longest time from the age check to the cache update
    Offsets,      \* differences between the wall clock and the monotonic clock
    LeastOffset,  \* the smallest of them: the wall clock stepped furthest back
    MaxTime,      \* bound on the monotonic clock
    MaxRestarts   \* bound on restarts

ASSUME ConstAssumption ==
    /\ Stamps \subseteq Int
    /\ Offsets \subseteq Int
    /\ 0 \in Offsets
    /\ LeastOffset \in Offsets
    /\ \A o \in Offsets : LeastOffset <= o
    /\ MaxAge \in Nat
    /\ MinPurge \in Nat \ {0}
    /\ MinTransit \in Int
    /\ MaxPause \in Nat
    /\ MaxTime \in Nat
    /\ MaxRestarts \in Nat

VARIABLES
    mono,      \* monotonic clock of the host
    offset,    \* wall clock minus monotonic clock
    stamp,     \* the timestamp in each packet, fixed when the client made it
    entries,   \* replayCache.entries: digest -> expiry, a partial function
    purgeDue,  \* when the purge ticker fires next
    pc,        \* where processSPAPacket stands with the packet it serves
    pkt,       \* the packet being served
    agedAt,    \* when its age was checked
    accepts,   \* history: how often each packet passed in this life
    past,      \* history: packets that passed in an earlier life
    restarts   \* how often the daemon was restarted

clocks == <<mono, offset>>
cache  == <<entries, purgeDue>>
server == <<pc, pkt, agedAt>>
vars   == <<mono, offset, stamp, entries, purgeDue, pc, pkt, agedAt,
            accepts, past, restarts>>
-----------------------------------------------------------------------------
(* The arithmetic of the cache *)

\* A fault: the TTL is half the age limit.
HalfTTL == MaxAge \div 2

\* run: the TTL of the cache is the age limit, the limit "none" included.
TTL == MaxAge

\* A fault: the interval is twice the TTL, not half of it.
SlowPurge == IF TTL * 2 < MinPurge THEN MinPurge ELSE TTL * 2

\* newReplayCache: purge every ttl/2, but no more often than the floor.
PurgeInterval ==
    IF TTL \div 2 < MinPurge THEN MinPurge ELSE TTL \div 2

\* A fault: the TTL is subtracted.
BackwardExpiry(now) == now - TTL

\* add: an entry expires one TTL after it is made.
NewExpiry(now) == now + TTL

\* A fault: an entry is dropped at its expiry already.
ExpiredEarly(exp, now) == now >= exp

\* time.Now().After(exp) is strict: an entry still counts at its expiry.
Expired(exp, now) == now > exp

\* A fault: a packet one tick over the limit passes.
TooOldLate(p) == MaxAge > 0 /\ (mono + offset) - stamp[p] > MaxAge + 1

\* The age check of processSPAPacket, on the wall clock; MaxAge = 0 skips it.
TooOld(p) == MaxAge > 0 /\ (mono + offset) - stamp[p] > MaxAge

Without(f, S) == [p \in DOMAIN f \ S |-> f[p]]
-----------------------------------------------------------------------------
Init ==
    /\ mono = 0
    /\ offset = 0
    /\ stamp \in [Packet -> Stamps]
    /\ entries = [p \in {} |-> 0]
    /\ purgeDue = PurgeInterval
    /\ pc = "idle"
    /\ pkt \in Packet
    /\ agedAt = 0
    /\ accepts = [p \in Packet |-> 0]
    /\ past = {}
    /\ restarts = 0

(* The environment *)

\* Time passes.  The ticker is not late, and the serving goroutine is not
\* held up for more than MaxPause between its age check and its cache update.
Tick ==
    /\ mono < MaxTime
    /\ mono < purgeDue
    /\ pc \in {"aged", "unseen"} => mono < agedAt + MaxPause
    /\ mono' = mono + 1
    /\ UNCHANGED <<offset, stamp, entries, purgeDue, pc, pkt, agedAt,
                   accepts, past, restarts>>

\* Somebody steps the wall clock.
StepWallClock ==
    /\ offset' \in Offsets \ {offset}
    /\ UNCHANGED <<mono, stamp, entries, purgeDue, pc, pkt, agedAt,
                   accepts, past, restarts>>

(* The serving goroutine *)

\* ReadFromUDP returns a datagram, for the first time or again.
ReadPacket(p) ==
    /\ pc = "idle"
    /\ mono >= stamp[p] + MinTransit
    /\ pkt' = p
    /\ pc' = "read"
    /\ UNCHANGED <<mono, offset, stamp, entries, purgeDue, agedAt,
                   accepts, past, restarts>>

CheckAge ==
    /\ pc = "read"
    /\ pc' = IF TooOld(pkt) THEN "idle" ELSE "aged"
    /\ agedAt' = mono
    /\ UNCHANGED <<mono, offset, stamp, entries, purgeDue, pkt,
                   accepts, past, restarts>>

\* isDuplicate, one critical section: an expired entry is dropped on the way.
IsDuplicate ==
    /\ pc = "aged"
    /\ \/ /\ pkt \in DOMAIN entries
          /\ ~ Expired(entries[pkt], mono)
          /\ pc' = "idle"
          /\ UNCHANGED entries
       \/ /\ pkt \in DOMAIN entries => Expired(entries[pkt], mono)
          /\ pc' = "unseen"
          /\ entries' = Without(entries, {pkt})
    /\ UNCHANGED <<mono, offset, stamp, purgeDue, pkt, agedAt,
                   accepts, past, restarts>>

\* A fault: the packet passes without a record of it.
AcceptUnrecorded ==
    /\ pc = "unseen"
    /\ accepts' = [accepts EXCEPT ![pkt] = @ + 1]
    /\ pc' = "idle"
    /\ UNCHANGED <<mono, offset, stamp, entries, purgeDue, pkt, agedAt, past, restarts>>

\* add, the second critical section; the packet has passed.
AddDigest ==
    /\ pc = "unseen"
    /\ entries' = [p \in DOMAIN entries \union {pkt} |->
                     IF p = pkt THEN NewExpiry(mono) ELSE entries[p]]
    /\ accepts' = [accepts EXCEPT ![pkt] = @ + 1]
    /\ pc' = "idle"
    /\ UNCHANGED <<mono, offset, stamp, purgeDue, pkt, agedAt, past, restarts>>

(* The purging goroutine, one scan under the lock per tick of its ticker *)
Purge ==
    /\ mono >= purgeDue
    /\ entries' = Without(entries, {p \in DOMAIN entries : Expired(entries[p], mono)})
    /\ purgeDue' = mono + PurgeInterval
    /\ UNCHANGED <<mono, offset, stamp, pc, pkt, agedAt, accepts, past, restarts>>

\* The daemon stops at any point and starts again: nothing of the cache is kept.
Restart ==
    /\ restarts < MaxRestarts
    /\ restarts' = restarts + 1
    /\ entries' = [p \in {} |-> 0]
    /\ purgeDue' = mono + PurgeInterval
    /\ pc' = "idle"
    /\ past' = past \union {p \in Packet : accepts[p] > 0}
    /\ accepts' = [p \in Packet |-> 0]
    /\ UNCHANGED <<mono, offset, stamp, pkt, agedAt>>

Next ==
    \/ Tick
    \/ StepWallClock
    \/ \E p \in Packet : ReadPacket(p)
    \/ CheckAge
    \/ IsDuplicate
    \/ AddDigest
    \/ Purge
    \/ Restart

Spec == Init /\ [][Next]_vars
-----------------------------------------------------------------------------
(* Properties *)

\* What the deployment must ensure for the cache to outlive a packet's
\* validity: an age limit is set, and even with the wall clock stepped as far
\* back as it goes, the pause between age check and cache look-up is no longer
\* than the packet took to arrive.
Timely == MaxAge > 0 /\ MaxPause <= MinTransit + LeastOffset

\* Every variable holds a value of its type; expiries lie in the future of
\* the clock's origin and the next purge is never more than one interval away.
TypeOK ==
    /\ mono \in Nat
    /\ offset \in Offsets
    /\ stamp \in [Packet -> Int]
    /\ DOMAIN entries \subseteq Packet
    /\ entries = [p \in DOMAIN entries |-> entries[p]]
    /\ \A p \in DOMAIN entries : entries[p] \in Nat
    /\ purgeDue \in mono..(mono + PurgeInterval)
    /\ pc \in {"idle", "read", "aged", "unseen"}
    /\ pkt \in Packet
    /\ agedAt \in Nat
    /\ accepts \in [Packet -> Nat]
    /\ past \subseteq Packet
    /\ restarts \in 0..MaxRestarts

\* One life of the daemon accepts a packet at most once, however often the
\* network delivers it (replay.go: "to prevent replay attacks").
AtMostOnce == \A p \in Packet : accepts[p] <= 1

\* An accepted packet stays in the cache for as long as some reading of the
\* clocks could still find it young enough: the entry outlives the validity.
EntryOutlivesValidity ==
    \A p \in Packet : accepts[p] > 0 =>
        \/ p \in DOMAIN entries /\ entries[p] >= stamp[p] + MinTransit + MaxAge
        \/ mono > stamp[p] + MinTransit + MaxAge

\* The serving goroutine decides on readings it took earlier.  They still
\* bind: a packet past its age check is decided while a first acceptance
\* would still be in the cache, and one found unseen was never accepted.
DecisionStillValid ==
    /\ pc # "idle" => mono >= stamp[pkt] + MinTransit
    /\ pc \in {"aged", "unseen"} =>
          /\ agedAt <= mono
          /\ mono <= agedAt + MaxPause
          /\ agedAt + LeastOffset <= stamp[pkt] + MaxAge
    /\ pc = "unseen" => accepts[pkt] = 0

\* The cache forgets: no digest stays longer than its TTL and one purge
\* interval, so its size is bounded by the packets of that span.
EntryLifetimeBounded ==
    /\ \A p \in DOMAIN entries : purgeDue <= entries[p] + PurgeInterval
    /\ \A p \in DOMAIN entries :
          mono <= entries[p] + (IF MaxAge \div 2 < MinPurge THEN MinPurge
                                                            ELSE MaxAge \div 2)

\* Across restarts too a packet is accepted once.  The code does not give
\* this: the cache lives in memory only.
AcceptedOnceEver ==
    \A p \in Packet : p \in past => accepts[p] = 0

\* The inductive invariant behind AtMostOnce.
OnceInv == EntryOutlivesValidity /\ DecisionStillValid /\ AtMostOnce

Admitting == INSTANCE Admission
    WITH clock <- mono, admitted <- accepts,
         Grace <- MaxAge + MaxPause - LeastOffset

\* The guard implements the promise of Admission: at most one admission in a
\* life, and none after the validity and the slack of the clocks have run out.
ImplementsAdmission == Admitting!Spec
=============================================================================
