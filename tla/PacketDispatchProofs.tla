------------------------ MODULE PacketDispatchProofs ------------------------
(***************************************************************************)
(* Proofs about PacketDispatch, for every set of packets, senders, access  *)
(* files and networks.                                                     *)
(***************************************************************************)
EXTENDS PacketDispatch, SequenceTheorems, TLAPS

\* An access file that loads is a sequence, and its timeouts are positive.
LEMMA LoadedFile ==
    ASSUME NEW c \in AccessConfigs
    PROVE  /\ Len(c) \in Nat /\ DOMAIN c = 1..Len(c)
           /\ \A i \in 1..Len(c) : c[i].timeout \in Nat \ {0} /\ c[i].maxTimeout \in Nat \ {0}
<1>1. PICK f \in Policies : c = [i \in DOMAIN f |-> Resolve(f[i])]
  BY DEF AccessConfigs
<1>2. Len(f) \in Nat /\ DOMAIN f = 1..Len(f)
  BY DispatchAssumption
<1> DEFINE S == {Resolve(f[i]) : i \in 1..Len(f)}
<1>3. c \in [1..Len(f) -> S]
  BY <1>1, <1>2
<1>4. c \in Seq(S)
  BY <1>2, <1>3, SeqDef
<1>5. Len(c) \in Nat /\ DOMAIN c = 1..Len(c)
  BY <1>4, LenProperties
<1>6. ASSUME NEW i \in 1..Len(c)
      PROVE  c[i].timeout \in Nat \ {0} /\ c[i].maxTimeout \in Nat \ {0}
  <2>1. i \in 1..Len(f) /\ c[i] = Resolve(f[i])
    BY <1>1, <1>2, <1>3, <1>5
  <2>2. f[i].timeout \in Nat /\ f[i].maxTimeout \in Nat
    BY <2>1, DispatchAssumption
  <2>3. QED
    BY <2>1, <2>2, DispatchAssumption DEF Resolve
<1>7. QED
  BY <1>5, <1>6

\* A packet that a stanza has taken up: the first that admits its sender and
\* opens it; what has been checked so far holds, and once it is recorded no
\* copy of it has been acted upon or refused.
Fits(i, ip, p) == MatchSource(stanzas[i], ip) /\ Decrypts(stanzas[i], Msg[p])
Decided ==
    /\ pc # "idle" => \A i \in 1..(idx - 1) : ~ Fits(i, src, pkt)
    /\ pc \in {"replay", "user", "source", "dispatch"} => Fits(idx, src, pkt)
    /\ pc \in {"source", "dispatch"} => stanza.user \in {NoUser, msg.user}
    /\ pc = "dispatch" => (stanza.requireSource => ContainsIP(msg.ip, src)) /\ ~ Test
Recorded ==
    /\ \A e \in effects : e.pkt \in seen
    /\ refused \subseteq seen
    /\ pc \in {"user", "source", "dispatch"} =>
          pkt \in seen /\ pkt \notin refused /\ \A e \in effects : e.pkt # pkt

\* Init establishes the types.
LEMMA InitType == Init => TypeOK
<1> SUFFICES ASSUME Init PROVE TypeOK
  OBVIOUS
<1>1. Len(stanzas) \in Nat
  BY LoadedFile DEF Init
<1>2. QED
  BY <1>1 DEF Init, TypeOK

\* Each action preserves the types.
LEMMA NextType == TypeOK /\ [Next]_vars => TypeOK'
<1> SUFFICES ASSUME TypeOK, [Next]_vars PROVE TypeOK'
  OBVIOUS
<1>0. Len(stanzas) \in Nat
  BY LoadedFile DEF TypeOK
<1>1. ASSUME NEW p \in Packet, GrowStale(p) PROVE TypeOK'
  BY <1>1 DEF GrowStale, TypeOK
<1>2. ASSUME NEW p \in Packet, NEW ip \in Address, Receive(p, ip) PROVE TypeOK'
  BY <1>0, <1>2 DEF Receive, TypeOK
<1>3. CASE SkipStanza
  BY <1>0, <1>3 DEF SkipStanza, TypeOK
<1>4. CASE NoStanza
  BY <1>4 DEF NoStanza, TypeOK
<1>5. CASE CheckAge
  BY <1>5 DEF CheckAge, TypeOK
<1>6. CASE CheckReplay
  BY <1>6 DEF CheckReplay, TypeOK
<1>7. CASE CheckUser
  BY <1>7 DEF CheckUser, PassOrRefuse, TypeOK
<1>8. CASE CheckSource
  BY <1>8 DEF CheckSource, PassOrRefuse, TypeOK
<1>9. CASE RunCommand
  BY <1>0, <1>9 DEF RunCommand, ActOrRefuse, TypeOK
<1>10. CASE OpenAccess
  BY <1>0, <1>10 DEF OpenAccess, ActOrRefuse, TypeOK
<1>11. CASE UNCHANGED vars
  BY <1>11 DEF vars, TypeOK
<1>12. QED
  BY <1>1, <1>2, <1>3, <1>4, <1>5, <1>6, <1>7, <1>8, <1>9, <1>10, <1>11 DEF Next, Step

\* The types of the packet dispatch hold whatever the packets and the files.
THEOREM TypeCorrect == Spec => []TypeOK
BY InitType, NextType, PTL DEF Spec

\* What has been decided about the packet at hand stays decided.
LEMMA NextDecided == TypeOK /\ Decided /\ [Next]_vars => Decided'
<1> SUFFICES ASSUME TypeOK, Decided, [Next]_vars PROVE Decided'
  OBVIOUS
<1>0. Len(stanzas) \in Nat
  BY LoadedFile DEF TypeOK
<1>1. ASSUME NEW p \in Packet, GrowStale(p) PROVE Decided'
  BY <1>1 DEF GrowStale, Decided, Fits, stanza, msg
<1>2. ASSUME NEW p \in Packet, NEW ip \in Address, Receive(p, ip) PROVE Decided'
  BY <1>2 DEF Receive, Decided, stanza, msg
<1>3. CASE SkipStanza
  <2>1. ~ Fits(idx, src, pkt)
    BY <1>3 DEF SkipStanza, Fits, stanza, msg
  <2>2. \A i \in 1..(idx' - 1) : i = idx \/ i \in 1..(idx - 1)
    BY <1>0, <1>3 DEF SkipStanza, TypeOK
  <2>3. \A i \in 1..(idx' - 1) : ~ Fits(i, src, pkt)
    BY <1>3, <2>1, <2>2 DEF SkipStanza, Decided
  <2>4. pc' = "match" /\ stanzas' = stanzas /\ src' = src /\ pkt' = pkt
    BY <1>3 DEF SkipStanza
  <2>5. QED
    BY <2>3, <2>4 DEF Decided, Fits
<1>4. CASE NoStanza
  BY <1>4 DEF NoStanza, Decided, stanza, msg
<1>5. CASE CheckAge
  BY <1>5 DEF CheckAge, Decided, Fits, stanza, msg
<1>6. CASE CheckReplay
  BY <1>6 DEF CheckReplay, Decided, Fits, stanza, msg
<1>7. CASE CheckUser
  BY <1>7 DEF CheckUser, PassOrRefuse, Decided, Fits, stanza, msg
<1>8. CASE CheckSource
  BY <1>8 DEF CheckSource, PassOrRefuse, Decided, Fits, stanza, msg
<1>9. CASE RunCommand \/ OpenAccess
  BY <1>9 DEF RunCommand, OpenAccess, ActOrRefuse, Decided, stanza, msg
<1>10. CASE UNCHANGED vars
  BY <1>10 DEF vars, Decided, Fits, stanza, msg
<1>11. QED
  BY <1>1, <1>2, <1>3, <1>4, <1>5, <1>6, <1>7, <1>8, <1>9, <1>10 DEF Next, Step

\* A packet is acted upon only after it is recorded, once, and not if refused.
LEMMA NextRecorded == TypeOK /\ Recorded /\ [Next]_vars => Recorded'
<1> SUFFICES ASSUME TypeOK, Recorded, [Next]_vars PROVE Recorded'
  OBVIOUS
<1>1. ASSUME NEW p \in Packet, GrowStale(p) PROVE Recorded'
  BY <1>1 DEF GrowStale, Recorded
<1>2. ASSUME NEW p \in Packet, NEW ip \in Address, Receive(p, ip) PROVE Recorded'
  BY <1>2 DEF Receive, Recorded
<1>3. CASE SkipStanza \/ NoStanza
  BY <1>3 DEF SkipStanza, NoStanza, Recorded
<1>4. CASE CheckAge
  BY <1>4 DEF CheckAge, Recorded
<1>5. CASE CheckReplay
  BY <1>5 DEF CheckReplay, Recorded
<1>6. CASE CheckUser
  BY <1>6 DEF CheckUser, PassOrRefuse, Recorded
<1>7. CASE CheckSource
  BY <1>7 DEF CheckSource, PassOrRefuse, Recorded
<1>8. CASE RunCommand
  BY <1>8 DEF RunCommand, ActOrRefuse, Recorded
<1>9. CASE OpenAccess
  BY <1>9 DEF OpenAccess, ActOrRefuse, Recorded
<1>10. CASE UNCHANGED vars
  BY <1>10 DEF vars, Recorded
<1>11. QED
  BY <1>1, <1>2, <1>3, <1>4, <1>5, <1>6, <1>7, <1>8, <1>9, <1>10 DEF Next, Step

\* A client timeout that fits an int stays within the stanza's bounds.
LEMMA TimeoutBounds ==
    ASSUME NEW m, NEW s, m.timeout \in Nat, ToInt(m.timeout) = m.timeout,
           s.timeout \in Nat, s.maxTimeout \in Nat
    PROVE  /\ EffectiveTimeout(m, s) >= 0
           /\ EffectiveTimeout(m, s) <= s.maxTimeout \/ EffectiveTimeout(m, s) = s.timeout
BY DEF EffectiveTimeout

\* An effect is within the policy of the stanza that decides.
LEMMA ActionWithinPolicy ==
    TypeOK /\ Decided /\ ActsWithinPolicy /\ (RunCommand \/ OpenAccess) => ActsWithinPolicy'
<1> SUFFICES ASSUME TypeOK, Decided, ActsWithinPolicy, RunCommand \/ OpenAccess,
                    NEW e \in effects'
             PROVE  LET s == stanzas[e.idx] m == Msg[e.pkt]
                    IN  /\ ~ Test
                        /\ (\E n \in s.nets : e.src \in Covers[n]) /\ s.key = m.key
                        /\ s.user # NoUser => s.user = m.user
                        /\ e.kind = "exec" => s.cmdExec /\ m.command
                        /\ e.kind = "open" =>
                              /\ ~ m.command
                              /\ s.ports # {} => Fold[e.port] \in {Fold[a] : a \in s.ports}
                              /\ s.requireSource => AddrOf[e.ip] = e.src
  BY DEF ActsWithinPolicy, RunCommand, OpenAccess, ActOrRefuse
<1>1. CASE e \in effects
  BY <1>1 DEF ActsWithinPolicy
<1>2. ASSUME e \notin effects
      PROVE  /\ pc = "dispatch" /\ e.pkt = pkt /\ e.src = src /\ e.idx = idx
             /\ \/ e.kind = "exec" /\ msg.command /\ stanza.cmdExec
                \/ /\ e.kind = "open" /\ ~ msg.command /\ AllowsPort(stanza, msg.port)
                   /\ e.ip = RuleIP(msg, src) /\ e.port = msg.port
  BY <1>2 DEF RunCommand, OpenAccess, ActOrRefuse
<1>3. ASSUME e \notin effects, stanza.requireSource PROVE AddrOf[RuleIP(msg, src)] = src
  <2>1. ContainsIP(msg.ip, src)
    BY <1>2, <1>3 DEF Decided
  <2>2. AddrOf[src] = src
    BY DispatchAssumption DEF TypeOK
  <2>3. QED
    BY <2>1, <2>2 DEF ContainsIP, RuleIP
<1>4. ASSUME e \notin effects
      PROVE  /\ ~ Test /\ MatchSource(stanza, src) /\ stanza.key = msg.key
             /\ stanza.user \in {NoUser, msg.user}
  BY <1>2, <1>4 DEF Decided, Fits, Decrypts, stanza, msg
<1>5. QED
  BY <1>1, <1>2, <1>3, <1>4 DEF MatchSource, AllowsPort, stanza, msg

\* Whatever the daemon does, one stanza allows it: networks, keys, user, port,
\* command and source address hold of what is done.
THEOREM ActionsStayWithinPolicy == Spec => []ActsWithinPolicy
<1>1. Init => Decided /\ ActsWithinPolicy
  BY DEF Init, Decided, ActsWithinPolicy
<1>2. TypeOK /\ Decided /\ ActsWithinPolicy /\ [Next]_vars => ActsWithinPolicy'
  <2> SUFFICES ASSUME TypeOK, Decided, ActsWithinPolicy, [Next]_vars
               PROVE  ActsWithinPolicy'
    OBVIOUS
  <2>1. CASE RunCommand \/ OpenAccess
    BY <2>1, ActionWithinPolicy
  <2>2. CASE UNCHANGED <<stanzas, effects>>
    BY <2>2 DEF ActsWithinPolicy
  <2>3. QED
    BY <2>1, <2>2 DEF Next, Step, GrowStale, Receive, SkipStanza, NoStanza, CheckAge,
       CheckReplay, CheckUser, CheckSource, PassOrRefuse, vars
<1>3. QED
  BY <1>1, <1>2, TypeCorrect, NextDecided, PTL DEF Spec

\* The first stanza that admits the sender and opens the packet decides.
THEOREM FirstMatchAlwaysDecides == Spec => []FirstMatchDecides
<1>1. Init => Decided /\ FirstMatchDecides
  BY DEF Init, Decided, FirstMatchDecides
<1>2. TypeOK /\ Decided /\ FirstMatchDecides /\ [Next]_vars => FirstMatchDecides'
  <2> SUFFICES ASSUME TypeOK, Decided, FirstMatchDecides, [Next]_vars
               PROVE  FirstMatchDecides'
    OBVIOUS
  <2>1. CASE RunCommand \/ OpenAccess
    <3> SUFFICES ASSUME NEW e \in effects', NEW i \in 1..(e.idx - 1)
                 PROVE  ~ /\ \E n \in stanzas[i].nets : e.src \in Covers[n]
                          /\ stanzas[i].key = Msg[e.pkt].key
      BY <2>1 DEF FirstMatchDecides, RunCommand, OpenAccess, ActOrRefuse
    <3>1. CASE e \in effects
      BY <3>1 DEF FirstMatchDecides
    <3>2. CASE e \notin effects
      <4>1. pc = "dispatch" /\ e.pkt = pkt /\ e.src = src /\ e.idx = idx
        BY <2>1, <3>2 DEF RunCommand, OpenAccess, ActOrRefuse
      <4>2. ~ Fits(i, src, pkt)
        BY <4>1 DEF Decided
      <4>3. QED
        BY <4>1, <4>2 DEF Fits, MatchSource, Decrypts
    <3>3. QED
      BY <3>1, <3>2
  <2>2. CASE UNCHANGED <<stanzas, effects>>
    BY <2>2 DEF FirstMatchDecides
  <2>3. QED
    BY <2>1, <2>2 DEF Next, Step, GrowStale, Receive, SkipStanza, NoStanza, CheckAge,
       CheckReplay, CheckUser, CheckSource, PassOrRefuse, vars
<1>3. QED
  BY <1>1, <1>2, TypeCorrect, NextDecided, PTL DEF Spec

\* A packet is acted upon at most once.
THEOREM PacketsActOnce == Spec => []ActsOnce
<1>1. Init => Recorded /\ ActsOnce
  BY DEF Init, Recorded, ActsOnce
<1>2. Recorded /\ ActsOnce /\ [Next]_vars => ActsOnce'
  <2> SUFFICES ASSUME Recorded, ActsOnce, [Next]_vars PROVE ActsOnce'
    OBVIOUS
  <2>1. CASE RunCommand
    BY <2>1 DEF RunCommand, ActOrRefuse, Recorded, ActsOnce
  <2>2. CASE OpenAccess
    BY <2>2 DEF OpenAccess, ActOrRefuse, Recorded, ActsOnce
  <2>3. CASE UNCHANGED effects
    BY <2>3 DEF ActsOnce
  <2>4. QED
    BY <2>1, <2>2, <2>3 DEF Next, Step, GrowStale, Receive, SkipStanza, NoStanza, CheckAge,
       CheckReplay, CheckUser, CheckSource, PassOrRefuse, vars
<1>3. QED
  BY <1>1, <1>2, TypeCorrect, NextRecorded, PTL DEF Spec

\* A packet that was turned down is never acted upon, nor one acted upon turned
\* down later.
THEOREM RefusalsAreFinal == Spec => []RefusalIsFinal
<1>1. Init => Recorded /\ RefusalIsFinal
  BY DEF Init, Recorded, RefusalIsFinal
<1>2. Recorded /\ RefusalIsFinal /\ [Next]_vars => RefusalIsFinal'
  <2> SUFFICES ASSUME Recorded, RefusalIsFinal, [Next]_vars PROVE RefusalIsFinal'
    OBVIOUS
  <2>1. CASE RunCommand
    BY <2>1 DEF RunCommand, ActOrRefuse, Recorded, RefusalIsFinal
  <2>2. CASE OpenAccess
    BY <2>2 DEF OpenAccess, ActOrRefuse, Recorded, RefusalIsFinal
  <2>3. CASE CheckUser \/ CheckSource
    BY <2>3 DEF CheckUser, CheckSource, PassOrRefuse, Recorded, RefusalIsFinal
  <2>4. CASE UNCHANGED <<effects, refused>>
    BY <2>4 DEF RefusalIsFinal
  <2>5. QED
    BY <2>1, <2>2, <2>3, <2>4 DEF Next, Step, GrowStale, Receive, SkipStanza, NoStanza,
       CheckAge, CheckReplay, vars
<1>3. QED
  BY <1>1, <1>2, TypeCorrect, NextRecorded, PTL DEF Spec

\* Where every timeout a client can ask for fits an int, the timer of a rule is
\* not negative and stays within its stanza's bounds.
THEOREM TimeoutsAreBounded ==
    ASSUME \A p \in Packet : ToInt(Msg[p].timeout) = Msg[p].timeout
    PROVE  Spec => []TimeoutBounded
<1>1. Init => TimeoutBounded
  BY DEF Init, TimeoutBounded
<1>2. TypeOK /\ TimeoutBounded /\ [Next]_vars => TimeoutBounded'
  <2> SUFFICES ASSUME TypeOK, TimeoutBounded, [Next]_vars PROVE TimeoutBounded'
    OBVIOUS
  <2>1. CASE RunCommand
    BY <2>1 DEF RunCommand, ActOrRefuse, TimeoutBounded
  <2>2. CASE OpenAccess
    <3>1. stanza.timeout \in Nat /\ stanza.maxTimeout \in Nat
      BY <2>2, LoadedFile DEF OpenAccess, ActOrRefuse, TypeOK, stanza
    <3>2. msg.timeout \in Nat /\ ToInt(msg.timeout) = msg.timeout
      BY DispatchAssumption DEF TypeOK, msg
    <3>3. /\ EffectiveTimeout(msg, stanza) >= 0
          /\ \/ EffectiveTimeout(msg, stanza) <= stanza.maxTimeout
             \/ EffectiveTimeout(msg, stanza) = stanza.timeout
      BY <3>1, <3>2, TimeoutBounds
    <3>4. QED
      BY <2>2, <3>3 DEF OpenAccess, ActOrRefuse, TimeoutBounded, stanza
  <2>3. CASE UNCHANGED <<stanzas, effects>>
    BY <2>3 DEF TimeoutBounded
  <2>4. QED
    BY <2>1, <2>2, <2>3 DEF Next, Step, GrowStale, Receive, SkipStanza, NoStanza, CheckAge,
       CheckReplay, CheckUser, CheckSource, PassOrRefuse, vars
<1>3. QED
  BY <1>1, <1>2, TypeCorrect, PTL DEF Spec
=============================================================================
