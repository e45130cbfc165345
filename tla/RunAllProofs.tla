---------------------------- MODULE RunAllProofs ----------------------------
(***************************************************************************)
(* Proofs about runAll, for every number of targets and every value of the *)
(* -concurrency flag.                                                      *)
(***************************************************************************)
EXTENDS RunAll, FiniteSetTheorems, TLAPS

\* The clamp of -concurrency leaves at least one permit.
LEMMA PermitsType ==
    ASSUME conc \in Concs
    PROVE  Permits \in Nat /\ Permits >= 1
  BY RunAllAssumption DEF Permits

\* The targets are finitely many.
LEMMA TargetsFinite == /\ IsFiniteSet(Targets)
                       /\ Cardinality(Targets) = N
                       /\ Cardinality(Targets) \in Nat
  BY RunAllAssumption, FS_Interval DEF Targets

\* The subsets of Targets the counters count are finite.
LEMMA CountType ==
    ASSUME NEW S \in SUBSET Targets
    PROVE  IsFiniteSet(S) /\ Cardinality(S) \in Nat /\ Cardinality(S) <= N
  BY TargetsFinite, FS_Subset, FS_CardinalityType

\* One member more raises the count by one.
LEMMA CountAdd ==
    ASSUME NEW S \in SUBSET Targets, NEW t \in Targets, t \notin S
    PROVE  Cardinality(S \cup {t}) = Cardinality(S) + 1
  BY CountType, FS_AddElement

\* One member less lowers the count by one.
LEMMA CountRemove ==
    ASSUME NEW S \in SUBSET Targets, NEW t \in S
    PROVE  Cardinality(S \ {t}) = Cardinality(S) - 1
  BY CountType, FS_RemoveElement

\* What moving one goroutine does to the three sets.
LEMMA MoveSets ==
    ASSUME TypeOK, NEW t \in Targets, NEW s \in GoroutineStages,
           gpc' = [gpc EXCEPT ![t] = s]
    PROVE  /\ gpc'[t] = s
           /\ \A u \in Targets : u # t => gpc'[u] = gpc[u]
           /\ Holders' = IF s \in {"probe", "send", "release"}
                           THEN Holders \cup {t} ELSE Holders \ {t}
           /\ Live' = IF s \in {"none", "exited"} THEN Live \ {t} ELSE Live \cup {t}
           /\ Sent' = IF s \in {"release", "done", "exited"}
                        THEN Sent \cup {t} ELSE Sent \ {t}
  BY DEF TypeOK, Holders, Live, Sent

\* Initially no goroutine exists and nothing has been sent.
LEMMA InitIndInv == Init => IndInv
  <1> SUFFICES ASSUME Init PROVE IndInv
    OBVIOUS
  <1>1. TypeOK
    <2>1. next \in 1 .. N + 1 /\ sem \in 0 .. Permits /\ wg \in Nat
      BY RunAllAssumption, PermitsType DEF Init
    <2>2. out \in Seq(Targets) /\ results \in Seq(Targets)
      BY DEF Init
    <2>3. gpc \in [Targets -> GoroutineStages]
      BY DEF Init, GoroutineStages
    <2>4. /\ main \in {"spawn", "close", "drain", "returned"}
          /\ closed \in BOOLEAN /\ panicked \in BOOLEAN /\ conc \in Concs
      BY DEF Init
    <2> QED
      BY <2>1, <2>2, <2>3, <2>4 DEF TypeOK
  <1>2. Holders = {} /\ Live = {} /\ Sent = {}
    BY DEF Init, Holders, Live, Sent
  <1>3. CountersExact
    BY <1>2, FS_EmptySet DEF Init, CountersExact
  <1>4. LaunchOrder
    BY RunAllAssumption DEF Init, LaunchOrder, Targets
  <1>5. DeliveredOnce
    BY <1>2, FS_EmptySet DEF Init, DeliveredOnce, Delivered
  <1> QED
    BY <1>1, <1>3, <1>4, <1>5 DEF IndInv

\* A goroutine that does not send moves between stages: the buffer, the slice
\* and the set of senders stay as they are.
LEMMA NoSendDelivered ==
    ASSUME IndInv, UNCHANGED <<conc, main, out, results>>, Sent' = Sent
    PROVE  DeliveredOnce'
  BY DEF IndInv, DeliveredOnce, Delivered

\* Taking a permit counts one more holder, of at most Permits.
LEMMA AcquireIndInv ==
    ASSUME IndInv, NEW t \in Targets, Acquire(t)
    PROVE  IndInv'
  <1> USE DEF IndInv
  <1>1. /\ gpc[t] = "acquire" /\ sem < Permits /\ sem' = sem + 1
        /\ gpc' = [gpc EXCEPT ![t] = "probe"]
        /\ UNCHANGED <<conc, main, next, wg, out, closed, results, panicked>>
    BY DEF Acquire, Goto
  <1>2. /\ gpc'[t] = "probe" /\ \A u \in Targets : u # t => gpc'[u] = gpc[u]
        /\ Holders' = Holders \cup {t} /\ Live' = Live \cup {t} /\ Sent' = Sent \ {t}
    BY <1>1, MoveSets DEF GoroutineStages
  <1>3. t \notin Holders /\ t \in Live /\ t \notin Sent
    BY <1>1 DEF Holders, Live, Sent
  <1>4. TypeOK'
    <2>1. sem' \in 0 .. Permits
      BY <1>1, PermitsType DEF TypeOK
    <2>2. gpc' \in [Targets -> GoroutineStages]
      BY <1>1 DEF TypeOK, GoroutineStages
    <2> QED
      BY <1>1, <2>1, <2>2 DEF TypeOK, Permits
  <1>5. CountersExact'
    <2>1. Cardinality(Holders') = Cardinality(Holders) + 1
      BY <1>2, <1>3, CountAdd DEF Holders
    <2>2. Live' = Live
      BY <1>2, <1>3
    <2> QED
      BY <1>1, <2>1, <2>2 DEF CountersExact
  <1>6. LaunchOrder'
    BY <1>1, <1>2, <1>3 DEF LaunchOrder
  <1>7. DeliveredOnce'
    BY <1>1, <1>2, <1>3, NoSendDelivered
  <1> QED
    BY <1>4, <1>5, <1>6, <1>7

\* A probe that returns changes neither counter.
LEMMA ProbeIndInv ==
    ASSUME IndInv, NEW t \in Targets, Probe(t)
    PROVE  IndInv'
  <1> USE DEF IndInv
  <1>1. /\ gpc[t] = "probe"
        /\ gpc' = [gpc EXCEPT ![t] = "send"]
        /\ UNCHANGED <<conc, main, next, sem, wg, out, closed, results, panicked>>
    BY DEF Probe, Goto
  <1>2. /\ gpc'[t] = "send" /\ \A u \in Targets : u # t => gpc'[u] = gpc[u]
        /\ Holders' = Holders \cup {t} /\ Live' = Live \cup {t} /\ Sent' = Sent \ {t}
    BY <1>1, MoveSets DEF GoroutineStages
  <1>3. Holders' = Holders /\ Live' = Live /\ Sent' = Sent
    BY <1>1, <1>2 DEF Holders, Live, Sent
  <1>4. TypeOK'
    BY <1>1 DEF TypeOK, Permits, GoroutineStages
  <1>5. CountersExact'
    BY <1>1, <1>3 DEF CountersExact
  <1>6. LaunchOrder'
    BY <1>1, <1>2, <1>3 DEF LaunchOrder
  <1>7. DeliveredOnce'
    BY <1>1, <1>3, NoSendDelivered
  <1> QED
    BY <1>4, <1>5, <1>6, <1>7

\* The deferred release counts one holder less.
LEMMA ReleaseIndInv ==
    ASSUME IndInv, NEW t \in Targets, Release(t)
    PROVE  IndInv'
  <1> USE DEF IndInv
  <1>1. /\ gpc[t] = "release" /\ sem' = sem - 1
        /\ gpc' = [gpc EXCEPT ![t] = "done"]
        /\ UNCHANGED <<conc, main, next, wg, out, closed, results, panicked>>
    BY DEF Release, Goto
  <1>2. /\ gpc'[t] = "done" /\ \A u \in Targets : u # t => gpc'[u] = gpc[u]
        /\ Holders' = Holders \ {t} /\ Live' = Live \cup {t} /\ Sent' = Sent \cup {t}
    BY <1>1, MoveSets DEF GoroutineStages
  <1>3. t \in Holders /\ Live' = Live /\ Sent' = Sent
    BY <1>1, <1>2 DEF Holders, Live, Sent
  <1>4. Cardinality(Holders') = Cardinality(Holders) - 1
    BY <1>2, <1>3, CountRemove DEF Holders
  <1>5. Cardinality(Holders') \in Nat
    BY CountType DEF Holders
  <1>6. TypeOK'
    <2>1. sem' \in 0 .. Permits
      BY <1>1, <1>4, <1>5, PermitsType DEF TypeOK, CountersExact
    <2>2. gpc' \in [Targets -> GoroutineStages]
      BY <1>1 DEF TypeOK, GoroutineStages
    <2> QED
      BY <1>1, <2>1, <2>2 DEF TypeOK, Permits
  <1>7. CountersExact'
    BY <1>1, <1>3, <1>4 DEF CountersExact
  <1>8. LaunchOrder'
    BY <1>1, <1>2, <1>3 DEF LaunchOrder
  <1>9. DeliveredOnce'
    BY <1>1, <1>3, NoSendDelivered
  <1> QED
    BY <1>6, <1>7, <1>8, <1>9

\* wg.Done counts one live goroutine less.
LEMMA DoneIndInv ==
    ASSUME IndInv, NEW t \in Targets, Done(t)
    PROVE  IndInv'
  <1> USE DEF IndInv
  <1>1. /\ gpc[t] = "done" /\ wg' = wg - 1
        /\ gpc' = [gpc EXCEPT ![t] = "exited"]
        /\ UNCHANGED <<conc, main, next, sem, out, closed, results, panicked>>
    BY DEF Done, Goto
  <1>2. /\ gpc'[t] = "exited" /\ \A u \in Targets : u # t => gpc'[u] = gpc[u]
        /\ Holders' = Holders \ {t} /\ Live' = Live \ {t} /\ Sent' = Sent \cup {t}
    BY <1>1, MoveSets DEF GoroutineStages
  <1>3. t \in Live /\ Holders' = Holders /\ Sent' = Sent
    BY <1>1, <1>2 DEF Holders, Live, Sent
  <1>4. Cardinality(Live') = Cardinality(Live) - 1
    BY <1>2, <1>3, CountRemove DEF Live
  <1>5. Cardinality(Live') \in Nat
    BY CountType DEF Live
  <1>6. TypeOK'
    <2>1. wg' \in Nat
      BY <1>1, <1>4, <1>5 DEF CountersExact
    <2>2. gpc' \in [Targets -> GoroutineStages]
      BY <1>1 DEF TypeOK, GoroutineStages
    <2> QED
      BY <1>1, <2>1, <2>2 DEF TypeOK, Permits
  <1>7. CountersExact'
    BY <1>1, <1>3, <1>4 DEF CountersExact
  <1>8. LaunchOrder'
    BY <1>1, <1>2, <1>3 DEF LaunchOrder
  <1>9. DeliveredOnce'
    BY <1>1, <1>3, NoSendDelivered
  <1> QED
    BY <1>6, <1>7, <1>8, <1>9

\* The drain moves one result from the buffer to the slice: together they
\* stay the same sequence.
LEMMA DrainKeepsDelivered ==
    ASSUME NEW r \in Seq(Targets), NEW o \in Seq(Targets), o # <<>>
    PROVE  Append(r, Head(o)) \o Tail(o) = r \o o
  <1> DEFINE a == Append(r, Head(o)) \o Tail(o)
             b == r \o o
  <1>1. Head(o) \in Targets /\ Tail(o) \in Seq(Targets) /\ Len(Tail(o)) = Len(o) - 1
    OBVIOUS
  <1>2. Append(r, Head(o)) \in Seq(Targets) /\ Len(Append(r, Head(o))) = Len(r) + 1
    BY <1>1
  <1>3. a \in Seq(Targets) /\ b \in Seq(Targets)
    BY <1>1, <1>2
  <1>4. Len(a) = Len(b)
    BY <1>1, <1>2
  <1>5. \A i \in 1 .. Len(a) : a[i] = b[i]
    BY <1>1, <1>2
  <1> QED
    BY <1>3, <1>4, <1>5

\* While a goroutine is alive runAll is in its loop or in wg.Wait, so the
\* channel is open and the slice empty.
LEMMA LiveMeansOpen ==
    ASSUME IndInv, NEW t \in Live
    PROVE  main = "spawn" /\ ~closed /\ results = <<>> /\ Len(out) = Cardinality(Sent)
  <1>1. main = "spawn"
    BY DEF IndInv, LaunchOrder
  <1>2. ~closed
    BY <1>1 DEF IndInv, LaunchOrder
  <1>3. results = <<>>
    BY <1>1 DEF IndInv, DeliveredOnce
  <1>4. Len(Delivered) = Len(out)
    BY <1>3 DEF IndInv, TypeOK, Delivered
  <1> QED
    BY <1>1, <1>2, <1>3, <1>4 DEF IndInv, DeliveredOnce

\* A send adds the sender, and nobody else, to what will be returned.
LEMMA SendIndInv ==
    ASSUME IndInv, NEW t \in Targets, Send(t)
    PROVE  IndInv'
  <1> USE DEF IndInv
  <1>1. gpc[t] = "send" /\ gpc' = [gpc EXCEPT ![t] = "release"]
        /\ UNCHANGED <<conc, main, next, sem, wg, closed, results>>
    BY DEF Send, Goto
  <1>2. main = "spawn" /\ ~closed /\ results = <<>>
    <2>1. t \in Live
      BY <1>1 DEF Live
    <2> QED
      BY <2>1, LiveMeansOpen
  <1>3. out' = Append(out, t)
    BY <1>2 DEF Send
  <1>4. UNCHANGED panicked
    BY <1>2 DEF Send, LaunchOrder, TypeOK
  <1>5. /\ gpc'[t] = "release" /\ \A u \in Targets : u # t => gpc'[u] = gpc[u]
        /\ Holders' = Holders \cup {t} /\ Live' = Live \cup {t} /\ Sent' = Sent \cup {t}
    BY <1>1, MoveSets DEF GoroutineStages
  <1>6. Holders' = Holders /\ Live' = Live /\ t \notin Sent
    BY <1>1, <1>5 DEF Holders, Live, Sent
  <1>7. TypeOK'
    <2>1. out' \in Seq(Targets)
      BY <1>3 DEF TypeOK
    <2>2. gpc' \in [Targets -> GoroutineStages]
      BY <1>1 DEF TypeOK, GoroutineStages
    <2> QED
      BY <1>1, <1>4, <2>1, <2>2 DEF TypeOK, Permits
  <1>8. CountersExact'
    BY <1>1, <1>6 DEF CountersExact
  <1>9. LaunchOrder'
    BY <1>1, <1>4, <1>5, <1>6 DEF LaunchOrder
  <1>10. DeliveredOnce'
    <2>1. out \in Seq(Targets)
      BY DEF TypeOK
    <2>2. Delivered = out /\ Delivered' = Append(out, t)
      BY <1>1, <1>2, <1>3, <2>1 DEF Delivered
    <2>3. Cardinality(Sent') = Cardinality(Sent) + 1
      BY <1>5, <1>6, CountAdd DEF Sent
    <2>4. Len(Delivered') = Cardinality(Sent')
      BY <2>1, <2>2, <2>3 DEF DeliveredOnce
    <2>5. \A i \in DOMAIN Delivered' : \/ i \in DOMAIN out /\ Delivered'[i] = out[i]
                                       \/ i = Len(out) + 1 /\ Delivered'[i] = t
      BY <2>1, <2>2
    <2>6. /\ DOMAIN out \subseteq DOMAIN Delivered'
          /\ Len(out) + 1 \in DOMAIN Delivered'
          /\ Delivered'[Len(out) + 1] = t
          /\ \A i \in DOMAIN out : Delivered'[i] = out[i]
      BY <2>1, <2>2
    <2>7. /\ \A i \in DOMAIN out : out[i] \in Sent
          /\ \A u \in Sent : \E i \in DOMAIN out : out[i] = u
          /\ \A i, j \in DOMAIN out : out[i] = out[j] => i = j
      BY <2>2 DEF DeliveredOnce
    <2>8. \A i \in DOMAIN Delivered' : Delivered'[i] \in Sent'
      BY <1>5, <2>5, <2>7
    <2>9. \A u \in Sent' : \E i \in DOMAIN Delivered' : Delivered'[i] = u
      BY <1>5, <2>6, <2>7
    <2>10. \A i, j \in DOMAIN Delivered' : Delivered'[i] = Delivered'[j] => i = j
      BY <1>6, <2>5, <2>7
    <2> QED
      BY <1>1, <1>2, <2>4, <2>8, <2>9, <2>10 DEF DeliveredOnce
  <1> QED
    BY <1>7, <1>8, <1>9, <1>10

\* wg.Add before the launch: the counter includes the new goroutine.
LEMMA SpawnIndInv ==
    ASSUME IndInv, Spawn
    PROVE  IndInv'
  <1> USE DEF IndInv
  <1>1. /\ main = "spawn" /\ next \in Targets /\ wg' = wg + 1 /\ next' = next + 1
        /\ gpc' = [gpc EXCEPT ![next] = "acquire"]
        /\ UNCHANGED <<conc, main, sem, out, closed, results, panicked>>
    BY DEF Spawn
  <1>2. /\ gpc'[next] = "acquire" /\ \A u \in Targets : u # next => gpc'[u] = gpc[u]
        /\ Holders' = Holders \ {next} /\ Live' = Live \cup {next}
        /\ Sent' = Sent \ {next}
    BY <1>1, MoveSets DEF GoroutineStages
  <1>3. gpc[next] = "none"
    BY <1>1, RunAllAssumption DEF LaunchOrder, Targets
  <1>4. Holders' = Holders /\ Sent' = Sent /\ next \notin Live
    BY <1>2, <1>3 DEF Holders, Sent, Live
  <1>5. Cardinality(Live') = Cardinality(Live) + 1
    BY <1>1, <1>2, <1>4, CountAdd DEF Live
  <1>6. TypeOK'
    <2>1. next' \in 1 .. N + 1 /\ wg' \in Nat
      BY <1>1, RunAllAssumption DEF TypeOK, Targets
    <2>2. gpc' \in [Targets -> GoroutineStages]
      BY <1>1 DEF TypeOK, GoroutineStages
    <2> QED
      BY <1>1, <2>1, <2>2 DEF TypeOK, Permits
  <1>7. CountersExact'
    BY <1>1, <1>4, <1>5 DEF CountersExact
  <1>8. LaunchOrder'
    <2>1. \A u \in Targets : gpc'[u] = "none" <=> u >= next + 1
      BY <1>1, <1>2, <1>3, RunAllAssumption DEF LaunchOrder, Targets
    <2> QED
      BY <1>1, <2>1 DEF LaunchOrder
  <1>9. DeliveredOnce'
    BY <1>1, <1>4, NoSendDelivered
  <1> QED
    BY <1>6, <1>7, <1>8, <1>9

\* wg.Wait returns: the counter is exact, so zero means nobody is alive.
LEMMA WaitIndInv ==
    ASSUME IndInv, Wait
    PROVE  IndInv'
  <1> USE DEF IndInv
  <1>1. /\ main = "spawn" /\ next = N + 1 /\ wg = 0 /\ main' = "close"
        /\ UNCHANGED <<conc, next, gpc, sem, wg, out, closed, results, panicked>>
    BY DEF Wait
  <1>2. Live = {}
    BY <1>1, CountType, FS_EmptySet DEF CountersExact, Live
  <1>3. Holders' = Holders /\ Live' = Live /\ Sent' = Sent
    BY <1>1 DEF Holders, Live, Sent
  <1>4. TypeOK'
    BY <1>1 DEF TypeOK, Permits
  <1>5. CountersExact'
    BY <1>1, <1>3 DEF CountersExact
  <1>6. LaunchOrder'
    BY <1>1, <1>2, <1>3 DEF LaunchOrder
  <1>7. DeliveredOnce'
    BY <1>1, <1>3 DEF DeliveredOnce, Delivered
  <1> QED
    BY <1>4, <1>5, <1>6, <1>7

\* close, the drain and the return happen after the last goroutine has ended.
LEMMA FinishIndInv ==
    ASSUME IndInv, Close \/ Drain \/ Return
    PROVE  IndInv'
  <1> USE DEF IndInv
  <1>1. UNCHANGED <<conc, next, gpc, sem, wg, panicked>>
    BY DEF Close, Drain, Return
  <1>2. Holders' = Holders /\ Live' = Live /\ Sent' = Sent
    BY <1>1 DEF Holders, Live, Sent
  <1>3. CountersExact'
    BY <1>1, <1>2 DEF CountersExact
  <1>4. main # "spawn" /\ main' # "spawn"
    BY DEF Close, Drain, Return
  <1>5. closed' <=> main' \in {"drain", "returned"}
    BY DEF Close, Drain, Return, LaunchOrder
  <1>6. LaunchOrder'
    BY <1>1, <1>2, <1>4, <1>5 DEF LaunchOrder
  <1>7. Delivered' = Delivered /\ out' \in Seq(Targets) /\ results' \in Seq(Targets)
    <2>1. CASE Close \/ Return
      BY <2>1 DEF Close, Return, Delivered, TypeOK
    <2>2. CASE Drain
      BY <2>2, DrainKeepsDelivered DEF Drain, Delivered, TypeOK
    <2> QED
      BY <2>1, <2>2
  <1>8. TypeOK'
    <2>1. main' \in {"spawn", "close", "drain", "returned"} /\ closed' \in BOOLEAN
      BY DEF Close, Drain, Return, TypeOK
    <2> QED
      BY <1>1, <1>7, <2>1 DEF TypeOK, Permits
  <1>9. /\ main' \in {"spawn", "close"} => results' = <<>>
        /\ main' = "returned" => out' = <<>>
    BY DEF Close, Drain, Return, DeliveredOnce
  <1>10. DeliveredOnce'
    BY <1>2, <1>7, <1>9 DEF DeliveredOnce
  <1> QED
    BY <1>3, <1>6, <1>8, <1>10

\* One step of runAll or of a goroutine.
LEMMA NextIndInv == IndInv /\ [Next]_vars => IndInv'
  <1> SUFFICES ASSUME IndInv, [Next]_vars PROVE IndInv'
    OBVIOUS
  <1>1. CASE UNCHANGED vars
    BY <1>1 DEF vars, Permits, IndInv, TypeOK, CountersExact, LaunchOrder,
                DeliveredOnce, Delivered, Holders, Live, Sent
  <1>2. CASE RunAllBody
    BY <1>2, SpawnIndInv, WaitIndInv, FinishIndInv DEF RunAllBody
  <1>3. ASSUME NEW t \in Targets, Goroutine(t) PROVE IndInv'
    BY <1>3, AcquireIndInv, ProbeIndInv, SendIndInv, ReleaseIndInv, DoneIndInv
       DEF Goroutine
  <1> QED
    BY <1>1, <1>2, <1>3 DEF Next

\* The counters are exact and every sender is delivered once, always.
THEOREM Invariance == SafeSpec => []IndInv
  BY InitIndInv, NextIndInv, PTL DEF SafeSpec

\* Counters, channel and slice keep their types.
THEOREM TypeCorrect == SafeSpec => []TypeOK
  <1>1. IndInv => TypeOK
    BY DEF IndInv
  <1> QED
    BY <1>1, Invariance, PTL

\* Never more than max(conc, 1) probes are in flight.
THEOREM AtMostConc == SafeSpec => []ConcurrencyBound
  <1>1. IndInv => ConcurrencyBound
    BY PermitsType DEF IndInv, TypeOK, CountersExact, ConcurrencyBound
  <1> QED
    BY <1>1, Invariance, PTL

\* A goroutine never blocks on the result channel.
THEOREM SendsDoNotBlock == SafeSpec => []SendNeverBlocks
  <1>1. IndInv => SendNeverBlocks
    <2> SUFFICES ASSUME IndInv, NEW t \in Targets, gpc[t] = "send"
                 PROVE  Len(out) < Capacity
      BY DEF SendNeverBlocks
    <2>1. t \in Live /\ t \notin Sent /\ Sent \in SUBSET Targets
      BY DEF Live, Sent
    <2>2. Len(out) = Cardinality(Sent)
      BY <2>1, LiveMeansOpen
    <2>3. Cardinality(Sent \cup {t}) = Cardinality(Sent) + 1
      BY <2>1, CountAdd
    <2>4. Cardinality(Sent \cup {t}) <= N /\ Cardinality(Sent) \in Nat
      BY <2>1, CountType
    <2> QED
      BY <2>2, <2>3, <2>4, RunAllAssumption DEF Capacity
  <1> QED
    BY <1>1, Invariance, PTL

\* Nobody sends on the closed channel.
THEOREM NoSendAfterClose == SafeSpec => []NoSendOnClosed
  <1>1. IndInv => NoSendOnClosed
    BY DEF IndInv, LaunchOrder, NoSendOnClosed
  <1> QED
    BY <1>1, Invariance, PTL

\* runAll returns every target exactly once.
THEOREM ReturnsEveryTargetOnce == SafeSpec => []EveryTargetOnce
  <1>1. IndInv => EveryTargetOnce
    <2> SUFFICES ASSUME IndInv, main = "returned", NEW t \in Targets
                 PROVE  \E i \in DOMAIN results :
                          /\ results[i] = t
                          /\ \A j \in DOMAIN results : results[j] = t => j = i
      BY DEF EveryTargetOnce
    <2>1. Delivered = results
      BY DEF IndInv, TypeOK, DeliveredOnce, Delivered
    <2>2. t \in Sent
      <3>1. next = N + 1 /\ Live = {}
        BY DEF IndInv, LaunchOrder
      <3>2. gpc[t] # "none"
        BY <3>1, RunAllAssumption DEF IndInv, LaunchOrder, Targets
      <3> QED
        BY <3>1, <3>2 DEF Live, Sent
    <2> QED
      BY <2>1, <2>2 DEF IndInv, DeliveredOnce
  <1> QED
    BY <1>1, Invariance, PTL
=============================================================================
