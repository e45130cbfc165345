-------------------------- MODULE NodeCheckProofs --------------------------
(***************************************************************************)
(* Proofs about nodecheck as a program, for every targets file, every      *)
(* command line, every outcome of the probes, every order they finish in   *)
(* and every number of rounds.                                             *)
(***************************************************************************)
EXTENDS NodeCheck, FiniteSetTheorems, FunctionTheorems, TLAPS

-----------------------------------------------------------------------------
(* The inductive invariant.                                                *)

Control == /\ file \in Files /\ cmd \in Commands
           /\ pc \in {"load", "probe", "print", "push", "status", "exited", "idle"}
           /\ printed \in {"no", "all", "cut"}
           /\ acked \in BOOLEAN
           /\ exit \in Codes \cup {Running}
           /\ round \in 1 .. MaxRounds /\ cuts \in 0 .. MaxCuts

\* Nothing of a round exists before its step: a round starts afresh.
Fresh == /\ pc \in {"load", "probe"} => truth = NoTruth /\ results = <<>>
         /\ pc \in {"load", "probe", "print"} => stdout = <<>> /\ printed = "no"
         /\ pc \in {"load", "probe", "print", "push"} => payload = <<>> /\ ~acked

\* main stops at a file that loadTargets rejects.
Stopped == BadFile => /\ pc \in {"load", "exited", "idle"}
                      /\ truth = NoTruth /\ results = <<>>
                      /\ stdout = <<>> /\ printed = "no"
                      /\ payload = <<>> /\ reported = {}

\* The probes have run: every target was probed once, and the results are
\* what toResult made of that, in some order.
Probed == pc \in {"print", "push", "status"} \/ (Over /\ ~BadFile)

Projection ==
    /\ DOMAIN truth = DOMAIN file
    /\ \A i \in DOMAIN file : truth[i] \in Outcomes(file[i])
    /\ \E p \in Orders(Len(file)) :
          results = [i \in DOMAIN file |-> toResult(file[p[i]], truth[p[i]])]

\* What -format and -push make of the steps after the probes.
Path == /\ pc = "push" => cmd.push
        /\ pc \in {"push", "status"} => /\ cmd.format \in {"json", "prom"}
                                        /\ cmd.format = "json" => printed = "all"
        /\ pc = "status" => (cmd.push => acked)

\* The output and the batch are computed from the results.
Output == cmd.format = "prom" /\ printed = "all" => stdout = writeProm(results)

Batch == payload = <<>> \/ payload = buildPayload(results)

\* The key a target is stored under is a function of the target.
KeyOf(t) == <<t.addr, IF t.sni = "" /\ t.ported THEN t.addr ELSE t.sni>>

Keys == \A a \in reported : a[2] = KeyOf(a[1])

NodeInv == /\ Control /\ Fresh /\ Stopped /\ Path /\ Output /\ Batch /\ Keys
           /\ Probed => Projection
           /\ ExitTruthful

-----------------------------------------------------------------------------
(* Orders, and loops that skip entries.                                    *)

\* Every order names every position: runAll loses no target.
LEMMA OrderCovers ==
    ASSUME NEW n \in Nat, NEW p \in Orders(n)
    PROVE  /\ \A i \in 1 .. n : p[i] \in 1 .. n
           /\ \A i, j \in 1 .. n : p[i] = p[j] => i = j
           /\ \A i \in 1 .. n : \E q \in 1 .. n : p[q] = i
  <1>1. p \in [1 .. n -> 1 .. n] /\ \A i, j \in 1 .. n : p[i] = p[j] => i = j
    BY DEF Orders
  <1>2. p \in Injection(1 .. n, 1 .. n)
    BY <1>1, Fun_IsInj
  <1>3. IsFiniteSet(1 .. n)
    BY FS_Interval
  <1>4. p \in Surjection(1 .. n, 1 .. n)
    BY <1>2, <1>3, FS_Injection
  <1> QED
    BY <1>1, <1>4 DEF Surjection

\* loop consists of the entries of s at the positions in kept, in their order.
Selects(s, kept, loop) ==
    \E m \in Nat : \E f \in [1 .. m -> kept] :
        /\ loop = [k \in 1 .. m |-> s[f[k]]]
        /\ \A i \in kept : \E k \in 1 .. m : f[k] = i
        /\ \A k, l \in 1 .. m : k < l => f[k] < f[l]

\* What a loop that skips entries leaves: each kept entry once, in the order
\* of their positions.
LEMMA KeptEntries ==
    ASSUME NEW s, NEW n \in Nat, NEW kept \in SUBSET (1 .. n)
    PROVE  Selects(s, kept, Kept(s, kept))
  <1> DEFINE m == Cardinality(kept)
  <1> DEFINE upto(i) == {j \in kept : j <= i}
  <1> DEFINE rank(i) == Cardinality(upto(i))
  <1> DEFINE r == [i \in kept |-> rank(i)]
  <1> DEFINE f == [k \in 1 .. m |-> CHOOSE i \in kept : rank(i) = k]
  <1>0. \A i \in kept : i \in Nat
    OBVIOUS
  <1>1. IsFiniteSet(kept)
    <2>1. IsFiniteSet(1 .. n)
      BY FS_Interval
    <2> QED
      BY <2>1, FS_Subset
  <1>2. m \in Nat
    BY <1>1, FS_CardinalityType
  <1>3. \A i \in kept : IsFiniteSet(upto(i)) /\ rank(i) \in Nat /\ rank(i) <= m
    <2>1. \A i \in kept : upto(i) \in SUBSET kept
      OBVIOUS
    <2> QED
      BY <1>1, <2>1, FS_Subset, FS_CardinalityType
  <1>4. ASSUME NEW i \in kept, NEW j \in kept, i < j
        PROVE  rank(i) < rank(j)
    <2>1. upto(i) \in SUBSET upto(j) /\ j \in upto(j) /\ j \notin upto(i)
      <3>1. i \in Nat /\ j \in Nat /\ i < j
        BY <1>0, <1>4
      <3>2. j \in upto(j) /\ j \notin upto(i)
        BY <3>1
      <3>3. \A x \in upto(i) : x \in upto(j)
        BY <1>0, <3>1
      <3> QED
        BY <3>2, <3>3
    <2>2. IsFiniteSet(upto(j)) /\ rank(i) \in Nat /\ rank(j) \in Nat
      BY <1>3
    <2> HIDE DEF upto
    <2>3. rank(i) <= rank(j) /\ (rank(j) = rank(i) => upto(j) = upto(i))
      BY <2>1, <2>2, FS_Subset
    <2> QED
      BY <2>1, <2>2, <2>3
  <1>5. \A i \in kept : rank(i) \in 1 .. m
    <2>1. ASSUME NEW i \in kept PROVE rank(i) # 0
      <3>1. i \in upto(i)
        BY <2>1
      <3> QED
        BY <1>3, <3>1, FS_EmptySet
    <2>2. \A i \in kept : rank(i) \in Nat /\ rank(i) <= m /\ rank(i) # 0
      BY <1>3, <2>1
    <2> HIDE DEF rank, m
    <2> QED
      BY <1>2, <2>2
  <1> HIDE DEF rank, m
  <1>6. r \in [kept -> 1 .. m] /\ \A i, j \in kept : r[i] = r[j] => i = j
    <2>1. \A i, j \in kept : i < j \/ j < i \/ i = j
      OBVIOUS
    <2>2. \A i \in kept : rank(i) \in Nat
      BY <1>3
    <2> QED
      BY <1>4, <1>5, <2>1, <2>2
  <1>7. r \in Surjection(kept, 1 .. m)
    <2>1. r \in Injection(kept, 1 .. m)
      BY <1>6, Fun_IsInj
    <2>2. IsFiniteSet(1 .. m) /\ Cardinality(1 .. m) = m
      BY <1>2, FS_Interval
    <2> QED
      BY <2>1, <2>2, FS_Injection DEF m
  <1>8. \A k \in 1 .. m : \E i \in kept : rank(i) = k
    BY <1>7 DEF Surjection
  <1>9. f \in [1 .. m -> kept] /\ \A k \in 1 .. m : rank(f[k]) = k
    BY <1>8
  <1>10. \A i \in kept : f[rank(i)] = i /\ rank(i) \in 1 .. m
    BY <1>5, <1>6, <1>9
  <1>11. \A k, l \in 1 .. m : k < l => f[k] < f[l]
    <2> SUFFICES ASSUME NEW k \in 1 .. m, NEW l \in 1 .. m, k < l, ~(f[k] < f[l])
                 PROVE  FALSE
      OBVIOUS
    <2>1. f[k] \in kept /\ f[l] \in kept /\ rank(f[k]) = k /\ rank(f[l]) = l
      BY <1>9
    <2> HIDE DEF f
    <2>2. f[l] < f[k] \/ f[k] = f[l]
      <3>1. f[k] \in Nat /\ f[l] \in Nat
        BY <1>0, <2>1
      <3> QED
        BY <3>1
    <2>3. f[l] < f[k] => l < k
      BY <1>4, <2>1
    <2>4. k \in Nat /\ l \in Nat /\ k < l
      BY <1>2
    <2> QED
      BY <2>1, <2>2, <2>3, <2>4
  <1>12. Kept(s, kept) = [k \in 1 .. m |-> s[f[k]]]
    <2>1. Kept(s, kept) = [k \in 1 .. m |-> s[CHOOSE i \in kept : rank(i) = k]]
      BY DEF Kept, rank, m
    <2> QED
      BY <2>1
  <1>13. f \in [1 .. m -> kept] /\ \A i \in kept : \E k \in 1 .. m : f[k] = i
    BY <1>9, <1>10
  <1> HIDE DEF f
  <1> QED
    BY <1>2, <1>11, <1>12, <1>13 DEF Selects

-----------------------------------------------------------------------------
(* What a probe can find, and what toResult makes of it.                   *)

\* The two shapes of a prober's phase list.
Shape(ps, first, second) == \/ ps = <<Phase(first, FALSE)>>
                            \/ ps = <<Phase(first, TRUE), Phase(second, TRUE)>>
                            \/ ps = <<Phase(first, TRUE), Phase(second, FALSE)>>

LEMMA PhaseListShape ==
    ASSUME NEW probable, NEW first, NEW second,
           NEW ps \in PhaseLists(probable, first, second)
    PROVE  Shape(ps, first, second)
  BY DEF PhaseLists, Shape

\* What the helpers of prober.go say of a list of that shape.
LEMMA ShapeFacts ==
    ASSUME NEW o, NEW first, NEW second, first # second, Shape(o.Phases, first, second)
    PROVE  /\ o.Phases # <<>>
           /\ Failed(o) = {} <=> Passed(o.Phases)
           /\ Ran(o, first)
           /\ RanOK(o, second) <=> Passed(o.Phases)
           /\ RanOK(o, second) => RanOK(o, first) /\ Ran(o, second)
           /\ ~RanOK(o, first) => Failed(o) = {first}
           /\ RanOK(o, first) /\ ~RanOK(o, second) => Failed(o) = {second}
           /\ \A name : Ran(o, name) => name \in {first, second}
  <1>1. CASE o.Phases = <<Phase(first, FALSE)>>
    <2>1. DOMAIN o.Phases = {1} /\ o.Phases[1] = Phase(first, FALSE)
      BY <1>1
    <2>2. o.Phases[1].name = first /\ o.Phases[1].ok = FALSE
      BY <2>1 DEF Phase
    <2>3. Failed(o) = {first}
      <3>1. {j \in DOMAIN o.Phases : ~o.Phases[j].ok /\ \A k \in 1 .. j - 1 : o.Phases[k].ok} = {1}
        <4>1. \A k \in 1 .. 1 - 1 : FALSE
          OBVIOUS
        <4>2. \A j \in DOMAIN o.Phases :
                 ~o.Phases[j].ok /\ \A k \in 1 .. j - 1 : o.Phases[k].ok
          BY <2>1, <2>2, <4>1
        <4> QED
          BY <2>1, <4>2
      <3> QED
        BY <2>2, <3>1 DEF Failed
    <2>4. ~Passed(o.Phases)
      BY <2>1, <2>2 DEF Passed
    <2>5. Ran(o, first) /\ \A name : Ran(o, name) => name = first
      BY <2>1, <2>2 DEF Ran
    <2>6. \A name : ~RanOK(o, name)
      BY <2>1, <2>2 DEF RanOK, Phase
    <2>7. o.Phases # <<>>
      BY <2>1
    <2> QED
      BY <2>3, <2>4, <2>5, <2>6, <2>7
  <1>2. ASSUME NEW ok \in BOOLEAN, o.Phases = <<Phase(first, TRUE), Phase(second, ok)>>
        PROVE  /\ o.Phases # <<>>
               /\ Failed(o) = IF ok THEN {} ELSE {second}
               /\ Passed(o.Phases) <=> ok
               /\ Ran(o, first) /\ Ran(o, second)
               /\ RanOK(o, first)
               /\ RanOK(o, second) <=> ok
               /\ \A name : Ran(o, name) => name \in {first, second}
    <2>1. /\ DOMAIN o.Phases = {1, 2}
          /\ o.Phases[1] = Phase(first, TRUE) /\ o.Phases[2] = Phase(second, ok)
      BY <1>2
    <2>2. /\ o.Phases[1].name = first /\ o.Phases[1].ok = TRUE
          /\ o.Phases[2].name = second /\ o.Phases[2].ok = ok
      BY <2>1 DEF Phase
    <2>3. Failed(o) = IF ok THEN {} ELSE {second}
      <3>1. \A j \in DOMAIN o.Phases :
               (~o.Phases[j].ok /\ \A k \in 1 .. j - 1 : o.Phases[k].ok) <=> (j = 2 /\ ~ok)
        <4>1. \A k \in 1 .. 2 - 1 : k = 1
          OBVIOUS
        <4> QED
          BY <2>1, <2>2, <4>1
      <3>2. {j \in DOMAIN o.Phases : ~o.Phases[j].ok /\ \A k \in 1 .. j - 1 : o.Phases[k].ok}
               = IF ok THEN {} ELSE {2}
        BY <2>1, <3>1
      <3> QED
        BY <2>2, <3>2 DEF Failed
    <2>4. Passed(o.Phases) <=> ok
      BY <2>1, <2>2 DEF Passed
    <2>5. Ran(o, first) /\ Ran(o, second) /\ \A name : Ran(o, name) => name \in {first, second}
      BY <2>1, <2>2 DEF Ran
    <2>6. RanOK(o, first)
      BY <2>1 DEF RanOK
    <2>7. RanOK(o, second) <=> ok
      <3>1. Phase(first, TRUE) # Phase(second, TRUE)
        BY DEF Phase
      <3>2. Phase(second, ok) = Phase(second, TRUE) <=> ok
        BY DEF Phase
      <3> QED
        BY <2>1, <3>1, <3>2 DEF RanOK
    <2>8. o.Phases # <<>>
      BY <2>1
    <2> QED
      BY <2>3, <2>4, <2>5, <2>6, <2>7, <2>8
  <1>3. CASE \E ok \in BOOLEAN : o.Phases = <<Phase(first, TRUE), Phase(second, ok)>>
    <2>1. PICK ok \in BOOLEAN : o.Phases = <<Phase(first, TRUE), Phase(second, ok)>>
      BY <1>3
    <2> QED
      BY <1>2, <2>1
  <1> QED
    BY <1>1, <1>3 DEF Shape

\* A tls probe: both legacy phases, and the identity settled before them.
LEMMA TLSOutcome ==
    ASSUME NEW t, Kind(t) = "tls", NEW o \in Outcomes(t)
    PROVE  /\ Shape(o.Phases, "tcp", "tls")
           /\ o.NoLivenessClaim = FALSE
           /\ o.TLS = {[ServerName |-> KeyOf(t)[2], CertMatch |-> Passed(o.Phases)]}
  <1>1. o \in ProbeTLS(t)
    BY DEF Outcomes
  <1>2. PICK ps \in PhaseLists(t.ported, "tcp", "tls") :
          o = [Phases |-> ps, NoLivenessClaim |-> FALSE,
               TLS |-> {[ServerName |-> ServerName(t, ps), CertMatch |-> Passed(ps)]}]
    BY <1>1 DEF ProbeTLS
  <1>3. ServerName(t, ps) = KeyOf(t)[2]
    BY DEF ServerName, KeyOf
  <1> QED
    BY <1>2, <1>3, PhaseListShape

\* The other probes: phases of their own, a liveness claim exactly when the
\* target is not an anonymous one, whatever the probe met.
LEMMA OtherOutcome ==
    ASSUME NEW t \in Target, Kind(t) # "tls", NEW o \in Outcomes(t)
    PROVE  /\ ~usesLegacyPhases(o)
           /\ o.NoLivenessClaim = anonymous(t)
           /\ o.TLS = {}
           /\ Kind(t) \in Kinds => /\ o.Phases # <<>>
                                   /\ Failed(o) = {} <=> Passed(o.Phases)
  <1>1. CASE Kind(t) = "udp"
    <2>1. o \in ProbeUDP(t)
      BY <1>1 DEF Outcomes
    <2>2. PICK ps \in PhaseLists(t.ported /\ parseUDPParams(t), "udp", "response") :
            o = [Phases |-> ps, NoLivenessClaim |-> FALSE, TLS |-> {}]
      BY <2>1 DEF ProbeUDP
    <2>3. o.Phases = ps /\ o.NoLivenessClaim = FALSE /\ o.TLS = {}
      BY <2>2
    <2>4. Shape(o.Phases, "udp", "response")
      BY <2>3, PhaseListShape
    <2>5. /\ \A name : Ran(o, name) => name \in {"udp", "response"}
          /\ o.Phases # <<>> /\ (Failed(o) = {} <=> Passed(o.Phases))
      BY <2>4, ShapeFacts
    <2>6. anonymous(t) = FALSE
      BY <1>1 DEF anonymous
    <2>7. ~usesLegacyPhases(o)
      BY <2>5 DEF usesLegacyPhases
    <2> QED
      BY <2>3, <2>5, <2>6, <2>7
  <1>2. CASE Kind(t) = "wireguard"
    <2> DEFINE second == IF anonymous(t) THEN "initiation-sent" ELSE "handshake"
    <2>1. o \in ProbeWG(t)
      BY <1>2 DEF Outcomes
    <2>2. PICK ps \in PhaseLists(t.ported /\ parseWGParams(t) /\ wgIdentity(t), "udp", second) :
            o = [Phases |-> ps, NoLivenessClaim |-> anonymous(t), TLS |-> {}]
      BY <2>1 DEF ProbeWG
    <2>3. o.Phases = ps /\ o.NoLivenessClaim = anonymous(t) /\ o.TLS = {}
      BY <2>2
    <2>4. Shape(o.Phases, "udp", second) /\ second \in {"initiation-sent", "handshake"}
      BY <2>3, PhaseListShape
    <2> HIDE DEF second
    <2>5. /\ \A name : Ran(o, name) => name \in {"udp", second}
          /\ o.Phases # <<>> /\ (Failed(o) = {} <=> Passed(o.Phases))
      BY <2>4, ShapeFacts
    <2>6. ~usesLegacyPhases(o)
      BY <2>4, <2>5 DEF usesLegacyPhases
    <2> QED
      BY <2>3, <2>5, <2>6
  <1>3. CASE Kind(t) \notin Kinds
    <2>1. o = [Phases |-> <<>>, NoLivenessClaim |-> FALSE, TLS |-> {}]
      BY <1>3 DEF Outcomes, Kinds
    <2>2. o.Phases = <<>> /\ o.NoLivenessClaim = FALSE /\ o.TLS = {}
      BY <2>1
    <2>3. ~usesLegacyPhases(o)
      BY <2>2 DEF usesLegacyPhases, Ran
    <2>4. anonymous(t) = FALSE
      BY <1>3 DEF anonymous, Kinds
    <2> QED
      BY <1>3, <2>2, <2>3, <2>4
  <1> QED
    BY <1>1, <1>2, <1>3 DEF Kinds

\* The projection: toResult keeps the verdict and the liveness claim of every
\* probe that ran, and has the legacy fields of the tls ones alone.
LEMMA ResultFacts ==
    ASSUME NEW t \in Target, NEW o \in Outcomes(t)
    PROVE  LET r == toResult(t, o)
           IN  /\ r.target = t
               /\ r.noLivenessClaim = anonymous(t)
               /\ Kind(t) \in Kinds => (r.OK <=> Passed(o.Phases))
               /\ pushable(r) <=> Kind(t) = "tls"
               /\ Kind(t) = "tls" =>
                     /\ r.SNI = KeyOf(t)[2]
                     /\ r.TCPOK = {RanOK(o, "tcp")} /\ r.TLSOK = {RanOK(o, "tls")}
                     /\ r.TLSTime = {Measured(o, "tls")}
  <1> DEFINE r == toResult(t, o)
  <1>1. /\ r.target = t /\ r.noLivenessClaim = o.NoLivenessClaim
        /\ r.OK = (Failed(o) = {} /\ o.Phases # <<>>)
        /\ r.TCPOK = Legacy(o, RanOK(o, "tcp"))
        /\ r.TLSOK = Legacy(o, RanOK(o, "tls"))
        /\ r.TLSTime = Legacy(o, Measured(o, "tls"))
        /\ r.SNI = IF \E i \in o.TLS : i.ServerName # ""
                     THEN (CHOOSE i \in o.TLS : TRUE).ServerName ELSE t.sni
    BY DEF toResult
  <1> HIDE DEF r
  <1>2. CASE Kind(t) = "tls"
    <2>1. /\ Shape(o.Phases, "tcp", "tls")
          /\ o.NoLivenessClaim = FALSE
          /\ o.TLS = {[ServerName |-> KeyOf(t)[2], CertMatch |-> Passed(o.Phases)]}
      BY <1>2, TLSOutcome
    <2>2. /\ o.Phases # <<>> /\ (Failed(o) = {} <=> Passed(o.Phases)) /\ Ran(o, "tcp")
      BY <2>1, ShapeFacts
    <2>3. \A v : Legacy(o, v) = {v}
      BY <2>2 DEF Legacy, usesLegacyPhases
    <2>4. anonymous(t) = FALSE
      BY <1>2 DEF anonymous
    <2>5. r.SNI = KeyOf(t)[2]
      <3> DEFINE i == [ServerName |-> KeyOf(t)[2], CertMatch |-> Passed(o.Phases)]
      <3>1. o.TLS = {i} /\ i.ServerName = KeyOf(t)[2]
        BY <2>1
      <3> HIDE DEF i
      <3>2. (CHOOSE j \in o.TLS : TRUE) = i
        BY <3>1
      <3>3. KeyOf(t)[2] = "" => t.sni = ""
        BY DEF KeyOf
      <3> QED
        BY <1>1, <3>1, <3>2, <3>3
    <2>6. r.OK <=> Passed(o.Phases)
      BY <1>1, <2>2
    <2>7. /\ r.TCPOK = {RanOK(o, "tcp")} /\ r.TLSOK = {RanOK(o, "tls")}
          /\ r.TLSTime = {Measured(o, "tls")}
      BY <1>1, <2>3
    <2>8. pushable(r)
      BY <2>7 DEF pushable
    <2>9. r.noLivenessClaim = anonymous(t)
      BY <1>1, <2>1, <2>4
    <2> QED
      BY <1>1, <1>2, <2>5, <2>6, <2>7, <2>8, <2>9 DEF r
  <1>3. CASE Kind(t) # "tls"
    <2>1. /\ ~usesLegacyPhases(o)
          /\ o.NoLivenessClaim = anonymous(t)
          /\ Kind(t) \in Kinds => /\ o.Phases # <<>>
                                  /\ Failed(o) = {} <=> Passed(o.Phases)
      BY <1>3, OtherOutcome
    <2>2. r.TCPOK = {}
      BY <1>1, <2>1 DEF Legacy
    <2>3. ~pushable(r)
      BY <2>2 DEF pushable
    <2>4. Kind(t) \in Kinds => (r.OK <=> Passed(o.Phases))
      BY <1>1, <2>1
    <2> QED
      BY <1>1, <1>3, <2>1, <2>3, <2>4 DEF r
  <1> QED
    BY <1>2, <1>3

-----------------------------------------------------------------------------
(* Files, and what stays the same in a round.                              *)

LEMMA FileFacts ==
    ASSUME Control
    PROVE  /\ Len(file) \in Nat /\ DOMAIN file = 1 .. Len(file)
           /\ \A i \in DOMAIN file : file[i] \in Target
           /\ cmd \in Command
  <1>1. file \in Seq(Target)
    BY NodeCheckAssumption DEF Control
  <1> QED
    BY <1>1, NodeCheckAssumption DEF Control

\* The identity is that of the environment, which a process does not change.
LEMMA ProbesConstant ==
    ASSUME cmd' = cmd
    PROVE  /\ \A t : Outcomes(t)' = Outcomes(t)
           /\ \A t : Validate(t)' = Validate(t)
  BY DEF Outcomes, ProbeWG, ProbeTLS, ProbeUDP, Validate, wgIdentity

\* An element of the results, in terms of the target it is about.
LEMMA ResultOf ==
    ASSUME Control, Projection
    PROVE  \E p \in Orders(Len(file)) :
              /\ DOMAIN results = 1 .. Len(file)
              /\ Len(results) = Len(file)
              /\ \A i \in 1 .. Len(file) :
                    /\ p[i] \in DOMAIN file
                    /\ results[i] = toResult(file[p[i]], truth[p[i]])
                    /\ truth[p[i]] \in Outcomes(file[p[i]])
  <1>1. PICK p \in Orders(Len(file)) :
          results = [i \in DOMAIN file |-> toResult(file[p[i]], truth[p[i]])]
    BY DEF Projection
  <1>2. Len(file) \in Nat /\ DOMAIN file = 1 .. Len(file)
    BY FileFacts
  <1>3. \A i \in 1 .. Len(file) : p[i] \in DOMAIN file
    BY <1>2, OrderCovers
  <1>4. DOMAIN results = 1 .. Len(file)
    BY <1>1, <1>2
  <1>5. Len(results) = Len(file)
    BY <1>2, <1>4
  <1>6. \A i \in DOMAIN file : truth[i] \in Outcomes(file[i])
    BY DEF Projection
  <1> QED
    BY <1>1, <1>2, <1>3, <1>4, <1>5, <1>6

\* The verdicts of the results and those of the probers agree: nothing gets
\* lost between the goroutines, the sort, the projection and the exit status.
LEMMA VerdictsAgree ==
    ASSUME Control, Projection, ~BadFile
    PROVE  (\A i \in DOMAIN results : results[i].OK) <=> AllPassed
  <1> DEFINE n == Len(file)
  <1>1. n \in Nat /\ DOMAIN file = 1 .. n /\ \A i \in DOMAIN file : file[i] \in Target
    BY FileFacts
  <1>2. PICK p \in Orders(n) :
          /\ DOMAIN results = 1 .. n
          /\ \A i \in 1 .. n : /\ p[i] \in DOMAIN file
                               /\ results[i] = toResult(file[p[i]], truth[p[i]])
                               /\ truth[p[i]] \in Outcomes(file[p[i]])
    BY ResultOf
  <1>3. \A i \in DOMAIN file : Kind(file[i]) \in Kinds
    BY DEF BadFile, Validate
  <1>4. ASSUME NEW i \in 1 .. n
        PROVE  results[i].OK <=> Passed(truth[p[i]].Phases)
    BY <1>1, <1>2, <1>3, ResultFacts
  <1>5. \A j \in 1 .. n : \E i \in 1 .. n : p[i] = j
    BY <1>1, OrderCovers
  <1> HIDE DEF n
  <1> QED
    BY <1>1, <1>2, <1>4, <1>5 DEF AllPassed

-----------------------------------------------------------------------------
(* The invariant is inductive.                                             *)

LEMMA FileFixed ==
    ASSUME NodeInv, [Next]_vars
    PROVE  file' = file /\ cmd' = cmd /\ BadFile' = BadFile
  <1>1. file' = file /\ cmd' = cmd
    BY DEF Next, vars, LoadTargets, RunAllAndSort, PrintJSON, PrintJSONFails, PrintProm,
           PrintPromCut, UnknownFormat, PushAccepted, NoRunID, PushFails, Status,
           CronEntry, NextRound
  <1>2. \A t : Validate(t)' = Validate(t)
    BY <1>1, ProbesConstant
  <1> QED
    BY <1>1, <1>2 DEF BadFile

LEMMA ProjectionKept ==
    ASSUME Projection, UNCHANGED <<file, cmd, truth, results>>
    PROVE  Projection'
  <1>1. \A t : Outcomes(t)' = Outcomes(t)
    BY ProbesConstant
  <1> QED
    BY <1>1 DEF Projection

\* What was found and printed decides the status, in a round that is over.
LEMMA ExitKept ==
    ASSUME ExitTruthful, Over,
           UNCHANGED <<file, cmd, truth, printed, acked, exit>>, BadFile' = BadFile
    PROVE  ExitTruthful'
  <1>1. AllPassed' = AllPassed
    BY DEF AllPassed
  <1> QED
    BY <1>1 DEF ExitTruthful, Over

LEMMA InitInv ==
    ASSUME Init
    PROVE  NodeInv
  <1>1. Control
    <2>1. MaxRounds \in Nat \ {0} /\ MaxCuts \in Nat
      BY NodeCheckAssumption
    <2>2. round \in 1 .. MaxRounds /\ cuts \in 0 .. MaxCuts
      BY <2>1 DEF Init
    <2> QED
      BY <2>2 DEF Init, Control
  <1>2. Fresh /\ Stopped /\ Path /\ Output /\ Batch /\ Keys
    BY DEF Init, Fresh, Stopped, Path, Output, Batch, Keys
  <1>3. ~Probed /\ ExitTruthful
    BY DEF Init, Probed, Over, ExitTruthful
  <1> QED
    BY <1>1, <1>2, <1>3 DEF NodeInv

LEMMA ControlKept ==
    ASSUME NodeInv, [Next]_vars
    PROVE  Control'
  <1>1. file' = file /\ cmd' = cmd
    BY FileFixed
  <1>2. /\ pc' \in {"load", "probe", "print", "push", "status", "exited", "idle"}
        /\ printed' \in {"no", "all", "cut"}
        /\ acked' \in BOOLEAN
    BY DEF NodeInv, Control, Next, vars, LoadTargets, RunAllAndSort, PrintJSON, PrintJSONFails,
           PrintProm, PrintPromCut, UnknownFormat, PushAccepted, NoRunID, PushFails, Status,
           CronEntry, NextRound, Exit, AfterPrint
  <1>3. exit' \in Codes \cup {Running}
    BY DEF NodeInv, Control, Next, vars, LoadTargets, RunAllAndSort, PrintJSON, PrintJSONFails,
           PrintProm, PrintPromCut, UnknownFormat, PushAccepted, NoRunID, PushFails, Status,
           CronEntry, NextRound, Exit, Codes
  <1>4. /\ round' = round \/ (round < MaxRounds /\ round' = round + 1)
        /\ cuts' = cuts \/ (cuts < MaxCuts /\ cuts' = cuts + 1)
    BY DEF Next, vars, LoadTargets, RunAllAndSort, PrintJSON, PrintJSONFails,
           PrintProm, PrintPromCut, UnknownFormat, PushAccepted, NoRunID, PushFails, Status,
           CronEntry, NextRound
  <1>5. round' \in 1 .. MaxRounds /\ cuts' \in 0 .. MaxCuts
    BY <1>4, NodeCheckAssumption DEF NodeInv, Control
  <1> QED
    BY <1>1, <1>2, <1>3, <1>5 DEF NodeInv, Control

\* The steps up to the results.
LEMMA LoadInv ==
    ASSUME NodeInv, LoadTargets
    PROVE  NodeInv'
  <1>1. Control' /\ file' = file /\ cmd' = cmd /\ BadFile' = BadFile
    BY ControlKept, FileFixed DEF Next
  <1>2. /\ pc = "load" /\ pc' \in {"probe", "exited"}
        /\ pc' = "probe" <=> ~BadFile
        /\ pc' = "exited" => exit' = 1
        /\ UNCHANGED <<truth, results, stdout, printed, payload, acked, reported>>
    BY DEF LoadTargets, Exit, BadFile
  <1>3. /\ truth = NoTruth /\ results = <<>> /\ stdout = <<>> /\ printed = "no"
        /\ payload = <<>> /\ ~acked
        /\ BadFile => reported = {}
    BY <1>2 DEF NodeInv, Fresh, Stopped
  <1>4. Fresh' /\ Stopped' /\ Path' /\ Output' /\ Batch' /\ Keys'
    BY <1>1, <1>2, <1>3 DEF NodeInv, Fresh, Stopped, Path, Output, Batch, Keys
  <1>5. ~Probed' /\ ExitTruthful'
    BY <1>1, <1>2 DEF Probed, Over, ExitTruthful
  <1> QED
    BY <1>1, <1>4, <1>5 DEF NodeInv

LEMMA ProbeInv ==
    ASSUME NodeInv, RunAllAndSort
    PROVE  NodeInv'
  <1>1. Control' /\ file' = file /\ cmd' = cmd /\ BadFile' = BadFile
    BY ControlKept, FileFixed DEF Next
  <1>2. /\ pc = "probe" /\ pc' = "print"
        /\ UNCHANGED <<stdout, printed, payload, acked, reported>>
    BY DEF RunAllAndSort
  <1>3. stdout = <<>> /\ printed = "no" /\ payload = <<>> /\ ~acked /\ ~BadFile
    BY <1>2 DEF NodeInv, Fresh, Stopped
  <1>4. Fresh' /\ Stopped' /\ Path' /\ Output' /\ Batch' /\ Keys' /\ ExitTruthful'
    BY <1>1, <1>2, <1>3 DEF NodeInv, Fresh, Stopped, Path, Output, Batch, Keys,
                            ExitTruthful, Over
  <1>5. Projection'
    <2>1. PICK o \in [DOMAIN file -> UNION {Outcomes(file[i]) : i \in DOMAIN file}],
               p \in Orders(Len(file)) :
            /\ \A i \in DOMAIN file : o[i] \in Outcomes(file[i])
            /\ truth' = o
            /\ results' = [i \in DOMAIN file |-> toResult(file[p[i]], o[p[i]])]
      BY DEF RunAllAndSort
    <2>2. \A t : Outcomes(t)' = Outcomes(t)
      BY <1>1, ProbesConstant
    <2>3. DOMAIN truth' = DOMAIN file' /\ \A i \in DOMAIN file' : truth'[i] \in Outcomes(file[i])'
      BY <1>1, <2>1, <2>2
    <2> QED
      BY <1>1, <2>1, <2>3 DEF Projection
  <1> QED
    BY <1>1, <1>4, <1>5 DEF NodeInv

\* The four ways through printing, which leave the results alone.
LEMMA PrintInv ==
    ASSUME NodeInv, PrintJSON \/ PrintJSONFails \/ PrintProm \/ PrintPromCut \/ UnknownFormat
    PROVE  NodeInv'
  <1>1. Control' /\ file' = file /\ cmd' = cmd /\ BadFile' = BadFile
    BY ControlKept, FileFixed DEF Next
  <1>2. /\ pc = "print"
        /\ UNCHANGED <<truth, results, payload, acked, reported>>
    BY DEF PrintJSON, PrintJSONFails, PrintProm, PrintPromCut, UnknownFormat
  <1>3. payload = <<>> /\ ~acked /\ ~BadFile /\ printed = "no"
    BY <1>2 DEF NodeInv, Fresh, Stopped
  <1>4. Projection'
    BY <1>1, <1>2, ProjectionKept DEF NodeInv, Probed
  <1>5. cmd.format \in {"json", "prom", "xml"}
    BY FileFacts DEF NodeInv, Command
  <1>6. \/ /\ pc' \in {"push", "status"}
           /\ pc' = "push" <=> cmd.push
           /\ cmd.format \in {"json", "prom"}
           /\ cmd.format = "json" => printed' = "all"
           /\ printed' = "all" /\ cmd.format = "prom" => stdout' = writeProm(results)
        \/ /\ pc' = "exited"
           /\ \/ cmd.format = "json" /\ printed' = "cut" /\ exit' = 1
              \/ cmd.format = "xml" /\ printed' = printed /\ exit' = 2
    BY <1>5 DEF PrintJSON, PrintJSONFails, PrintProm, PrintPromCut, UnknownFormat, Exit, AfterPrint
  <1>7. Fresh' /\ Stopped' /\ Path' /\ Batch' /\ Keys'
    BY <1>1, <1>2, <1>3, <1>6 DEF NodeInv, Fresh, Stopped, Path, Batch, Keys
  <1>8. Output'
    BY <1>1, <1>2, <1>3, <1>6 DEF Output
  <1>9. ExitTruthful'
    BY <1>1, <1>3, <1>6 DEF ExitTruthful, Over
  <1> QED
    BY <1>1, <1>4, <1>7, <1>8, <1>9 DEF NodeInv

\* The loop of buildPayload, over any n results.
Pushes(rs, n, batch) ==
    \E m \in Nat : \E f \in [1 .. m -> 1 .. n] :
        /\ DOMAIN batch = 1 .. m
        /\ \A k \in 1 .. m : pushable(rs[f[k]]) /\ batch[k] = Entry(rs[f[k]])
        /\ \A i \in 1 .. n : pushable(rs[i]) => \E k \in 1 .. m : f[k] = i
        /\ \A k, l \in 1 .. m : f[k] = f[l] => k = l

LEMMA PayloadKept ==
    ASSUME NEW rs, NEW n \in Nat, DOMAIN rs = 1 .. n
    PROVE  Pushes(rs, n, buildPayload(rs))
  <1> DEFINE kept == {i \in DOMAIN rs : pushable(rs[i])}
  <1> DEFINE s == [i \in DOMAIN rs |-> Entry(rs[i])]
  <1>1. buildPayload(rs) = Kept(s, kept)
    BY DEF buildPayload
  <1>2. /\ kept \in SUBSET (1 .. n)
        /\ \A i \in 1 .. n : i \in kept <=> pushable(rs[i])
        /\ \A i \in 1 .. n : s[i] = Entry(rs[i])
    OBVIOUS
  <1> HIDE DEF kept, s
  <1>3. PICK m \in Nat : \E f \in [1 .. m -> kept] :
          /\ Kept(s, kept) = [k \in 1 .. m |-> s[f[k]]]
          /\ \A i \in kept : \E k \in 1 .. m : f[k] = i
          /\ \A k, l \in 1 .. m : k < l => f[k] < f[l]
    <2>1. Selects(s, kept, Kept(s, kept))
      BY <1>2, KeptEntries
    <2> QED
      BY <2>1 DEF Selects
  <1>4. PICK f \in [1 .. m -> kept] :
          /\ Kept(s, kept) = [k \in 1 .. m |-> s[f[k]]]
          /\ \A i \in kept : \E k \in 1 .. m : f[k] = i
          /\ \A k, l \in 1 .. m : k < l => f[k] < f[l]
    BY <1>3
  <1>5. f \in [1 .. m -> 1 .. n] /\ \A k \in 1 .. m : f[k] \in kept
    BY <1>2
  <1>6. \A k, l \in 1 .. m : f[k] = f[l] => k = l
    <2>1. \A k, l \in 1 .. m : k < l \/ l < k \/ k = l
      OBVIOUS
    <2>2. \A k \in 1 .. m : f[k] \in Nat
      BY <1>5
    <2>3. \A x \in Nat : ~(x < x)
      OBVIOUS
    <2> QED
      BY <1>4, <2>1, <2>2, <2>3, Zenon
  <1>7. /\ DOMAIN buildPayload(rs) = 1 .. m
        /\ \A k \in 1 .. m : pushable(rs[f[k]]) /\ buildPayload(rs)[k] = Entry(rs[f[k]])
    BY <1>1, <1>2, <1>4, <1>5
  <1> QED
    BY <1>2, <1>4, <1>5, <1>6, <1>7 DEF Pushes

\* The batch is one entry for each tls target: each position of the file that
\* holds one has exactly one entry, made from the outcome of its own probe.
LEMMA BatchOf ==
    ASSUME Control, Projection
    PROVE  \E m \in Nat : \E g \in [1 .. m -> DOMAIN file] :
              /\ DOMAIN buildPayload(results) = 1 .. m
              /\ \A k \in 1 .. m :
                    /\ Kind(file[g[k]]) = "tls"
                    /\ buildPayload(results)[k] = Entry(toResult(file[g[k]], truth[g[k]]))
              /\ \A i \in DOMAIN file : Kind(file[i]) = "tls" => \E k \in 1 .. m : g[k] = i
              /\ \A k, l \in 1 .. m : g[k] = g[l] => k = l
  <1> DEFINE n == Len(file)
  <1>1. n \in Nat /\ DOMAIN file = 1 .. n /\ \A i \in DOMAIN file : file[i] \in Target
    BY FileFacts
  <1>2. PICK p \in Orders(n) :
          /\ DOMAIN results = 1 .. n
          /\ \A i \in 1 .. n : /\ p[i] \in DOMAIN file
                               /\ results[i] = toResult(file[p[i]], truth[p[i]])
                               /\ truth[p[i]] \in Outcomes(file[p[i]])
    BY ResultOf
  <1>3. /\ \A i \in 1 .. n : \E q \in 1 .. n : p[q] = i
        /\ \A i, j \in 1 .. n : p[i] = p[j] => i = j
    BY <1>1, OrderCovers
  <1>4. \A i \in 1 .. n : pushable(results[i]) <=> Kind(file[p[i]]) = "tls"
    BY <1>1, <1>2, ResultFacts
  <1>5. PICK m \in Nat : \E f \in [1 .. m -> 1 .. n] :
          /\ DOMAIN buildPayload(results) = 1 .. m
          /\ \A k \in 1 .. m : /\ pushable(results[f[k]])
                               /\ buildPayload(results)[k] = Entry(results[f[k]])
          /\ \A i \in 1 .. n : pushable(results[i]) => \E k \in 1 .. m : f[k] = i
          /\ \A k, l \in 1 .. m : f[k] = f[l] => k = l
    <2>1. Pushes(results, n, buildPayload(results))
      BY <1>1, <1>2, PayloadKept
    <2> HIDE DEF n
    <2> QED
      BY <2>1 DEF Pushes
  <1>6. PICK f \in [1 .. m -> 1 .. n] :
          /\ DOMAIN buildPayload(results) = 1 .. m
          /\ \A k \in 1 .. m : /\ pushable(results[f[k]])
                               /\ buildPayload(results)[k] = Entry(results[f[k]])
          /\ \A i \in 1 .. n : pushable(results[i]) => \E k \in 1 .. m : f[k] = i
          /\ \A k, l \in 1 .. m : f[k] = f[l] => k = l
    BY <1>5
  <1> HIDE DEF n
  <1>7. \A k \in 1 .. m : f[k] \in 1 .. n
    OBVIOUS
  <1> DEFINE g == [k \in 1 .. m |-> p[f[k]]]
  <1>8. g \in [1 .. m -> DOMAIN file]
    BY <1>2, <1>7
  <1>9. \A k \in 1 .. m :
          /\ Kind(file[g[k]]) = "tls"
          /\ buildPayload(results)[k] = Entry(toResult(file[g[k]], truth[g[k]]))
    BY <1>2, <1>4, <1>6, <1>7
  <1>10. \A i \in DOMAIN file : Kind(file[i]) = "tls" => \E k \in 1 .. m : g[k] = i
    <2> SUFFICES ASSUME NEW i \in DOMAIN file, Kind(file[i]) = "tls"
                 PROVE  \E k \in 1 .. m : g[k] = i
      OBVIOUS
    <2>1. PICK q \in 1 .. n : p[q] = i
      BY <1>1, <1>3
    <2>2. PICK k \in 1 .. m : f[k] = q
      BY <1>4, <1>6, <2>1
    <2> QED
      BY <2>1, <2>2
  <1>11. \A k, l \in 1 .. m : g[k] = g[l] => k = l
    BY <1>3, <1>6, <1>7
  <1> HIDE DEF g
  <1> QED
    BY <1>6, <1>8, <1>9, <1>10, <1>11

\* What the batch says about a tls target, in terms of its probe.
LEMMA EntryFacts ==
    ASSUME NEW t \in Target, NEW o \in Outcomes(t), Kind(t) = "tls"
    PROVE  LET e == Entry(toResult(t, o))
           IN  /\ e.target = t /\ e.key = KeyOf(t)
               /\ e.tcp_ok = RanOK(o, "tcp") /\ e.tls_ok = RanOK(o, "tls")
               /\ e.latency_ms = IF Passed(o.Phases) THEN {1} ELSE {}
               /\ e.failed_phase = Failed(o)
  <1> DEFINE r == toResult(t, o)
  <1> DEFINE e == Entry(r)
  <1>1. /\ r.target = t /\ r.SNI = KeyOf(t)[2]
        /\ r.TCPOK = {RanOK(o, "tcp")} /\ r.TLSOK = {RanOK(o, "tls")}
        /\ r.TLSTime = {Measured(o, "tls")}
    BY ResultFacts
  <1>2. /\ Failed(o) = {} <=> Passed(o.Phases)
        /\ RanOK(o, "tls") <=> Passed(o.Phases)
        /\ RanOK(o, "tls") => RanOK(o, "tcp") /\ Ran(o, "tls")
        /\ ~RanOK(o, "tcp") => Failed(o) = {"tcp"}
        /\ RanOK(o, "tcp") /\ ~RanOK(o, "tls") => Failed(o) = {"tls"}
    BY TLSOutcome, ShapeFacts
  <1> HIDE DEF r
  <1>3. /\ e.target = r.target /\ e.key = <<r.target.addr, r.SNI>>
        /\ e.tcp_ok = (TRUE \in r.TCPOK) /\ e.tls_ok = (TRUE \in r.TLSOK)
        /\ e.latency_ms = IF TRUE \in r.TLSOK THEN r.TLSTime ELSE {}
        /\ e.failed_phase = failedPhase(r)
    BY DEF Entry
  <1> HIDE DEF e
  <1>4. RanOK(o, "tcp") \in BOOLEAN /\ RanOK(o, "tls") \in BOOLEAN
    BY DEF RanOK
  <1>5. (TRUE \in r.TCPOK) = RanOK(o, "tcp") /\ (TRUE \in r.TLSOK) = RanOK(o, "tls")
    <2>1. TRUE \in r.TCPOK <=> RanOK(o, "tcp")
      BY <1>1, <1>4
    <2>2. TRUE \in r.TLSOK <=> RanOK(o, "tls")
      BY <1>1, <1>4
    <2>3. \A a, b \in BOOLEAN : (a <=> b) => a = b
      OBVIOUS
    <2>4. (TRUE \in r.TCPOK) \in BOOLEAN /\ (TRUE \in r.TLSOK) \in BOOLEAN
      OBVIOUS
    <2> QED
      BY <1>4, <2>1, <2>2, <2>3, <2>4
  <1>6. e.latency_ms = IF Passed(o.Phases) THEN {1} ELSE {}
    BY <1>1, <1>2, <1>3, <1>5 DEF Measured
  <1>7. e.failed_phase = Failed(o)
    BY <1>2, <1>3, <1>5 DEF failedPhase
  <1>8. e.target = t /\ e.key = KeyOf(t)
    BY <1>1, <1>3 DEF KeyOf
  <1>9. e.tcp_ok = RanOK(o, "tcp") /\ e.tls_ok = RanOK(o, "tls")
    BY <1>3, <1>5
  <1> QED
    BY <1>6, <1>7, <1>8, <1>9 DEF e, r

\* Each entry is stored under the key its target determines.
LEMMA BatchKeys ==
    ASSUME Control, Projection
    PROVE  \A k \in DOMAIN buildPayload(results) :
              buildPayload(results)[k].key = KeyOf(buildPayload(results)[k].target)
  <1>1. PICK m \in Nat : \E g \in [1 .. m -> DOMAIN file] :
          /\ DOMAIN buildPayload(results) = 1 .. m
          /\ \A k \in 1 .. m :
                /\ Kind(file[g[k]]) = "tls"
                /\ buildPayload(results)[k] = Entry(toResult(file[g[k]], truth[g[k]]))
    BY BatchOf
  <1>2. PICK g \in [1 .. m -> DOMAIN file] :
          /\ DOMAIN buildPayload(results) = 1 .. m
          /\ \A k \in 1 .. m :
                /\ Kind(file[g[k]]) = "tls"
                /\ buildPayload(results)[k] = Entry(toResult(file[g[k]], truth[g[k]]))
    BY <1>1
  <1>3. \A i \in DOMAIN file : file[i] \in Target /\ truth[i] \in Outcomes(file[i])
    BY FileFacts DEF Projection
  <1> SUFFICES ASSUME NEW k \in 1 .. m
               PROVE  buildPayload(results)[k].key = KeyOf(buildPayload(results)[k].target)
    BY <1>2
  <1>4. g[k] \in DOMAIN file
    OBVIOUS
  <1> QED
    BY <1>2, <1>3, <1>4, EntryFacts

LEMMA PushAcceptedInv ==
    ASSUME NodeInv, PushAccepted
    PROVE  NodeInv'
  <1>1. Control' /\ file' = file /\ cmd' = cmd /\ BadFile' = BadFile
    BY ControlKept, FileFixed DEF Next
  <1>2. /\ pc = "push" /\ pc' = "status" /\ acked' = TRUE
        /\ payload' = buildPayload(results)
        /\ reported' = reported \cup
              {<<payload'[i].target, payload'[i].key>> : i \in DOMAIN payload'}
        /\ UNCHANGED <<truth, results, stdout, printed>>
    BY DEF PushAccepted
  <1>3. ~BadFile /\ Projection /\ Control
    BY <1>2 DEF NodeInv, Stopped, Probed
  <1>4. Projection'
    BY <1>1, <1>2, <1>3, ProjectionKept
  <1>5. Fresh' /\ Stopped' /\ Path' /\ ExitTruthful'
    BY <1>1, <1>2, <1>3 DEF NodeInv, Fresh, Stopped, Path, ExitTruthful, Over
  <1>6. Output' /\ Batch'
    BY <1>1, <1>2 DEF NodeInv, Output, Batch
  <1>7. Keys'
    <2>1. \A i \in DOMAIN payload' : payload'[i].key = KeyOf(payload'[i].target)
      BY <1>2, <1>3, BatchKeys
    <2>2. \A a \in reported : a[2] = KeyOf(a[1])
      BY DEF NodeInv, Keys
    <2>3. \A a \in reported' : a[2] = KeyOf(a[1])
      BY <1>2, <2>1, <2>2
    <2> QED
      BY <2>3 DEF Keys
  <1> QED
    BY <1>1, <1>4, <1>5, <1>6, <1>7 DEF NodeInv

LEMMA PushFailsInv ==
    ASSUME NodeInv, NoRunID \/ PushFails
    PROVE  NodeInv'
  <1>1. Control' /\ file' = file /\ cmd' = cmd /\ BadFile' = BadFile
    BY ControlKept, FileFixed DEF Next
  <1>2. /\ pc = "push" /\ pc' = "exited" /\ exit' = 3
        /\ payload' = payload \/ payload' = buildPayload(results)
        /\ UNCHANGED <<truth, results, stdout, printed, acked, reported>>
    BY DEF NoRunID, PushFails, Exit
  <1>3. /\ ~BadFile /\ Projection /\ ~acked /\ cmd.push
        /\ cmd.format \in {"json", "prom"}
        /\ cmd.format = "json" => printed = "all"
    BY <1>2 DEF NodeInv, Stopped, Probed, Fresh, Path
  <1>4. Projection'
    BY <1>1, <1>2, <1>3, ProjectionKept
  <1>5. Fresh' /\ Stopped' /\ Path'
    BY <1>1, <1>2, <1>3 DEF NodeInv, Fresh, Stopped, Path
  <1>6. Output' /\ Batch' /\ Keys'
    BY <1>1, <1>2 DEF NodeInv, Output, Batch, Keys
  <1>7. ExitTruthful'
    BY <1>1, <1>2, <1>3 DEF ExitTruthful, Over
  <1> QED
    BY <1>1, <1>4, <1>5, <1>6, <1>7 DEF NodeInv

LEMMA StatusInv ==
    ASSUME NodeInv, Status
    PROVE  NodeInv'
  <1>1. Control' /\ file' = file /\ cmd' = cmd /\ BadFile' = BadFile
    BY ControlKept, FileFixed DEF Next
  <1>2. /\ pc = "status" /\ pc' = "exited"
        /\ exit' = IF \E i \in DOMAIN results : ~results[i].OK THEN 1 ELSE 0
        /\ UNCHANGED <<truth, results, stdout, printed, payload, acked, reported>>
    BY DEF Status, Exit
  <1>3. /\ ~BadFile /\ Projection /\ Control /\ (cmd.push => acked)
        /\ cmd.format \in {"json", "prom"}
        /\ cmd.format = "json" => printed = "all"
    BY <1>2 DEF NodeInv, Stopped, Probed, Fresh, Path
  <1>4. Projection'
    BY <1>1, <1>2, <1>3, ProjectionKept
  <1>5. Fresh' /\ Stopped' /\ Path' /\ Output' /\ Batch' /\ Keys'
    BY <1>1, <1>2, <1>3 DEF NodeInv, Fresh, Stopped, Path, Output, Batch, Keys
  <1>6. exit' = IF AllPassed THEN 0 ELSE 1
    BY <1>2, <1>3, VerdictsAgree
  <1>7. AllPassed' = AllPassed
    BY <1>1, <1>2 DEF AllPassed
  <1>8. ExitTruthful'
    BY <1>1, <1>2, <1>3, <1>6, <1>7 DEF ExitTruthful, Over
  <1> QED
    BY <1>1, <1>4, <1>5, <1>8 DEF NodeInv

\* A round that is over, and the next one.
LEMMA CronInv ==
    ASSUME NodeInv, CronEntry \/ NextRound \/ UNCHANGED vars
    PROVE  NodeInv'
  <1>1. Control' /\ file' = file /\ cmd' = cmd /\ BadFile' = BadFile
    BY ControlKept, FileFixed DEF Next
  <1>2. CASE CronEntry \/ UNCHANGED vars
    <2>1. /\ pc' = pc \/ (pc = "exited" /\ pc' = "idle")
          /\ UNCHANGED <<truth, results, stdout, printed, payload, acked, exit, reported>>
      BY <1>2 DEF CronEntry, vars
    <2>2. Fresh' /\ Stopped' /\ Path' /\ Output' /\ Batch' /\ Keys'
      BY <1>1, <2>1 DEF NodeInv, Fresh, Stopped, Path, Output, Batch, Keys
    <2>3. Probed' => Projection'
      BY <1>1, <2>1, ProjectionKept DEF NodeInv, Probed, Over
    <2>4. ExitTruthful'
      BY <1>1, <2>1, ExitKept DEF NodeInv, ExitTruthful, Over
    <2> QED
      BY <1>1, <2>2, <2>3, <2>4 DEF NodeInv
  <1>3. CASE NextRound
    <2>1. /\ pc' = "load" /\ truth' = NoTruth /\ results' = <<>> /\ stdout' = <<>>
          /\ printed' = "no" /\ payload' = <<>> /\ acked' = FALSE /\ reported' = reported
      BY <1>3 DEF NextRound
    <2>2. Fresh' /\ Stopped' /\ Path' /\ Output' /\ Batch' /\ Keys'
      BY <1>1, <2>1 DEF NodeInv, Fresh, Stopped, Path, Output, Batch, Keys
    <2>3. ~Probed' /\ ExitTruthful'
      BY <2>1 DEF Probed, Over, ExitTruthful
    <2> QED
      BY <1>1, <2>2, <2>3 DEF NodeInv
  <1> QED
    BY <1>2, <1>3

-----------------------------------------------------------------------------
(* The theorems.                                                           *)

\* The conjunction above is an invariant of main under cron.
THEOREM Invariance == Spec => []NodeInv
  <1>1. Init => NodeInv
    BY InitInv
  <1>2. NodeInv /\ [Next]_vars => NodeInv'
    <2> SUFFICES ASSUME NodeInv, [Next]_vars PROVE NodeInv'
      OBVIOUS
    <2>1. CASE LoadTargets
      BY <2>1, LoadInv
    <2>2. CASE RunAllAndSort
      BY <2>2, ProbeInv
    <2>3. CASE PrintJSON \/ PrintJSONFails \/ PrintProm \/ PrintPromCut \/ UnknownFormat
      BY <2>3, PrintInv
    <2>4. CASE PushAccepted
      BY <2>4, PushAcceptedInv
    <2>5. CASE NoRunID \/ PushFails
      BY <2>5, PushFailsInv
    <2>6. CASE Status
      BY <2>6, StatusInv
    <2>7. CASE CronEntry \/ NextRound \/ UNCHANGED vars
      BY <2>7, CronInv
    <2> QED
      BY <2>1, <2>2, <2>3, <2>4, <2>5, <2>6, <2>7 DEF Next
  <1> QED
    BY <1>1, <1>2, PTL DEF Spec

\* The exit status tells what the probers found, for every file and command:
\* sorting, projection, a cut output and a refused push change nothing in it.
THEOREM ExitStatusIsTruthful == Spec => []ExitTruthful
  <1>1. NodeInv => ExitTruthful
    BY DEF NodeInv
  <1> QED
    BY <1>1, Invariance, PTL

\* A targets file that loadTargets rejects is never reported as an outage.
THEOREM BadFileIsNotOutage == Spec => []ConfigIsNotOutage
  <1>1. NodeInv => ConfigIsNotOutage
    BY DEF NodeInv, Stopped, ConfigIsNotOutage
  <1> QED
    BY <1>1, Invariance, PTL

\* A target is stored under one (addr, sni) in every round, whichever phase
\* of its probe broke.
THEOREM IdentityIsStable == Spec => []IdentityStable
  <1>1. NodeInv => IdentityStable
    <2> SUFFICES ASSUME NodeInv PROVE IdentityStable
      OBVIOUS
    <2>1. \A a \in reported : a[2] = KeyOf(a[1])
      BY DEF NodeInv, Keys
    <2> QED
      BY <2>1 DEF IdentityStable
  <1> QED
    BY <1>1, Invariance, PTL

\* A batch that was made was made from the results of this round's probes.
LEMMA BatchMeansProbed ==
    ASSUME NodeInv
    PROVE  /\ payload # <<>> => Probed /\ Projection /\ payload = buildPayload(results)
           /\ printed # "no" => Probed /\ Projection
           /\ truth # NoTruth \/ results # <<>> => Projection
  <1>1. payload # <<>> \/ printed # "no" \/ truth # NoTruth \/ results # <<>> => Probed
    BY DEF NodeInv, Control, Fresh, Stopped, Probed, Over
  <1> QED
    BY <1>1 DEF NodeInv, Batch

\* The types of the state of main.
THEOREM TypeCorrect == Spec => []TypeOK
  <1>1. NodeInv => TypeOK
    <2> SUFFICES ASSUME NodeInv PROVE TypeOK
      OBVIOUS
    <2>1. truth = NoTruth \/ DOMAIN truth = DOMAIN file
      BY BatchMeansProbed DEF Projection
    <2>2. results = <<>> \/ Len(results) = Len(file)
      BY BatchMeansProbed, ResultOf DEF NodeInv
    <2>3. ASSUME NEW i \in DOMAIN payload
          PROVE  /\ payload[i].tcp_ok \in BOOLEAN /\ payload[i].tls_ok \in BOOLEAN
                 /\ payload[i].failed_phase \subseteq {"tcp", "tls"}
      <3>1. payload # <<>>
        BY <2>3
      <3>2. Control /\ Projection /\ payload = buildPayload(results)
        BY <3>1, BatchMeansProbed DEF NodeInv
      <3>3. \E r : payload[i] = Entry(r)
        BY <2>3, <3>2, BatchOf
      <3>4. PICK r : payload[i] = Entry(r)
        BY <3>3
      <3>5. failedPhase(r) \subseteq {"tcp", "tls"}
        BY DEF failedPhase
      <3>6. (TRUE \in r.TCPOK) \in BOOLEAN /\ (TRUE \in r.TLSOK) \in BOOLEAN
        OBVIOUS
      <3> QED
        BY <3>4, <3>5, <3>6 DEF Entry
    <2> QED
      BY <2>1, <2>2, <2>3 DEF NodeInv, Control, TypeOK
  <1> QED
    BY <1>1, Invariance, PTL

\* No targets file lists a target twice.  The code does not demand it (see
\* the README), and what is said of a target listed twice is said of both.
DistinctTargets == \A f \in Files : \A i, j \in DOMAIN f : f[i] = f[j] => i = j

\* The batch holds one entry for each tls target and none for another, and the
\* entry is the truth about the phases of that target's probe.
THEOREM PushIsHonest == ASSUME DistinctTargets PROVE Spec => []PushHonest
  <1>1. NodeInv => PushHonest
    <2> SUFFICES ASSUME NodeInv, payload # <<>>, NEW i \in DOMAIN file
                 PROVE  LET mine == {j \in DOMAIN payload : payload[j].target = file[i]}
                        IN  IF Kind(file[i]) # "tls" THEN mine = {}
                            ELSE /\ Cardinality(mine) = 1
                                 /\ \A j \in mine :
                                      /\ payload[j].tcp_ok = RanOK(truth[i], "tcp")
                                      /\ payload[j].tls_ok = RanOK(truth[i], "tls")
                                      /\ payload[j].latency_ms
                                            = IF Passed(truth[i].Phases) THEN {1} ELSE {}
                                      /\ payload[j].failed_phase = Failed(truth[i])
      BY DEF PushHonest
    <2> DEFINE mine == {j \in DOMAIN payload : payload[j].target = file[i]}
    <2>1. Control /\ Projection /\ payload = buildPayload(results)
      BY BatchMeansProbed DEF NodeInv
    <2>2. PICK m \in Nat : \E g \in [1 .. m -> DOMAIN file] :
            /\ DOMAIN payload = 1 .. m
            /\ \A k \in 1 .. m :
                  /\ Kind(file[g[k]]) = "tls"
                  /\ payload[k] = Entry(toResult(file[g[k]], truth[g[k]]))
            /\ \A j \in DOMAIN file : Kind(file[j]) = "tls" => \E k \in 1 .. m : g[k] = j
            /\ \A k, l \in 1 .. m : g[k] = g[l] => k = l
      BY <2>1, BatchOf
    <2>3. PICK g \in [1 .. m -> DOMAIN file] :
            /\ DOMAIN payload = 1 .. m
            /\ \A k \in 1 .. m :
                  /\ Kind(file[g[k]]) = "tls"
                  /\ payload[k] = Entry(toResult(file[g[k]], truth[g[k]]))
            /\ \A j \in DOMAIN file : Kind(file[j]) = "tls" => \E k \in 1 .. m : g[k] = j
            /\ \A k, l \in 1 .. m : g[k] = g[l] => k = l
      BY <2>2
    <2>4. \A j \in DOMAIN file : file[j] \in Target /\ truth[j] \in Outcomes(file[j])
      BY <2>1, FileFacts DEF Projection
    <2>5. \A j \in DOMAIN file : file[i] = file[j] => i = j
      BY <2>1 DEF DistinctTargets, Control
    <2>6. ASSUME NEW k \in 1 .. m
          PROVE  /\ payload[k].target = file[g[k]]
                 /\ payload[k].tcp_ok = RanOK(truth[g[k]], "tcp")
                 /\ payload[k].tls_ok = RanOK(truth[g[k]], "tls")
                 /\ payload[k].latency_ms = IF Passed(truth[g[k]].Phases) THEN {1} ELSE {}
                 /\ payload[k].failed_phase = Failed(truth[g[k]])
      <3>1. g[k] \in DOMAIN file
        OBVIOUS
      <3> QED
        BY <2>3, <2>4, <3>1, EntryFacts
    <2>7. \A k \in 1 .. m : k \in mine <=> g[k] = i
      BY <2>3, <2>5, <2>6
    <2>8. mine \subseteq 1 .. m
      BY <2>3
    <2> HIDE DEF mine
    <2>9. CASE Kind(file[i]) # "tls"
      <3>1. mine = {}
        BY <2>3, <2>7, <2>8, <2>9
      <3> QED
        BY <2>9, <3>1 DEF mine
    <2>10. CASE Kind(file[i]) = "tls"
      <3>1. PICK k \in 1 .. m : g[k] = i
        BY <2>3, <2>10
      <3>2. mine = {k}
        BY <2>3, <2>7, <2>8, <3>1
      <3>3. Cardinality(mine) = 1
        BY <3>2, FS_Singleton
      <3>4. \A j \in mine : /\ payload[j].tcp_ok = RanOK(truth[i], "tcp")
                            /\ payload[j].tls_ok = RanOK(truth[i], "tls")
                            /\ payload[j].latency_ms
                                  = IF Passed(truth[i].Phases) THEN {1} ELSE {}
                            /\ payload[j].failed_phase = Failed(truth[i])
        BY <2>6, <3>1, <3>2
      <3> QED
        BY <2>10, <3>3, <3>4 DEF mine
    <2> QED
      BY <2>9, <2>10
  <1> QED
    BY <1>1, Invariance, PTL

-----------------------------------------------------------------------------
(* The text format.                                                        *)

Elements(s) == {s[i] : i \in DOMAIN s}

Sample(family, r, values) == [family |-> family, target |-> r.target,
                              value |-> CHOOSE v \in values : TRUE]

LEMMA ConcatElements ==
    ASSUME NEW a, NEW b, a \in Seq(Elements(a)), b \in Seq(Elements(b))
    PROVE  /\ Elements(a \o b) = Elements(a) \cup Elements(b)
           /\ a \o b \in Seq(Elements(a \o b))
  <1> DEFINE S == Elements(a) \cup Elements(b)
  <1> DEFINE c == a \o b
  <1>1. a \in Seq(S) /\ b \in Seq(S)
    OBVIOUS
  <1> HIDE DEF S
  <1>2. /\ Len(a) \in Nat /\ DOMAIN a = 1 .. Len(a)
        /\ Len(b) \in Nat /\ DOMAIN b = 1 .. Len(b)
    BY <1>1
  <1>3. /\ c \in Seq(S) /\ Len(c) = Len(a) + Len(b) /\ DOMAIN c = 1 .. Len(a) + Len(b)
        /\ \A i \in 1 .. Len(a) + Len(b) :
              c[i] = IF i <= Len(a) THEN a[i] ELSE b[i - Len(a)]
    BY <1>1, <1>2
  <1> HIDE DEF c
  <1>4. \A i \in DOMAIN c : c[i] \in S
    BY <1>3
  <1>5. \A i \in DOMAIN a : i \in DOMAIN c /\ c[i] = a[i]
    BY <1>2, <1>3
  <1>6. ASSUME NEW i \in DOMAIN b PROVE \E j \in DOMAIN c : c[j] = b[i]
    <2>1. i \in 1 .. Len(b) /\ i + Len(a) \in 1 .. Len(a) + Len(b)
          /\ ~(i + Len(a) <= Len(a)) /\ i + Len(a) - Len(a) = i
      BY <1>2, <1>6
    <2>2. c[i + Len(a)] = b[i]
      BY <1>3, <2>1
    <2> QED
      BY <1>3, <2>1, <2>2
  <1>7. Elements(c) = S
    BY <1>4, <1>5, <1>6 DEF Elements, S
  <1> QED
    BY <1>3, <1>7 DEF c, S

SamplesOf(family, rs, n, values) ==
    {Sample(family, rs[i], values[i]) : i \in {j \in 1 .. n : values[j] # {}}}

\* One loop of writeProm: a sample for each result that has a value, and no
\* other.
LEMMA SampleElements ==
    ASSUME NEW family, NEW rs, NEW n \in Nat, DOMAIN rs = 1 .. n, NEW values
    PROVE  /\ Samples(family, rs, values) \in Seq(Elements(Samples(family, rs, values)))
           /\ Elements(Samples(family, rs, values)) = SamplesOf(family, rs, n, values)
           /\ \A x \in Elements(Samples(family, rs, values)) : x.family = family
  <1> DEFINE kept == {i \in DOMAIN rs : values[i] # {}}
  <1> DEFINE s == [i \in DOMAIN rs |-> Sample(family, rs[i], values[i])]
  <1>1. Samples(family, rs, values) = Kept(s, kept)
    BY DEF Samples, Sample
  <1>2. /\ kept \in SUBSET (1 .. n) /\ kept = {j \in 1 .. n : values[j] # {}}
        /\ \A i \in kept : s[i] = Sample(family, rs[i], values[i])
    OBVIOUS
  <1> HIDE DEF kept, s
  <1>3. Selects(s, kept, Kept(s, kept))
    BY <1>2, KeptEntries
  <1>4. PICK m \in Nat : \E f \in [1 .. m -> kept] :
          /\ Kept(s, kept) = [k \in 1 .. m |-> s[f[k]]]
          /\ \A i \in kept : \E k \in 1 .. m : f[k] = i
    BY <1>3 DEF Selects
  <1>5. PICK f \in [1 .. m -> kept] :
          /\ Kept(s, kept) = [k \in 1 .. m |-> s[f[k]]]
          /\ \A i \in kept : \E k \in 1 .. m : f[k] = i
    BY <1>4
  <1> DEFINE loop == Kept(s, kept)
  <1>6. DOMAIN loop = 1 .. m /\ \A k \in 1 .. m : loop[k] = s[f[k]] /\ f[k] \in kept
    BY <1>5
  <1>7. loop \in [1 .. m -> Elements(loop)]
    <2>1. \A k \in 1 .. m : loop[k] \in Elements(loop)
      BY <1>6 DEF Elements
    <2>2. loop = [k \in 1 .. m |-> loop[k]]
      BY <1>5
    <2> QED
      BY <2>1, <2>2
  <1> HIDE DEF loop
  <1>8. loop \in Seq(Elements(loop))
    BY <1>7
  <1>9. Elements(loop) = SamplesOf(family, rs, n, values)
    <2>1. \A k \in 1 .. m : loop[k] = Sample(family, rs[f[k]], values[f[k]]) /\ f[k] \in kept
      BY <1>2, <1>6
    <2>2. \A x \in Elements(loop) : \E i \in kept : x = Sample(family, rs[i], values[i])
      BY <1>6, <2>1 DEF Elements
    <2>3. ASSUME NEW i \in kept PROVE Sample(family, rs[i], values[i]) \in Elements(loop)
      <3>1. PICK k \in 1 .. m : f[k] = i
        BY <1>5
      <3> QED
        BY <1>6, <2>1, <3>1 DEF Elements
    <2> QED
      BY <1>2, <2>2, <2>3 DEF SamplesOf
  <1>10. \A x \in SamplesOf(family, rs, n, values) : x.family = family
    BY DEF SamplesOf, Sample
  <1> QED
    BY <1>1, <1>8, <1>9, <1>10 DEF loop

\* The samples of a family in out are those of the n results rs that have a
\* value in values.
Family(out, family, rs, n, values) ==
    \A e : e \in Elements(out) /\ e.family = family <=> e \in SamplesOf(family, rs, n, values)

\* The families that speak of liveness, in the whole output.
LEMMA PromElements ==
    ASSUME NEW rs, NEW n \in Nat, DOMAIN rs = 1 .. n
    PROVE  /\ Family(writeProm(rs), "vpnnode_up", rs, n, [i \in DOMAIN rs |-> Up(rs[i])])
           /\ Family(writeProm(rs), "vpnnode_initiation_sent", rs, n,
                     [i \in DOMAIN rs |-> InitiationSent(rs[i])])
  <1> DEFINE v1 == [i \in DOMAIN rs |-> Up(rs[i])]
  <1> DEFINE v2 == [i \in DOMAIN rs |-> rs[i].TCPTime]
  <1> DEFINE v3 == [i \in DOMAIN rs |-> rs[i].TLSTime]
  <1> DEFINE v4 == [i \in DOMAIN rs |-> CertMatch(rs[i])]
  <1> DEFINE v5 == [i \in DOMAIN rs |-> InitiationSent(rs[i])]
  <1> DEFINE a == Samples("vpnnode_up", rs, v1)
  <1> DEFINE b == Samples("vpnnode_tcp_connect_seconds", rs, v2)
  <1> DEFINE c == Samples("vpnnode_tls_handshake_seconds", rs, v3)
  <1> DEFINE d == Samples("vpnnode_cert_match", rs, v4)
  <1> DEFINE e == Samples("vpnnode_initiation_sent", rs, v5)
  <1>1. writeProm(rs) = (((a \o b) \o c) \o d) \o e
    BY DEF writeProm
  <1> HIDE DEF v1, v2, v3, v4, v5
  <1>3. /\ a \in Seq(Elements(a)) /\ b \in Seq(Elements(b)) /\ c \in Seq(Elements(c))
        /\ d \in Seq(Elements(d)) /\ e \in Seq(Elements(e))
    BY SampleElements
  <1>4. \A x \in Elements(a) : x.family = "vpnnode_up"
    BY SampleElements
  <1>5. \A x \in Elements(b) : x.family = "vpnnode_tcp_connect_seconds"
    BY SampleElements
  <1>6. \A x \in Elements(c) : x.family = "vpnnode_tls_handshake_seconds"
    BY SampleElements
  <1>7. \A x \in Elements(d) : x.family = "vpnnode_cert_match"
    BY SampleElements
  <1>8. \A x \in Elements(e) : x.family = "vpnnode_initiation_sent"
    BY SampleElements
  <1>9. /\ Elements(a) = SamplesOf("vpnnode_up", rs, n, v1)
        /\ Elements(e) = SamplesOf("vpnnode_initiation_sent", rs, n, v5)
    BY SampleElements
  <1> HIDE DEF a, b, c, d, e
  <1>10. Elements(writeProm(rs))
            = Elements(a) \cup Elements(b) \cup Elements(c) \cup Elements(d) \cup Elements(e)
    <2>1. /\ Elements(a \o b) = Elements(a) \cup Elements(b)
          /\ a \o b \in Seq(Elements(a \o b))
      BY <1>3, ConcatElements
    <2>2. /\ Elements((a \o b) \o c) = Elements(a \o b) \cup Elements(c)
          /\ (a \o b) \o c \in Seq(Elements((a \o b) \o c))
      BY <1>3, <2>1, ConcatElements
    <2>3. /\ Elements(((a \o b) \o c) \o d) = Elements((a \o b) \o c) \cup Elements(d)
          /\ ((a \o b) \o c) \o d \in Seq(Elements(((a \o b) \o c) \o d))
      BY <1>3, <2>2, ConcatElements
    <2>4. Elements((((a \o b) \o c) \o d) \o e) = Elements(((a \o b) \o c) \o d) \cup Elements(e)
      BY <1>3, <2>3, ConcatElements
    <2> QED
      BY <1>1, <2>1, <2>2, <2>3, <2>4
  <1>11. \A x : x \in Elements(writeProm(rs)) /\ x.family = "vpnnode_up" <=> x \in Elements(a)
    BY <1>4, <1>5, <1>6, <1>7, <1>8, <1>10
  <1>12. \A x : x \in Elements(writeProm(rs)) /\ x.family = "vpnnode_initiation_sent"
                   <=> x \in Elements(e)
    BY <1>4, <1>5, <1>6, <1>7, <1>8, <1>10
  <1> QED
    BY <1>9, <1>11, <1>12 DEF Family, v1, v5

\* A complete output has a value for a target in a family exactly when the
\* result of that target has one.
LEMMA FamilyValues ==
    ASSUME NEW family, NEW n \in Nat, NEW q \in 1 .. n, NEW values,
           Family(stdout, family, results, n, values),
           \A i \in 1 .. n : results[i].target = results[q].target => i = q
    PROVE  ValuesOf(family, results[q].target)
              = IF values[q] = {} THEN {} ELSE {CHOOSE v \in values[q] : TRUE}
  <1> DEFINE t == results[q].target
  <1> DEFINE w == Sample(family, results[q], values[q])
  <1>1. ASSUME NEW j \in DOMAIN stdout, stdout[j].family = family, stdout[j].target = t
        PROVE  values[q] # {} /\ stdout[j] = w
    <2>1. stdout[j] \in Elements(stdout)
      BY DEF Elements
    <2>2. stdout[j] \in SamplesOf(family, results, n, values)
      BY <1>1, <2>1 DEF Family
    <2>3. PICK i \in 1 .. n : /\ values[i] # {}
                              /\ stdout[j] = Sample(family, results[i], values[i])
      BY <2>2 DEF SamplesOf
    <2>4. results[i].target = t
      BY <1>1, <2>3 DEF Sample
    <2>5. i = q
      BY <2>4
    <2> QED
      BY <2>3, <2>5
  <1>2. ASSUME values[q] # {}
        PROVE  \E j \in DOMAIN stdout : stdout[j] = w
    <2>1. w \in SamplesOf(family, results, n, values)
      BY <1>2 DEF SamplesOf
    <2>2. w \in Elements(stdout)
      BY <2>1 DEF Family
    <2> QED
      BY <2>2 DEF Elements
  <1>3. /\ w.family = family /\ w.target = t
        /\ w.value = CHOOSE v \in values[q] : TRUE
    BY DEF Sample
  <1> HIDE DEF w, t
  <1>4. CASE values[q] = {}
    <2>1. ValuesOf(family, t) = {}
      BY <1>1, <1>4 DEF ValuesOf
    <2> QED
      BY <1>4, <2>1 DEF t
  <1>5. CASE values[q] # {}
    <2>1. \A x \in ValuesOf(family, t) : x = w.value
      BY <1>1 DEF ValuesOf
    <2>2. w.value \in ValuesOf(family, t)
      BY <1>2, <1>3, <1>5 DEF ValuesOf
    <2>3. ValuesOf(family, t) = {w.value}
      BY <2>1, <2>2
    <2> QED
      BY <1>3, <1>5, <2>3 DEF t
  <1> QED
    BY <1>4, <1>5

\* In a complete output vpnnode_up has the true verdict of every target whose
\* probe can give one and no value for an anonymous WireGuard target, which is
\* in vpnnode_initiation_sent instead, however far the probe of either got.
THEOREM LivenessIsHonest == ASSUME DistinctTargets PROVE Spec => []LivenessHonest
  <1>1. NodeInv => LivenessHonest
    <2> SUFFICES ASSUME NodeInv, cmd.format = "prom", printed = "all", NEW i \in DOMAIN file
                 PROVE  LET verdict == {boolToInt(Passed(truth[i].Phases))}
                        IN  /\ ValuesOf("vpnnode_up", file[i])
                                  = IF anonymous(file[i]) THEN {} ELSE verdict
                            /\ ValuesOf("vpnnode_initiation_sent", file[i])
                                  = IF anonymous(file[i]) THEN verdict ELSE {}
      BY DEF LivenessHonest
    <2> DEFINE n == Len(file)
    <2> DEFINE verdict == boolToInt(Passed(truth[i].Phases))
    <2>1. Control /\ Projection /\ stdout = writeProm(results) /\ ~BadFile
      BY BatchMeansProbed DEF NodeInv, Output, Stopped
    <2>2. n \in Nat /\ DOMAIN file = 1 .. n /\ \A j \in DOMAIN file : file[j] \in Target
      BY <2>1, FileFacts
    <2>3. PICK p \in Orders(n) :
            /\ DOMAIN results = 1 .. n
            /\ \A j \in 1 .. n : /\ p[j] \in DOMAIN file
                                 /\ results[j] = toResult(file[p[j]], truth[p[j]])
                                 /\ truth[p[j]] \in Outcomes(file[p[j]])
      BY <2>1, ResultOf
    <2>3a. /\ \A j \in 1 .. n : \E q \in 1 .. n : p[q] = j
           /\ \A j, k \in 1 .. n : p[j] = p[k] => j = k
      BY <2>2, OrderCovers
    <2>4. PICK q \in 1 .. n : p[q] = i
      BY <2>2, <2>3a
    <2>5. \A j \in 1 .. n : p[j] = p[q] => j = q
      BY <2>3a
    <2>6. \A j \in 1 .. n : results[j].target = file[p[j]]
      BY <2>2, <2>3, ResultFacts
    <2>7. \A j \in 1 .. n : results[j].target = results[q].target => j = q
      <3>1. \A j, k \in DOMAIN file : file[j] = file[k] => j = k
        BY <2>1 DEF DistinctTargets, Control
      <3> QED
        BY <2>3, <2>4, <2>5, <2>6, <3>1
    <2>8. /\ results[q].noLivenessClaim = anonymous(file[i])
          /\ results[q].OK <=> Passed(truth[i].Phases)
      <3>1. Kind(file[i]) \in Kinds
        BY <2>1 DEF BadFile, Validate
      <3> QED
        BY <2>2, <2>3, <2>4, <3>1, ResultFacts
    <2> DEFINE up == [j \in DOMAIN results |-> Up(results[j])]
    <2> DEFINE sent == [j \in DOMAIN results |-> InitiationSent(results[j])]
    <2>9. /\ Family(stdout, "vpnnode_up", results, n, up)
          /\ Family(stdout, "vpnnode_initiation_sent", results, n, sent)
      BY <2>1, <2>2, <2>3, PromElements
    <2>10. /\ ValuesOf("vpnnode_up", results[q].target)
                 = IF up[q] = {} THEN {} ELSE {CHOOSE v \in up[q] : TRUE}
           /\ ValuesOf("vpnnode_initiation_sent", results[q].target)
                 = IF sent[q] = {} THEN {} ELSE {CHOOSE v \in sent[q] : TRUE}
      BY <2>2, <2>4, <2>7, <2>9, FamilyValues
    <2>11. boolToInt(results[q].OK) = verdict
      BY <2>8 DEF boolToInt
    <2>12. /\ up[q] = IF anonymous(file[i]) THEN {} ELSE {verdict}
           /\ sent[q] = IF anonymous(file[i]) THEN {verdict} ELSE {}
      BY <2>3, <2>8, <2>11 DEF Up, InitiationSent
    <2>13. results[q].target = file[i]
      BY <2>4, <2>6
    <2> HIDE DEF verdict, up, sent
    <2>14. (CHOOSE v \in {verdict} : TRUE) = verdict
      OBVIOUS
    <2>15. /\ ValuesOf("vpnnode_up", file[i]) = IF anonymous(file[i]) THEN {} ELSE {verdict}
           /\ ValuesOf("vpnnode_initiation_sent", file[i])
                 = IF anonymous(file[i]) THEN {verdict} ELSE {}
      BY <2>10, <2>12, <2>13, <2>14
    <2> QED
      BY <2>15 DEF verdict
  <1> QED
    BY <1>1, Invariance, PTL
=============================================================================
