----------------------------- MODULE NodeCheck -----------------------------
(***************************************************************************)
(* nodecheck as a program: main of src/cmd/nodecheck/main.go with          *)
(* loadTargets, the projection toResult of prober.go, writeProm, and       *)
(* buildPayload of push.go, run once per round by the cron entry of        *)
(* src/README.md ("Collecting").                                           *)
(*                                                                         *)
(* What a prober finds is any outcome its protocol can end in; how runAll  *)
(* schedules the probes and how a push is retried are the business of      *)
(* RunAll and PushSystem, and appear here by their contracts: every target *)
(* once in any order, and accepted or not.                                 *)
(*                                                                         *)
(* A pointer field is a set of at most one value, {} being nil.  A         *)
(* duration is 0 or, when it was measured, 1.                              *)
(***************************************************************************)
EXTENDS Integers, Sequences, FiniteSets

CONSTANTS
    Files,        \* the targets files to explore, each a sequence of targets
    Commands,     \* the command lines and environments to explore
    MaxRounds,    \* bound on the rounds of cron
    MaxCuts       \* bound on the outputs that hit a full disk

\* The fields of udpParams and wgParams together; known: no field has a name
\* the decoder of the prober rejects; a hex string or a key is absent ("none"),
\* or decodes ("good") or not ("bad").
Params == [known : BOOLEAN, payload : BOOLEAN,
           payload_hex : {"none", "good", "bad"},
           public_key : {"none", "good", "bad"},
           attempts : Int, allow_anonymous : BOOLEAN]

\* ported: the address has a port.
Target == [name : Nat, addr : STRING, sni : STRING, proto : STRING,
           ported : BOOLEAN, params : Params]

\* key: NODECHECK_WG_PRIVATE_KEY in the environment.
Command == [format : {"json", "prom", "xml"}, push : BOOLEAN,
            key : {"unset", "good", "bad"}]

ASSUME NodeCheckAssumption == /\ Files \subseteq Seq(Target)
                              /\ Commands \subseteq Command
                              /\ MaxRounds \in Nat \ {0} /\ MaxCuts \in Nat

VARIABLES
    file, cmd,   \* what cron runs, and on which targets file
    pc,          \* where main is; "exited" and then "idle" after its end
    truth,       \* what each target's prober found (history variable)
    results,     \* the sorted results
    stdout,      \* the samples written to the temporary file
    printed,     \* "no", "all", or "cut" short by a full disk
    payload,     \* the batch handed to pushResults
    acked,       \* whether pushResults returned nil
    exit,        \* the exit status
    published,   \* the samples in the collector's directory
    reported,    \* the keys each target was stored under (history variable)
    round, cuts  \* what MaxRounds and MaxCuts bound

vars == <<file, cmd, pc, truth, results, stdout, printed, payload, acked,
          exit, published, reported, round, cuts>>

-----------------------------------------------------------------------------
(* The registry and the probers.                                           *)

Kinds == {"tls", "udp", "wireguard"}

\* proberFor: an empty proto means "tls".
Kind(t) == IF t.proto = "" THEN "tls" ELSE t.proto

\* attempts, 0 standing for the default, and at most maxUDPAttempts.
AttemptsOK(p) == p.attempts \in 0 .. 10

\* parseUDPParams: an unknown field, both payloads, bad hex and an attempt
\* count out of range are errors.
parseUDPParams(t) == /\ t.params.known
                     /\ ~(t.params.payload /\ t.params.payload_hex # "none")
                     /\ t.params.payload_hex # "bad"
                     /\ AttemptsOK(t.params)

\* parseWGParams: the responder's public key is required.
parseWGParams(t) == /\ t.params.known
                    /\ t.params.public_key = "good"
                    /\ AttemptsOK(t.params)

anonymous(t) == Kind(t) = "wireguard" /\ t.params.allow_anonymous

\* wgIdentity: a key that is set has to parse in either mode; without one
\* only an anonymous target has an identity, made up for the probe.
wgIdentity(t) == cmd.key = "good" \/ (cmd.key = "unset" /\ anonymous(t))

\* Validate of the three probers.  An address without a port is left to the
\* probe, and tls looks at no params.
Validate(t) == /\ Kind(t) \in Kinds
               /\ t.addr # ""
               /\ Kind(t) = "udp" => parseUDPParams(t)
               /\ Kind(t) = "wireguard" => parseWGParams(t) /\ wgIdentity(t)

Phase(name, ok) == [name |-> name, ok |-> ok]

\* Probing stops at the first failing phase; a target that cannot be probed
\* fails the first.
PhaseLists(probable, first, second) ==
    {<<Phase(first, FALSE)>>} \cup
    (IF probable THEN {<<Phase(first, TRUE), Phase(second, ok)>> : ok \in BOOLEAN}
                 ELSE {})

\* Mutant: the SNI is derived between the phases.
MutServerName(t, phases) ==
    IF t.sni = "" /\ t.ported /\ phases[1].ok THEN t.addr ELSE t.sni

\* The SNI in effect: the configured one or the host of the address, found
\* before the first phase (prober_tls.go:36-46).
ServerName(t, phases) == IF t.sni = "" /\ t.ported THEN t.addr ELSE t.sni

Passed(phases) == \A i \in DOMAIN phases : phases[i].ok

\* tlsProber.Probe.  The chain is verified against the SNI, so a handshake
\* that succeeds has a matching certificate.
ProbeTLS(t) ==
    {[Phases |-> ps, NoLivenessClaim |-> FALSE,
      TLS |-> {[ServerName |-> ServerName(t, ps), CertMatch |-> Passed(ps)]}] :
        ps \in PhaseLists(t.ported, "tcp", "tls")}

ProbeUDP(t) == {[Phases |-> ps, NoLivenessClaim |-> FALSE, TLS |-> {}] :
                   ps \in PhaseLists(t.ported /\ parseUDPParams(t), "udp", "response")}

\* Mutant: NoLivenessClaim is set with the rest of the anonymous settings,
\* after the exchange has got through its first phase.
MutProbeWG(t) ==
    {[Phases |-> ps, NoLivenessClaim |-> anonymous(t) /\ ps[1].ok, TLS |-> {}] :
        ps \in PhaseLists(t.ported /\ parseWGParams(t) /\ wgIdentity(t), "udp",
                          IF anonymous(t) THEN "initiation-sent" ELSE "handshake")}

\* wgProber.Probe: the liveness claim is settled before anything can fail.
ProbeWG(t) ==
    {[Phases |-> ps, NoLivenessClaim |-> anonymous(t), TLS |-> {}] :
        ps \in PhaseLists(t.ported /\ parseWGParams(t) /\ wgIdentity(t), "udp",
                          IF anonymous(t) THEN "initiation-sent" ELSE "handshake")}

\* probe: a proto nobody registered gives a failed result without a phase.
Outcomes(t) == CASE Kind(t) = "tls"       -> ProbeTLS(t)
                 [] Kind(t) = "udp"       -> ProbeUDP(t)
                 [] Kind(t) = "wireguard" -> ProbeWG(t)
                 [] OTHER -> {[Phases |-> <<>>, NoLivenessClaim |-> FALSE, TLS |-> {}]}

-----------------------------------------------------------------------------
(* From an Outcome to a Result.                                            *)

\* Outcome.failed: the first failing phase, as a set of at most one name.
Failed(o) == {o.Phases[i].name : i \in {j \in DOMAIN o.Phases :
                /\ ~o.Phases[j].ok
                /\ \A k \in 1 .. j - 1 : o.Phases[k].ok}}

Ran(o, name) == \E i \in DOMAIN o.Phases : o.Phases[i].name = name

RanOK(o, name) == \E i \in DOMAIN o.Phases : o.Phases[i] = Phase(name, TRUE)

usesLegacyPhases(o) == Ran(o, "tcp") \/ Ran(o, "tls")

\* A legacy field is a pointer to v, or nil outside the tcp+tls family.
Legacy(o, v) == IF usesLegacyPhases(o) THEN {v} ELSE {}

Measured(o, name) == IF Ran(o, name) THEN 1 ELSE 0

\* A phase that was not reached leaves the zero its field was made with.
toResult(t, o) ==
    [target |-> t,
     SNI    |-> IF \E i \in o.TLS : i.ServerName # ""
                  THEN (CHOOSE i \in o.TLS : TRUE).ServerName ELSE t.sni,
     OK     |-> Failed(o) = {} /\ o.Phases # <<>>,
     Error  |-> Failed(o),
     TCPOK  |-> Legacy(o, RanOK(o, "tcp")),
     TLSOK  |-> Legacy(o, RanOK(o, "tls")),
     TCPTime   |-> Legacy(o, Measured(o, "tcp")),
     TLSTime   |-> Legacy(o, Measured(o, "tls")),
     CertMatch |-> Legacy(o, \E i \in o.TLS : i.CertMatch),
     Phases    |-> IF usesLegacyPhases(o) THEN <<>> ELSE o.Phases,
     noLivenessClaim |-> o.NoLivenessClaim]

-----------------------------------------------------------------------------
(* Prometheus text.                                                        *)

boolToInt(b) == IF b THEN 1 ELSE 0

\* The entries of s at the positions in kept, in their order: a loop that
\* skips the others.
Kept(s, kept) ==
    LET rank(i) == Cardinality({j \in kept : j <= i})
    IN  [k \in 1 .. Cardinality(kept) |-> s[CHOOSE i \in kept : rank(i) = k]]

\* One loop of writeProm: a sample for every result that has a value.
Samples(family, rs, values) ==
    Kept([i \in DOMAIN rs |-> [family |-> family, target |-> rs[i].target,
                               value |-> CHOOSE v \in values[i] : TRUE]],
         {i \in DOMAIN rs : values[i] # {}})

Up(r) == IF r.noLivenessClaim THEN {} ELSE {boolToInt(r.OK)}

InitiationSent(r) == IF r.noLivenessClaim THEN {boolToInt(r.OK)} ELSE {}

CertMatch(r) == {boolToInt(b) : b \in r.CertMatch}

writeProm(rs) ==
    Samples("vpnnode_up", rs, [i \in DOMAIN rs |-> Up(rs[i])])
    \o Samples("vpnnode_tcp_connect_seconds", rs, [i \in DOMAIN rs |-> rs[i].TCPTime])
    \o Samples("vpnnode_tls_handshake_seconds", rs, [i \in DOMAIN rs |-> rs[i].TLSTime])
    \o Samples("vpnnode_cert_match", rs, [i \in DOMAIN rs |-> CertMatch(rs[i])])
    \o Samples("vpnnode_initiation_sent", rs, [i \in DOMAIN rs |-> InitiationSent(rs[i])])

-----------------------------------------------------------------------------
(* The push payload.                                                       *)

\* Mutant: a nil pointer is read as false, and every result fits.
Mutpushable(r) == TRUE

pushable(r) == r.TCPOK # {} /\ r.TLSOK # {}

\* Mutant: the second phase has the name it has for a WireGuard node, which
\* the FailedPhase literal of probestore does not know.
MutfailedPhase(r) == IF TRUE \notin r.TCPOK THEN {"tcp"}
                     ELSE IF TRUE \notin r.TLSOK THEN {"handshake"} ELSE {}

failedPhase(r) == IF TRUE \notin r.TCPOK THEN {"tcp"}
                  ELSE IF TRUE \notin r.TLSOK THEN {"tls"} ELSE {}

Entry(r) == [target |-> r.target,
             key    |-> <<r.target.addr, r.SNI>>,
             tcp_ok |-> TRUE \in r.TCPOK,
             tls_ok |-> TRUE \in r.TLSOK,
             latency_ms   |-> IF TRUE \in r.TLSOK THEN r.TLSTime ELSE {},
             failed_phase |-> failedPhase(r)]

buildPayload(rs) == Kept([i \in DOMAIN rs |-> Entry(rs[i])],
                         {i \in DOMAIN rs : pushable(rs[i])})

-----------------------------------------------------------------------------
(* main, one invocation per round.                                         *)

Codes == 0 .. 3

Running == 4  \* no exit status yet

NoTruth == <<>>

Init == /\ file \in Files /\ cmd \in Commands
        /\ pc = "load" /\ truth = NoTruth /\ results = <<>> /\ stdout = <<>>
        /\ printed = "no" /\ payload = <<>> /\ acked = FALSE /\ exit = Running
        /\ published = <<>> /\ reported = {} /\ round = 1 /\ cuts = 0

Exit(code) == pc' = "exited" /\ exit' = code

\* Mutant: loadTargets resolves the probers and leaves params to the probe.
MutLoadTargets ==
    /\ pc = "load"
    /\ IF file # <<>> /\ \A i \in DOMAIN file : Kind(file[i]) \in Kinds
         THEN pc' = "probe" /\ UNCHANGED exit
         ELSE Exit(1)
    /\ UNCHANGED <<file, cmd, truth, results, stdout, printed, payload, acked,
                   published, reported, round, cuts>>

\* An unreadable or empty list and a target no prober takes end the run; the
\* empty sequence stands for both of the former.
LoadTargets ==
    /\ pc = "load"
    /\ IF file # <<>> /\ \A i \in DOMAIN file : Validate(file[i])
         THEN pc' = "probe" /\ UNCHANGED exit
         ELSE Exit(1)
    /\ UNCHANGED <<file, cmd, truth, results, stdout, printed, payload, acked,
                   published, reported, round, cuts>>

Orders(n) == {p \in [1 .. n -> 1 .. n] : \A i, j \in 1 .. n : p[i] = p[j] => i = j}

\* runAll, with the results in whatever order the probes finished, and
\* sort.Slice by name, which may leave equal names in either order.
RunAllAndSort ==
    /\ pc = "probe"
    /\ \E o \in [DOMAIN file -> UNION {Outcomes(file[i]) : i \in DOMAIN file}],
          p \in Orders(Len(file)) :
          /\ \A i \in DOMAIN file : o[i] \in Outcomes(file[i])
          /\ \A i \in 1 .. Len(file) - 1 : file[p[i]].name <= file[p[i + 1]].name
          /\ truth' = o
          /\ results' = [i \in DOMAIN file |-> toResult(file[p[i]], o[p[i]])]
    /\ pc' = "print"
    /\ UNCHANGED <<file, cmd, stdout, printed, payload, acked, exit,
                   published, reported, round, cuts>>

AfterPrint == IF cmd.push THEN "push" ELSE "status"

\* enc.Encode succeeds.
PrintJSON == /\ pc = "print" /\ cmd.format = "json"
             /\ printed' = "all"
             /\ pc' = AfterPrint
             /\ UNCHANGED <<file, cmd, truth, results, stdout, payload, acked,
                            exit, published, reported, round, cuts>>

\* enc.Encode returns an error: exit 1.
PrintJSONFails == /\ pc = "print" /\ cmd.format = "json" /\ cuts < MaxCuts
                  /\ cuts' = cuts + 1
                  /\ printed' = "cut"
                  /\ Exit(1)
                  /\ UNCHANGED <<file, cmd, truth, results, stdout, payload,
                                 acked, published, reported, round>>

PrintProm == /\ pc = "print" /\ cmd.format = "prom"
             /\ stdout' = writeProm(results)
             /\ printed' = "all"
             /\ pc' = AfterPrint
             /\ UNCHANGED <<file, cmd, truth, results, payload, acked, exit,
                            published, reported, round, cuts>>

\* writeProm looks at none of the errors Fprintf returns: main goes on.
PrintPromCut == /\ pc = "print" /\ cmd.format = "prom" /\ cuts < MaxCuts
                /\ \E n \in 0 .. Len(writeProm(results)) - 1 :
                      stdout' = SubSeq(writeProm(results), 1, n)
                /\ cuts' = cuts + 1
                /\ printed' = "cut"
                /\ pc' = AfterPrint
                /\ UNCHANGED <<file, cmd, truth, results, payload, acked, exit,
                               published, reported, round>>

\* An unknown -format is met after the probes have run.
UnknownFormat == /\ pc = "print" /\ cmd.format \notin {"json", "prom"}
                 /\ Exit(2)
                 /\ UNCHANGED <<file, cmd, truth, results, stdout, printed,
                                payload, acked, published, reported, round, cuts>>

\* pushResults returns nil; probestore takes no empty batch.
PushAccepted == /\ pc = "push"
                /\ payload' = buildPayload(results)
                /\ payload' # <<>>
                /\ acked' = TRUE
                /\ reported' = reported \cup
                      {<<payload'[i].target, payload'[i].key>> : i \in DOMAIN payload'}
                /\ pc' = "status"
                /\ UNCHANGED <<file, cmd, truth, results, stdout, printed, exit,
                               published, round, cuts>>

\* newUUIDv4 returns an error: there is no batch to push.
NoRunID == /\ pc = "push"
           /\ Exit(3)
           /\ UNCHANGED <<file, cmd, truth, results, stdout, printed, payload, acked,
                          published, reported, round, cuts>>

\* pushResults returns an error.
PushFails == /\ pc = "push"
             /\ payload' = buildPayload(results)
             /\ Exit(3)
             /\ UNCHANGED <<file, cmd, truth, results, stdout, printed, acked,
                            published, reported, round, cuts>>

\* Mutant: the loop looks at the last result only.
MutStatus == /\ pc = "status"
             /\ Exit(IF results[Len(results)].OK THEN 0 ELSE 1)
             /\ UNCHANGED <<file, cmd, truth, results, stdout, printed, payload,
                            acked, published, reported, round, cuts>>

\* Exit 1 if any node is down.
Status == /\ pc = "status"
          /\ Exit(IF \E i \in DOMAIN results : ~results[i].OK THEN 1 ELSE 0)
          /\ UNCHANGED <<file, cmd, truth, results, stdout, printed, payload,
                         acked, published, reported, round, cuts>>

\* The cron entry of README.md:488-491: nodecheck -format prom > tmp && mv.
Recipe == cmd.format = "prom" /\ ~cmd.push

CronEntry == /\ pc = "exited"
             /\ published' = IF Recipe /\ exit = 0 THEN stdout ELSE published
             /\ pc' = "idle"
             /\ UNCHANGED <<file, cmd, truth, results, stdout, printed, payload,
                            acked, exit, reported, round, cuts>>

NextRound == /\ pc = "idle" /\ round < MaxRounds
             /\ round' = round + 1
             /\ pc' = "load" /\ truth' = NoTruth /\ results' = <<>> /\ stdout' = <<>>
             /\ printed' = "no" /\ payload' = <<>> /\ acked' = FALSE /\ exit' = Running
             /\ UNCHANGED <<file, cmd, published, reported, cuts>>

Next == \/ LoadTargets \/ RunAllAndSort
        \/ PrintJSON \/ PrintJSONFails \/ PrintProm \/ PrintPromCut \/ UnknownFormat
        \/ PushAccepted \/ NoRunID \/ PushFails \/ Status \/ CronEntry \/ NextRound

Spec == Init /\ [][Next]_vars

-----------------------------------------------------------------------------
(* Properties.                                                             *)

TypeOK == /\ file \in Files /\ cmd \in Commands
          /\ pc \in {"load", "probe", "print", "push", "status", "exited", "idle"}
          /\ truth = NoTruth \/ DOMAIN truth = DOMAIN file
          /\ results = <<>> \/ Len(results) = Len(file)
          /\ printed \in {"no", "all", "cut"}
          /\ \A i \in DOMAIN payload :
                /\ payload[i].tcp_ok \in BOOLEAN /\ payload[i].tls_ok \in BOOLEAN
                /\ payload[i].failed_phase \subseteq {"tcp", "tls"}
          /\ acked \in BOOLEAN
          /\ exit \in Codes \cup {Running}
          /\ round \in 1 .. MaxRounds /\ cuts \in 0 .. MaxCuts

BadFile == file = <<>> \/ \E i \in DOMAIN file : ~Validate(file[i])

Over == pc \in {"exited", "idle"}

AllPassed == \A i \in DOMAIN file : Passed(truth[i].Phases)

\* "Exit codes: 0 all nodes healthy, 1 at least one node down (or a bad
\* targets file), 2 invalid arguments, 3 the push failed" (README.md:103-106):
\* in terms of what the probers found, whatever is sorted, projected, cut or
\* refused on the way, and with a failed push hiding a node that is down.
ExitTruthful ==
    Over => CASE BadFile -> exit = 1
              [] ~BadFile /\ cmd.format = "xml" -> exit = 2
              [] ~BadFile /\ cmd.format = "json" /\ printed = "cut" -> exit = 1
              [] OTHER -> /\ exit = 3 <=> cmd.push /\ ~acked
                          /\ exit = 0 <=> AllPassed /\ (cmd.push => acked)

\* A broken targets file is never reported as an outage: nothing is probed,
\* printed or pushed (main.go:191-195).
ConfigIsNotOutage ==
    BadFile => /\ truth = NoTruth /\ stdout = <<>> /\ printed = "no"
               /\ payload = <<>> /\ reported = {}

\* The batch is the truth about the tls targets and nothing else: one entry
\* for each, its flags those of the phases that ran, a latency exactly when
\* the handshake succeeded, the failed phase the one that broke.
PushHonest ==
    payload # <<>> =>
      \A i \in DOMAIN file :
        LET mine == {j \in DOMAIN payload : payload[j].target = file[i]}
        IN  IF Kind(file[i]) # "tls" THEN mine = {}
            ELSE /\ Cardinality(mine) = 1
                 /\ \A j \in mine :
                      /\ payload[j].tcp_ok = RanOK(truth[i], "tcp")
                      /\ payload[j].tls_ok = RanOK(truth[i], "tls")
                      /\ payload[j].latency_ms
                            = IF Passed(truth[i].Phases) THEN {1} ELSE {}
                      /\ payload[j].failed_phase = Failed(truth[i])

\* The values a family has for a target in a complete output.
ValuesOf(family, t) == {stdout[j].value : j \in {k \in DOMAIN stdout :
                          stdout[k].family = family /\ stdout[k].target = t}}

\* vpnnode_up makes a statement about every node whose probe can make one,
\* and it is the true one; an anonymous WireGuard target is never in it but
\* always in vpnnode_initiation_sent, however far its probe got.
LivenessHonest ==
    cmd.format = "prom" /\ printed = "all" =>
      \A i \in DOMAIN file :
        LET verdict == {boolToInt(Passed(truth[i].Phases))}
        IN  /\ ValuesOf("vpnnode_up", file[i])
                  = IF anonymous(file[i]) THEN {} ELSE verdict
            /\ ValuesOf("vpnnode_initiation_sent", file[i])
                  = IF anonymous(file[i]) THEN verdict ELSE {}

\* A node is stored under one (addr, sni) whichever phase broke: probestore
\* never sees the same target as two nodes (prober_tls.go:37-40).
IdentityStable == \A a, b \in reported : a[1] = b[1] => a[2] = b[2]

\* The cron entry publishes what a round found: "vpnnode_up{node,region}
\* 1 / 0 ... Alert on `vpnnode_up`" (README.md:448, 470), so a node that was
\* found down in a round that printed everything is 0 in the collector's file.
DownIsPublished ==
    pc = "idle" /\ Recipe /\ ~BadFile /\ printed = "all" =>
      \A j \in DOMAIN stdout :
        stdout[j].family = "vpnnode_up" /\ stdout[j].value = 0 =>
          \E k \in DOMAIN published : published[k] = stdout[j]

\* "mv within a filesystem is atomic, so the collector never reads a
\* half-written file" (README.md:494-495): what a round moves into place is
\* all that writeProm had to say about its results.
PublishedComplete ==
    pc = "idle" /\ Recipe /\ exit = 0 => published = writeProm(results)

\* "The phase metrics are emitted only for the results that actually ran that
\* phase" (main.go:222).
PhaseSampleMeasured ==
    \A j \in DOMAIN stdout : \A i \in DOMAIN file :
        stdout[j].target = file[i] =>
            /\ stdout[j].family = "vpnnode_tcp_connect_seconds" => Ran(truth[i], "tcp")
            /\ stdout[j].family = "vpnnode_tls_handshake_seconds" => Ran(truth[i], "tls")
=============================================================================
