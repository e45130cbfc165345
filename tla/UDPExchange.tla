---------------------------- MODULE UDPExchange ----------------------------
(***************************************************************************)
(* udpExchange.run of src/cmd/nodecheck/prober_udp.go, with the three ways *)
(* it is used: proto "udp" (any datagram is an answer), proto "wireguard"  *)
(* with a registered peer ("wg") and with allow_anonymous ("anon").  The   *)
(* wireguard modes send the initiation of WGHandshake and a WireGuard node *)
(* answers what it can decrypt.                                            *)
(*                                                                         *)
(* Time is counted in ticks from the start of the response phase.  The     *)
(* probe's own steps take no time; a pause of the process is a tick that   *)
(* no read was waiting for.  The network and the node are external: a      *)
(* datagram may be lost or delayed, and an ICMP port-unreachable is an     *)
(* error that stays pending on the connected socket until the next read or *)
(* write.  The write deadline set for the first datagram is never renewed; *)
(* it ends in the same tick as the response phase.                         *)
(***************************************************************************)
EXTENDS WGHandshake, FiniteSets

CONSTANTS
    Cases,      \* the settings to explore, see Settings
    Attempts,   \* params.attempts, 1 .. 10
    Timeout,    \* -timeout, in ticks
    Now,        \* the time the initiation is built, <<seconds, nanoseconds>>
    RivalTimes, \* the times of other initiations under the monitoring key
    MaxDrops,   \* bound on lost datagrams
    MaxPause    \* bound on ticks the process is not scheduled

Modes == {"udp", "wg", "anon"}

\* silent: filtered or down; closed: no listener; echo: answers every
\* datagram; other: something that does not speak WireGuard.  The others are
\* WireGuard responders: wg knows the monitoring peer, loaded does but is
\* under load, stranger does not, and rekeyed has another key than the
\* public_key of the target.
Nodes == {"silent", "closed", "echo", "other", "wg", "loaded", "stranger", "rekeyed"}

\* prompt: a datagram that is not lost takes no time; env: the environment
\* has NODECHECK_WG_PRIVATE_KEY; late: an answer to an earlier probe from the
\* same local port is still under way.
Settings == [mode : Modes, node : Nodes,
             prompt : BOOLEAN, env : BOOLEAN, late : BOOLEAN]

Instants == Nat \X Nat

ASSUME ExchangeAssumption ==
    /\ Cases \subseteq Settings
    /\ Attempts \in 1 .. 10
    /\ Timeout \in Nat /\ Timeout >= Attempts
    /\ Now \in Instants /\ RivalTimes \subseteq Instants
    /\ MaxDrops \in Nat /\ MaxPause \in Nat

\* wgIdentity and loadTargets: without the key only an anonymous target is
\* ever probed.
ASSUME KeyRequired == \A c \in Cases : c.mode = "wg" => c.env

\* The 32-bit sender indexes of two probes are taken to differ.
OwnIndex == 1
OldIndex == 2

Data          == Reply("other", TRUE, 0)
Empty         == Reply("empty", TRUE, 0)
Cookie        == Reply("cookie", TRUE, 0)
ShortCookie   == Reply("cookie", FALSE, 0)
Response(i)   == Reply("response", TRUE, i)
ShortResponse == Reply("response", FALSE, OwnIndex)
Icmp          == Reply("icmp", TRUE, 0)

\* What something that is not a WireGuard responder may send.
Junk == {Data, Empty, ShortCookie, ShortResponse}

Datagrams == Junk \cup {Cookie, Response(OwnIndex), Response(OldIndex), Icmp}

VARIABLES
    setting,      \* how the probe is configured and what is out there
    payload,      \* what the probe sends
    pc,           \* where run is
    attempt,      \* the loop variable, from 0
    now,          \* ticks since the response phase began
    readBy,       \* the read deadline in force
    wire,         \* datagrams on their way to the node
    back,         \* what is on its way to the probe
    inbox,        \* datagrams queued on the socket
    pending,      \* whether an ICMP error is pending on the socket
    latest,       \* the newest timestamp the node took from the monitoring key
    accepted,     \* whether it took the probe's (history variable)
    sendOK,       \* sendPhase.OK
    respOK,       \* respPhase.OK
    definitive,   \* the local variable of that name
    heard,        \* what the probe has read or met writing (history variable)
    drops,        \* datagrams lost (history variable)
    paused,       \* ticks the process was not scheduled (history variable)
    overrun       \* those of them that fell after the phase deadline

probe == <<payload, pc, attempt, readBy, sendOK, respOK, definitive, heard>>
network == <<wire, back, inbox, pending, latest, accepted, drops>>
clock == <<now, paused, overrun>>
vars == <<setting, probe, network, clock>>

mode == setting.mode
node == setting.node
prompt == setting.prompt

\* slice := timeout / time.Duration(x.attempts)
slice == Timeout \div Attempts

deadline == Timeout

\* What heard holds for a write whose deadline had passed.
Expired == Reply("expired", TRUE, 0)

TypeOK == /\ setting \in Cases
          /\ pc \in {"build", "send", "write", "arm", "read", "finished"}
          /\ attempt \in 0 .. Attempts - 1
          /\ now \in Nat /\ readBy \in Nat
          /\ wire \in 0 .. Attempts
          /\ back \in [Datagrams -> 0 .. Attempts]
          /\ inbox \in Seq(Datagrams \ {Icmp}) /\ Len(inbox) <= Attempts + 1
          /\ pending \in BOOLEAN /\ accepted \in BOOLEAN
          /\ latest \in {NoTimestamp} \cup {wgTAI64N(t) : t \in RivalTimes \cup {Now}}
          /\ sendOK \in BOOLEAN /\ respOK \in BOOLEAN /\ definitive \in BOOLEAN
          /\ heard \subseteq Datagrams \cup {Expired}
          /\ drops \in 0 .. MaxDrops
          /\ paused \in 0 .. MaxPause /\ overrun \in 0 .. paused

NoPayload == [msg |-> [type |-> "none"]]

Init == /\ setting \in Cases
        /\ payload = NoPayload
        /\ pc = "build" /\ attempt = 0 /\ readBy = 0
        /\ wire = 0 /\ inbox = <<>>
        /\ back = [d \in Datagrams |->
                     IF setting.late /\ d = Response(OldIndex) THEN 1 ELSE 0]
        /\ pending = FALSE /\ latest = NoTimestamp /\ accepted = FALSE
        /\ sendOK = FALSE /\ respOK = FALSE /\ definitive = FALSE
        /\ heard = {} /\ drops = 0
        /\ now = 0 /\ paused = 0 /\ overrun = 0

-----------------------------------------------------------------------------
(* The probe.                                                              *)

\* x.accept: nil for "udp", validateResponse for "wg", acceptAnonymous for
\* "anon".
Accepts(d) == CASE mode = "udp"  -> TRUE
                [] mode = "wg"   -> validateResponse(OwnIndex, d)
                [] mode = "anon" -> acceptAnonymous(OwnIndex, d)

\* The initiator's private key: the monitoring key wherever it is set, else a
\* key made for this probe.
wgIdentity == IF setting.env THEN "monitor" ELSE "throwaway"

\* Probe, up to exchange.run.
Build == /\ pc = "build"
         /\ payload' = IF mode = "udp" THEN [msg |-> [type |-> "bytes"]]
                       ELSE buildWGInitiation(Pub("node"), wgIdentity, "ephemeral",
                                              OwnIndex, Now)
         /\ pc' = "send"
         /\ UNCHANGED <<setting, attempt, readBy, sendOK, respOK, definitive,
                        heard, network, clock>>

\* No randomness for a key or an index: the failure is put on the send phase.
BuildFails == /\ pc = "build" /\ mode # "udp"
              /\ pc' = "finished"
              /\ UNCHANGED <<setting, payload, attempt, readBy, sendOK, respOK,
                             definitive, heard, network, clock>>

\* Mutant: silenceOK is applied without looking at definitive.
MutFinish(ok, def) == /\ pc' = "finished"
                      /\ definitive' = def
                      /\ respOK' = (ok \/ mode = "anon")

\* The end of the loop and what follows it: silence passes an anonymous
\* exchange unless something definitive was seen.
Finish(ok, def) == /\ pc' = "finished"
                   /\ definitive' = def
                   /\ respOK' = (ok \/ (mode = "anon" /\ ~def))

\* Phase 1: dial and first write.
SendOK == /\ pc = "send"
          /\ sendOK' = TRUE
          /\ wire' = wire + 1
          /\ pc' = "arm"
          /\ UNCHANGED <<setting, payload, attempt, readBy, respOK, definitive, heard,
                         back, inbox, pending, latest, accepted, drops, clock>>

\* An unresolvable address, an unreachable network, a failed write: the
\* outcome has the send phase only.
SendFails == /\ pc = "send"
             /\ pc' = "finished"
             /\ UNCHANGED <<setting, payload, attempt, readBy, sendOK, respOK, definitive,
                            heard, network, clock>>

\* attempt > 0: the same payload once more.
Resend == /\ pc = "write"
          /\ now < deadline
          /\ ~pending
          /\ wire' = wire + 1
          /\ pc' = "arm"
          /\ UNCHANGED <<setting, payload, attempt, readBy, sendOK, respOK, definitive,
                         heard, back, inbox, pending, latest, accepted, drops, clock>>

\* The pending ICMP error surfaces on the write.
ResendFails == /\ pc = "write"
               /\ now < deadline
               /\ pending
               /\ pending' = FALSE
               /\ heard' = heard \cup {Icmp}
               /\ Finish(FALSE, TRUE)
               /\ UNCHANGED <<setting, payload, attempt, readBy, sendOK, wire, back, inbox,
                              latest, accepted, drops, clock>>

\* The process was held up between the deadline check of the last round and
\* the write, whose own deadline has passed: a failed write is definitive.
ResendExpired == /\ pc = "write"
                 /\ now >= deadline
                 /\ heard' = heard \cup {Expired}
                 /\ Finish(FALSE, TRUE)
                 /\ UNCHANGED <<setting, payload, attempt, readBy, sendOK, network, clock>>

\* Mutant: wait is not clamped to the phase deadline.
MutWaitUntil == now + slice

\* wait := now + slice, clamped to the phase deadline.
WaitUntil == IF now + slice > deadline THEN deadline ELSE now + slice

Arm == /\ pc = "arm"
       /\ readBy' = WaitUntil
       /\ pc' = "read"
       /\ UNCHANGED <<setting, payload, attempt, sendOK, respOK, definitive, heard,
                      network, clock>>

\* conn.Read returns a datagram: the answer, or proof that it is not one.
ReadDatagram == /\ pc = "read"
                /\ inbox # <<>>
                /\ inbox' = Tail(inbox)
                /\ heard' = heard \cup {Head(inbox)}
                /\ Finish(Accepts(Head(inbox)), ~Accepts(Head(inbox)))
                /\ UNCHANGED <<setting, payload, attempt, readBy, sendOK, wire, back,
                               pending, latest, accepted, drops, clock>>

\* conn.Read returns ECONNREFUSED: a definitive answer.
ReadRefused == /\ pc = "read"
               /\ pending
               /\ pending' = FALSE
               /\ heard' = heard \cup {Icmp}
               /\ Finish(FALSE, TRUE)
               /\ UNCHANGED <<setting, payload, attempt, readBy, sendOK, wire, back, inbox,
                              latest, accepted, drops, clock>>

\* Mutant: the loop condition is attempt <= attempts.
MutLastAttempt == attempt = Attempts

LastAttempt == attempt + 1 = Attempts

\* Mutant: the loop runs until the node answers, and the deadline check of
\* the phase is gone.
MutReadTimeout == /\ pc = "read"
                  /\ now >= readBy
                  /\ pc' = "arm"
                  /\ UNCHANGED <<setting, payload, attempt, readBy, sendOK, respOK,
                                 definitive, heard, network, clock>>

\* The read deadline passes.  An answer that is queued by then may still
\* lose: a read on an expired deadline fails without looking at the queue.
ReadTimeout == /\ pc = "read"
               /\ now >= readBy
               /\ IF now >= deadline \/ LastAttempt
                    THEN Finish(FALSE, FALSE) /\ UNCHANGED attempt
                    ELSE /\ attempt' = attempt + 1
                         /\ pc' = "write"
                         /\ UNCHANGED <<respOK, definitive>>
               /\ UNCHANGED <<setting, payload, readBy, sendOK, heard, network, clock>>

ProbeStep == \/ Build \/ BuildFails \/ SendOK \/ SendFails
             \/ Resend \/ ResendFails \/ ResendExpired
             \/ Arm \/ ReadDatagram \/ ReadRefused \/ ReadTimeout

-----------------------------------------------------------------------------
(* The node and the network (external).                                    *)

\* The node's own private key, and the peers it has registered.
NodeKey == IF node = "rekeyed" THEN "newkey" ELSE "node"

Peers == IF node = "stranger" THEN {} ELSE {Pub("monitor")}

\* A WireGuard responder takes an initiation it can decrypt, from a peer it
\* knows, that is newer than all it took from that peer before (replay
\* protection).
Takes == /\ node \in {"wg", "stranger", "rekeyed"}
         /\ MAC1OK(NodeKey, payload)
         /\ \E c \in consumeInitiation(NodeKey, payload) :
                c.static \in Peers /\ Newer(c.timestamp, latest)

\* What the node may send back for one datagram.
Reactions == CASE node = "silent" -> {{}}
               [] node = "echo"   -> {{Data}}
               [] node = "other"  -> {{d} : d \in Junk}
               [] node = "closed" -> {{Icmp}}
               [] node = "loaded" -> {IF MAC1OK(NodeKey, payload) THEN {Cookie} ELSE {}}
               [] OTHER           -> {IF Takes THEN {Response(payload.msg.sender)} ELSE {}}

NodeReceives == /\ wire > 0
                /\ wire' = wire - 1
                /\ \E r \in Reactions :
                      back' = [d \in Datagrams |-> back[d] + (IF d \in r THEN 1 ELSE 0)]
                /\ accepted' = (accepted \/ Takes)
                /\ latest' = IF Takes THEN wgTAI64N(Now) ELSE latest
                /\ UNCHANGED <<setting, probe, inbox, pending, drops, clock>>

\* Another nodecheck, or an earlier or later round of this one, completes a
\* handshake under the same monitoring key.
RivalTaken(t) == /\ node = "wg"
                 /\ Newer(wgTAI64N(t), latest)
                 /\ latest' = wgTAI64N(t)
                 /\ UNCHANGED <<setting, probe, wire, back, inbox, pending,
                                accepted, drops, clock>>

Arrives(d) == /\ back[d] > 0
              /\ back' = [back EXCEPT ![d] = @ - 1]
              /\ IF d = Icmp THEN pending' = TRUE /\ UNCHANGED inbox
                               ELSE inbox' = Append(inbox, d) /\ UNCHANGED pending
              /\ UNCHANGED <<setting, probe, wire, latest, accepted, drops, clock>>

DropRequest == /\ wire > 0 /\ drops < MaxDrops
               /\ wire' = wire - 1
               /\ drops' = drops + 1
               /\ UNCHANGED <<setting, probe, back, inbox, pending, latest,
                              accepted, clock>>

DropReply(d) == /\ back[d] > 0 /\ drops < MaxDrops
                /\ back' = [back EXCEPT ![d] = @ - 1]
                /\ drops' = drops + 1
                /\ UNCHANGED <<setting, probe, wire, inbox, pending, latest,
                               accepted, clock>>

InFlight == wire > 0 \/ \E d \in Datagrams : back[d] > 0

\* A tick the probe spends waiting in conn.Read with nothing to read.
Tick == /\ pc = "read"
        /\ now < readBy
        /\ inbox = <<>> /\ ~pending
        /\ prompt => ~InFlight
        /\ now' = now + 1
        /\ UNCHANGED <<setting, probe, network, paused, overrun>>

\* A tick the process is not scheduled.
Pause == /\ pc \in {"write", "arm", "read"}
         /\ paused < MaxPause
         /\ now' = now + 1
         /\ paused' = paused + 1
         /\ overrun' = IF now >= deadline THEN overrun + 1 ELSE overrun
         /\ UNCHANGED <<setting, probe, network>>

NetworkStep == NodeReceives \/ \E d \in Datagrams : Arrives(d)

Next == \/ ProbeStep \/ NetworkStep \/ DropRequest \/ Tick \/ Pause
        \/ \E d \in Datagrams : DropReply(d)
        \/ \E t \in RivalTimes : RivalTaken(t)

SafeSpec == Init /\ [][Next]_vars

\* The process is scheduled and time passes.  The network owes nothing,
\* except that where datagrams take no time their steps come before a tick.
Spec == /\ SafeSpec
        /\ WF_vars(ProbeStep) /\ WF_vars(Tick)
        /\ WF_vars(prompt /\ NetworkStep)

-----------------------------------------------------------------------------
(* Properties.                                                             *)

finished == pc = "finished"

\* The verdict follows from what was read: an accepted datagram passes,
\* anything else that was read fails, and silence passes only the anonymous
\* exchange.
VerdictJustified ==
    finished => (respOK <=> \/ sendOK /\ \E d \in heard \ {Icmp, Expired} : Accepts(d)
                            \/ sendOK /\ heard = {} /\ mode = "anon")

\* "the retries fit inside the budget the operator set" (prober_udp.go:220):
\* however the process is delayed between attempts, it never waits past the
\* phase deadline.
PhaseBudget == now <= deadline + overrun

\* "a single dropped packet must not be reported as an outage"
\* (prober_udp.go:45-47).  A failed second phase has a cause outside the
\* probe.  For proto udp, as many datagrams lost as there are attempts.  For a
\* registered peer also a node that does not accept it, an answer to an
\* earlier session, a clock that does not run ahead of another prober's, or
\* any loss at all once the node has taken the initiation.  An anonymous probe
\* fails on none of these: silence and a cookie reply pass, and only a refusal,
\* a foreign answer or its own expired write fails it.
FailureExplained ==
    finished /\ sendOK /\ ~respOK =>
      CASE mode = "udp"  -> ~prompt \/ paused > 0 \/ node # "echo" \/ drops >= Attempts
        [] mode = "wg"   -> \/ ~prompt \/ paused > 0 \/ node # "wg" \/ drops >= Attempts
                            \/ Response(OldIndex) \in heard
                            \/ accepted /\ drops > 0
                            \/ \E t \in RivalTimes :
                                  ~accepted /\ latest = wgTAI64N(t)
                                  /\ (t[1] > Now[1] \/ (t[1] = Now[1] /\ t[2] >= Now[2]))
        [] mode = "anon" -> \/ node \in {"closed", "echo", "other"}
                            \/ Response(OldIndex) \in heard
                            \/ paused > 0 /\ now >= deadline

\* "handshake passing means a WireGuard responder answered our exact session,
\* so the port is a live WireGuard endpoint that accepted us"
\* (prober_wireguard.go:32-33), also where an answer to an earlier session is
\* still under way from a node that has since dropped the peer.
HandshakeMeansAccepted ==
    finished /\ mode = "wg" /\ respOK => node = "wg" /\ accepted

\* "a refused port or a non-WireGuard answer still fails, and those are the
\* two things this mode can actually detect" (prober_wireguard.go:244-246): in
\* every mode, and as long as one of the attempts gets through.
RefusalDetected ==
    finished /\ sendOK /\ prompt /\ paused = 0 /\ drops < Attempts
      /\ (node = "closed" \/ (node \in {"echo", "other"} /\ mode # "udp"))
    => ~respOK

\* The exchange ends.
Termination == <>finished

\* "a single dropped packet must not be reported as an outage"
\* (prober_udp.go:45-47), for the handshake of a registered peer, where no
\* other prober and no earlier session interferes.
HandshakeLossTolerated ==
    finished /\ sendOK /\ prompt /\ paused = 0 /\ node = "wg" /\ mode = "wg"
      /\ drops <= 1 /\ Attempts > 1 /\ ~setting.late /\ RivalTimes = {}
    => respOK
=============================================================================
