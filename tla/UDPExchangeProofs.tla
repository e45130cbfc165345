------------------------- MODULE UDPExchangeProofs -------------------------
(***************************************************************************)
(* Proofs about the UDP exchange, for every set of settings, every number  *)
(* of attempts, timeout, loss, delay and pause.                            *)
(***************************************************************************)
EXTENDS UDPExchange, TLAPS

-----------------------------------------------------------------------------
(* The handshake.                                                          *)

\* Diffie-Hellman commutes.
LEMMA ECDHCommutes ==
    ASSUME NEW a, NEW b
    PROVE  ECDH(a, Pub(b)) = ECDH(b, Pub(a))
  <1>1. {a, b} = {b, a}
    OBVIOUS
  <1> QED
    BY <1>1 DEF ECDH, Pub

\* The responder that holds the private key of peer reads from an initiation
\* exactly who built it and when, whatever the keys are: the two halves of the
\* handshake derive the same chaining keys and the same running hash.
THEOREM InitiationDecrypts ==
    ASSUME NEW responder, NEW static, NEW eph, NEW senderIndex, NEW t
    PROVE  LET packet == buildWGInitiation(Pub(responder), static, eph, senderIndex, t)
           IN  /\ consumeInitiation(responder, packet)
                     = {[static |-> Pub(static), timestamp |-> wgTAI64N(t)]}
               /\ MAC1OK(responder, packet)
  <1> DEFINE packet == buildWGInitiation(Pub(responder), static, eph, senderIndex, t)
  <1> DEFINE ck0 == wgHash(<<"construction">>)
  <1> DEFINE h0 == wgHash(<<wgHash(<<ck0, "identifier">>), Pub(responder)>>)
  <1> DEFINE h1 == wgHash(<<h0, Pub(eph)>>)
  <1> DEFINE k1 == wgKDF2(wgKDF1(ck0, Pub(eph)), ECDH(eph, Pub(responder)))
  <1> DEFINE k2 == wgKDF2(k1[1], ECDH(static, Pub(responder)))
  <1> DEFINE sealed == wgSeal(k1[2], Pub(static), h1)
  <1> DEFINE stamped == wgSeal(k2[2], wgTAI64N(t), wgHash(<<h1, sealed>>))
  <1>1. /\ packet.msg.ephemeral = Pub(eph)
        /\ packet.msg.encrypted_static = sealed
        /\ packet.msg.encrypted_timestamp = stamped
        /\ packet.msg.type = "initiation"
        /\ packet.mac1 = wgHMAC(wgHash(<<"mac1----", Pub(responder)>>), packet.msg)
    BY DEF buildWGInitiation
  <1>2. \A ck, input : KDF(ck, input) = wgKDF2(ck, input)
    BY DEF KDF, wgKDF2
  <1>3. \A ck, input : KDF(ck, input)[1] = wgKDF1(ck, input)
    BY DEF KDF, wgKDF1
  <1> DEFINE k1r == KDF(KDF(ck0, Pub(eph))[1], ECDH(responder, Pub(eph)))
  <1>4. k1r = k1
    BY <1>2, <1>3, ECDHCommutes
  <1> DEFINE k2r == KDF(k1r[1], ECDH(responder, Pub(static)))
  <1>5. k2r = k2
    BY <1>2, <1>4, ECDHCommutes
  <1> HIDE DEF packet, ck0, h0, k1, k2
  <1>6. Opened(k1r[2], sealed, h1) = {Pub(static)}
    BY <1>4 DEF Opened, wgSeal
  <1>7. Opened(k2r[2], stamped, wgHash(<<h1, sealed>>)) = {wgTAI64N(t)}
    BY <1>5 DEF Opened, wgSeal
  <1> DEFINE Times(s) == Opened(KDF(k1r[1], ECDH(responder, s))[2], stamped,
                                wgHash(<<h1, sealed>>))
  <1>8. consumeInitiation(responder, packet)
          = UNION {{[static |-> s, timestamp |-> u] : u \in Times(s)} :
                     s \in Opened(k1r[2], sealed, h1)}
    BY <1>1 DEF consumeInitiation, ck0, h0
  <1>9. Times(Pub(static)) = {wgTAI64N(t)}
    BY <1>7
  <1> HIDE DEF Times, k1r, sealed, h1
  <1>10. consumeInitiation(responder, packet)
          = {[static |-> Pub(static), timestamp |-> u] : u \in Times(Pub(static))}
    BY <1>6, <1>8
  <1>11. consumeInitiation(responder, packet)
          = {[static |-> Pub(static), timestamp |-> wgTAI64N(t)]}
    BY <1>9, <1>10
  <1>12. MAC1OK(responder, packet)
    BY <1>1 DEF MAC1OK
  <1> QED
    BY <1>11, <1>12 DEF packet

-----------------------------------------------------------------------------
(* Datagrams and timestamps.                                               *)

Own == Response(OwnIndex)
Old == Response(OldIndex)

\* The eight things that may come back are different from one another.
LEMMA DatagramsDistinct ==
    /\ Data # Empty /\ Data # ShortCookie /\ Data # ShortResponse /\ Data # Cookie
    /\ Data # Own /\ Data # Old /\ Data # Icmp
    /\ Empty # ShortCookie /\ Empty # ShortResponse /\ Empty # Cookie
    /\ Empty # Own /\ Empty # Old /\ Empty # Icmp
    /\ ShortCookie # ShortResponse /\ ShortCookie # Cookie
    /\ ShortCookie # Own /\ ShortCookie # Old /\ ShortCookie # Icmp
    /\ ShortResponse # Cookie /\ ShortResponse # Own /\ ShortResponse # Old
    /\ ShortResponse # Icmp
    /\ Cookie # Own /\ Cookie # Old /\ Cookie # Icmp
    /\ Own # Old /\ Own # Icmp /\ Old # Icmp
    /\ Expired \notin Datagrams
    /\ Datagrams = {Data, Empty, ShortCookie, ShortResponse, Cookie, Own, Old, Icmp}
  BY DEF Data, Empty, Cookie, ShortCookie, Response, ShortResponse, Icmp, Own, Old,
     Expired, OwnIndex, OldIndex, Reply, Datagrams, Junk

\* What each mode accepts of them.
LEMMA WhatIsAccepted ==
    ASSUME setting \in Settings
    PROVE  /\ mode \in Modes /\ node \in Nodes
           /\ mode = "udp" => \A d : Accepts(d)
           /\ mode = "wg" => \A d \in Datagrams : Accepts(d) <=> d = Own
           /\ mode = "anon" => \A d \in Datagrams : Accepts(d) <=> d \in {Own, Cookie}
  <1>1. mode \in Modes /\ node \in Nodes
    BY DEF Settings, mode, node
  <1>2. \A d \in Datagrams : validateResponse(OwnIndex, d) <=> d = Own
    BY DEF Datagrams, Junk, Data, Empty, Cookie, ShortCookie, Response, ShortResponse,
       Icmp, Own, OwnIndex, OldIndex, Reply, validateResponse
  <1>3. \A d \in Datagrams : acceptAnonymous(OwnIndex, d) <=> d \in {Own, Cookie}
    <2>1. \A d \in Datagrams : d.type = "cookie" /\ d.whole <=> d = Cookie
      BY DEF Datagrams, Junk, Data, Empty, Cookie, ShortCookie, Response,
         ShortResponse, Icmp, OwnIndex, OldIndex, Reply
    <2> QED
      BY <1>2, <2>1 DEF acceptAnonymous
  <1>4. mode = "udp" => \A d : Accepts(d)
    BY DEF Accepts
  <1>5. mode = "wg" => \A d : Accepts(d) <=> validateResponse(OwnIndex, d)
    BY DEF Accepts
  <1>6. mode = "anon" => \A d : Accepts(d) <=> acceptAnonymous(OwnIndex, d)
    BY DEF Accepts
  <1> QED
    BY <1>1, <1>2, <1>3, <1>4, <1>5, <1>6

\* Instant a is at or after instant b.
NotBefore(a, b) == a[1] > b[1] \/ (a[1] = b[1] /\ a[2] >= b[2])

\* Comparing two encoded timestamps compares the instants they encode.
LEMMA TimestampOrder ==
    ASSUME NEW a \in Instants, NEW b \in Instants
    PROVE  /\ Newer(wgTAI64N(a), wgTAI64N(b)) <=> ~NotBefore(b, a)
           /\ Newer(wgTAI64N(a), NoTimestamp)
           /\ wgTAI64N(a) # NoTimestamp
  <1>1. a[1] \in Nat /\ a[2] \in Nat /\ b[1] \in Nat /\ b[2] \in Nat
    BY DEF Instants
  <1>2. DOMAIN wgTAI64N(a) = {1, 2, 3}
    BY DEF wgTAI64N
  <1>3. \A x : Newer(wgTAI64N(a), x) <=>
           \/ wgTAI64N(a)[1] > x[1]
           \/ wgTAI64N(a)[2] > x[2] /\ wgTAI64N(a)[1] = x[1]
           \/ /\ wgTAI64N(a)[3] > x[3]
              /\ wgTAI64N(a)[1] = x[1] /\ wgTAI64N(a)[2] = x[2]
    <2>1. /\ \A P : (\A j \in 1 .. 1 - 1 : P[j]) <=> TRUE
          /\ \A j : j \in 1 .. 2 - 1 <=> j = 1
          /\ \A j : j \in 1 .. 3 - 1 <=> j = 1 \/ j = 2
      OBVIOUS
    <2> QED
      BY <1>2, <2>1 DEF Newer
  <1> QED
    BY <1>1, <1>3 DEF wgTAI64N, NotBefore, NoTimestamp

-----------------------------------------------------------------------------
(* What the node does with the probe's datagram.                           *)

\* What the probe sends once it has built it.
Built == IF mode = "udp" THEN [msg |-> [type |-> "bytes"]]
         ELSE buildWGInitiation(Pub("node"), wgIdentity, "ephemeral", OwnIndex, Now)

\* All that a node may send to an exchange of this probe.
Speaks == CASE node = "silent" -> {}
            [] node = "echo"   -> {Data}
            [] node = "other"  -> Junk
            [] node = "closed" -> {Icmp}
            [] node = "loaded" -> {Cookie}
            [] node = "wg"     -> {Own}
            [] OTHER           -> {}

\* Only a node with the key of the target and the monitoring peer takes an
\* initiation, only one under the monitoring key, and only if it is newer than
\* what it took before: the mac1 keeps out a node with another key.
LEMMA WhoTakes ==
    ASSUME setting \in Settings, payload = Built
    PROVE  Takes <=> /\ node = "wg" /\ mode # "udp" /\ setting.env
                     /\ Newer(wgTAI64N(Now), latest)
  <1>1. CASE mode = "udp"
    <2>1. payload.msg.type = "bytes"
      BY <1>1 DEF Built
    <2> QED
      BY <1>1, <2>1 DEF Takes, MAC1OK
  <1>2. CASE mode # "udp"
    <2>1. payload = buildWGInitiation(Pub("node"), wgIdentity, "ephemeral", OwnIndex, Now)
      BY <1>2 DEF Built
    <2>2. /\ consumeInitiation("node", payload)
                = {[static |-> Pub(wgIdentity), timestamp |-> wgTAI64N(Now)]}
          /\ MAC1OK("node", payload)
      BY <2>1, InitiationDecrypts
    <2>3. CASE node = "rekeyed"
      <3>1. payload.mac1 = wgHMAC(wgHash(<<"mac1----", Pub("node")>>), payload.msg)
        BY <2>2 DEF MAC1OK
      <3>2. ~MAC1OK("newkey", payload)
        BY <3>1 DEF MAC1OK, wgHMAC, wgHash, Pub
      <3> QED
        BY <2>3, <3>2 DEF Takes, NodeKey
    <2>4. CASE node = "stranger"
      BY <2>4 DEF Takes, Peers
    <2>5. CASE node = "wg"
      <3>1. NodeKey = "node" /\ Peers = {Pub("monitor")}
        BY <2>5 DEF NodeKey, Peers
      <3>2. Takes <=> Pub(wgIdentity) = Pub("monitor") /\ Newer(wgTAI64N(Now), latest)
        <4> DEFINE c == [static |-> Pub(wgIdentity), timestamp |-> wgTAI64N(Now)]
        <4>1. c.static = Pub(wgIdentity) /\ c.timestamp = wgTAI64N(Now)
          OBVIOUS
        <4>2. Takes <=> c.static \in Peers /\ Newer(c.timestamp, latest)
          BY <2>2, <2>5, <3>1 DEF Takes
        <4> QED
          BY <3>1, <4>1, <4>2
      <3>3. Pub(wgIdentity) = Pub("monitor") <=> setting.env
        BY DEF Pub, wgIdentity, Settings
      <3> QED
        BY <1>2, <2>5, <3>2, <3>3
    <2> QED
      BY <2>3, <2>4, <2>5 DEF Takes
  <1> QED
    BY <1>1, <1>2

\* A node sends nothing but what Speaks says, one datagram for one; who echoes,
\* refuses or answers otherwise always does, and a WireGuard node answers
\* exactly what it takes.
LEMMA WhatComesBack ==
    ASSUME setting \in Settings, payload = Built, NEW r \in Reactions
    PROVE  /\ r = {} \/ \E d \in Speaks : r = {d}
           /\ node \in {"echo", "other", "closed"} => r # {}
           /\ node = "wg" => (r # {} <=> Takes)
           /\ Own \in r => Takes
  <1>1. mode \in Modes /\ node \in Nodes
    BY WhatIsAccepted
  <1>2. Takes => node = "wg"
    BY WhoTakes
  <1>3. Takes => payload.msg.sender = OwnIndex
    <2> SUFFICES ASSUME Takes PROVE payload.msg.sender = OwnIndex
      OBVIOUS
    <2>1. mode # "udp"
      BY WhoTakes
    <2> QED
      BY <2>1 DEF Built, buildWGInitiation
  <1>4. Own \notin Junk /\ Own # Cookie /\ Own # Icmp
    BY DatagramsDistinct DEF Junk
  <1>5. CASE node \in {"silent", "echo", "other", "closed"}
    BY <1>4, <1>5 DEF Reactions, Speaks, Junk
  <1>6. CASE node = "loaded"
    BY <1>4, <1>6 DEF Reactions, Speaks
  <1>7. CASE node \in {"wg", "stranger", "rekeyed"}
    <2>1. Reactions = {IF Takes THEN {Response(payload.msg.sender)} ELSE {}}
      BY <1>7 DEF Reactions
    <2>2. r = IF Takes THEN {Own} ELSE {}
      BY <1>3, <2>1 DEF Own
    <2> QED
      BY <1>2, <1>7, <2>2 DEF Speaks
  <1> QED
    BY <1>1, <1>5, <1>6, <1>7 DEF Nodes

-----------------------------------------------------------------------------
(* The inductive invariant.                                                *)

\* Datagrams written so far.
Writes == IF pc \in {"build", "send"} THEN 0
          ELSE IF pc = "write" THEN attempt ELSE attempt + 1

\* Datagrams on their way back, an ICMP error aside.
Total(b) == b[Data] + b[Empty] + b[ShortCookie] + b[ShortResponse]
            + b[Cookie] + b[Own] + b[Old]

\* What holds where the loop is.
Stage == /\ pc \in {"build", "send"} =>
              attempt = 0 /\ wire = 0 /\ now = 0 /\ paused = 0 /\ ~sendOK
         /\ pc \in {"write", "arm", "read"} => sendOK
         /\ ~finished => heard = {} /\ ~respOK
         /\ pc \in {"send", "write", "arm", "read"} \/ wire > 0 => payload = Built

\* The network makes nothing up: a datagram back for a datagram written.
Bounds == /\ wire + Total(back) + Len(inbox) <= Writes + 1
          /\ \A d \in Datagrams \ {Old} : wire + back[d] <= Writes
          /\ back[Old] <= 1

\* An answer to an earlier session, or one of this node, which has accepted
\* the probe if it is the response to it.
Comes(d) == (d = Old /\ setting.late) \/ (d \in Speaks /\ (d = Own => accepted))

Origin == /\ \A d \in Datagrams : back[d] > 0 => Comes(d)
          /\ \A i \in 1 .. Len(inbox) : Comes(inbox[i])
          /\ pending => node = "closed"

\* No wait ends after the phase.
Budget == readBy <= deadline /\ PhaseBudget

\* Where the process is never held up it is on schedule, and a read that timed
\* out over a prompt network has left nothing behind.
OnTime == paused = 0 =>
            /\ pc \in {"write", "arm"} => now <= attempt * slice
            /\ pc = "read" => now <= readBy /\ readBy <= (attempt + 1) * slice
            /\ pc = "read" /\ prompt /\ now >= readBy =>
                  ~InFlight /\ inbox = <<>> /\ ~pending

\* Another prober has completed a handshake at or after the probe's instant.
Outrun == \E t \in RivalTimes : latest = wgTAI64N(t) /\ NotBefore(t, Now)

\* Whose timestamp the node remembers.
Remembers == ~accepted => latest \in {NoTimestamp} \cup {wgTAI64N(t) : t \in RivalTimes}

\* Before the exchange ends, every datagram written is somewhere, or lost, or
\* was not taken because of another prober.
Losses == ~finished =>
            /\ node \in {"echo", "other"} =>
                  wire + Total(back) + Len(inbox) + drops >= Writes
            /\ node = "closed" => pending \/ wire + back[Icmp] + drops >= Writes
            /\ node = "wg" /\ mode = "wg" => accepted \/ Outrun \/ wire + drops >= Writes
            /\ accepted => \/ drops > 0 \/ back[Own] > 0
                           \/ \E i \in 1 .. Len(inbox) : inbox[i] = Own

\* The session of the late answer is one of a WireGuard probe.
LateIsWireGuard == setting.late => mode # "udp"

Verdicts == /\ VerdictJustified
            /\ HandshakeMeansAccepted
            /\ FailureExplained
            /\ LateIsWireGuard => RefusalDetected

Inv == /\ TypeOK /\ Stage /\ Bounds /\ Origin /\ Budget
       /\ OnTime /\ Remembers /\ Losses /\ Verdicts

-----------------------------------------------------------------------------
(* Facts the steps share.                                                  *)

\* No step changes the setting.
LEMMA SettingFixed ==
    ASSUME [Next]_vars
    PROVE  /\ setting' = setting
           /\ mode' = mode /\ node' = node /\ prompt' = prompt
           /\ Speaks' = Speaks /\ Built' = Built
           /\ \A d : Accepts(d)' = Accepts(d)
  <1>1. setting' = setting
    BY DEF Next, vars, ProbeStep, Build, BuildFails, SendOK, SendFails, Resend,
       ResendFails, ResendExpired, Arm, ReadDatagram, ReadRefused, ReadTimeout,
       NetworkStep, NodeReceives, Arrives, DropRequest, DropReply, RivalTaken, Tick, Pause
  <1>2. mode' = mode /\ node' = node /\ prompt' = prompt
    BY <1>1 DEF mode, node, prompt
  <1>3. wgIdentity' = wgIdentity
    BY <1>1 DEF wgIdentity
  <1>4. Speaks' = Speaks /\ Built' = Built /\ \A d : Accepts(d)' = Accepts(d)
    BY <1>2, <1>3 DEF Speaks, Built, Accepts
  <1> QED
    BY <1>1, <1>2, <1>4

\* Counting what is on its way back.
LEMMA TotalFacts ==
    ASSUME NEW b \in [Datagrams -> Nat]
    PROVE  /\ Total(b) \in Nat
           /\ \A d \in Datagrams \ {Icmp} : b[d] <= Total(b)
           /\ (\A d \in Datagrams : b[d] = 0) => Total(b) = 0
  <1>1. \A d \in Datagrams : b[d] \in Nat
    OBVIOUS
  <1> QED
    BY <1>1, DatagramsDistinct DEF Total

LEMMA TotalTaken ==
    ASSUME NEW b \in [Datagrams -> Nat], NEW d \in Datagrams
    PROVE  Total([b EXCEPT ![d] = @ - 1]) = IF d = Icmp THEN Total(b) ELSE Total(b) - 1
  <1> DEFINE c == [b EXCEPT ![d] = @ - 1]
  <1>1. \A x \in Datagrams : b[x] \in Nat /\ c[x] = IF x = d THEN b[x] - 1 ELSE b[x]
    OBVIOUS
  <1> HIDE DEF c
  <1>2. d \in {Data, Empty, ShortCookie, ShortResponse, Cookie, Own, Old, Icmp}
    BY DatagramsDistinct
  <1>3. Total(c) = IF d = Icmp THEN Total(b) ELSE Total(b) - 1
    BY <1>1, <1>2, DatagramsDistinct DEF Total
  <1> QED
    BY <1>3 DEF c

LEMMA TotalAdded ==
    ASSUME NEW b \in [Datagrams -> Nat], NEW r, r = {} \/ \E d \in Datagrams : r = {d}
    PROVE  LET c == [x \in Datagrams |-> b[x] + (IF x \in r THEN 1 ELSE 0)]
           IN  /\ c \in [Datagrams -> Nat]
               /\ \A x \in Datagrams : c[x] = b[x] + (IF x \in r THEN 1 ELSE 0)
               /\ Total(c) = IF r = {} \/ r = {Icmp} THEN Total(b) ELSE Total(b) + 1
  <1> DEFINE c == [x \in Datagrams |-> b[x] + (IF x \in r THEN 1 ELSE 0)]
  <1>1. \A x \in Datagrams : /\ b[x] \in Nat
                             /\ c[x] = b[x] + (IF x \in r THEN 1 ELSE 0)
    OBVIOUS
  <1>2. c \in [Datagrams -> Nat]
    OBVIOUS
  <1> HIDE DEF c
  <1>3. CASE r = {}
    <2>1. \A x \in Datagrams : c[x] = b[x]
      BY <1>1, <1>3
    <2>2. Total(c) = Total(b)
      BY <2>1, DatagramsDistinct DEF Total
    <2> QED
      BY <1>1, <1>2, <1>3, <2>2 DEF c
  <1>4. ASSUME NEW d \in Datagrams, r = {d}
        PROVE  Total(c) = IF r = {} \/ r = {Icmp} THEN Total(b) ELSE Total(b) + 1
    <2>1. \A x \in Datagrams : b[x] \in Nat /\ c[x] = IF x = d THEN b[x] + 1 ELSE b[x]
      BY <1>1, <1>4
    <2>2. d \in {Data, Empty, ShortCookie, ShortResponse, Cookie, Own, Old, Icmp}
      BY DatagramsDistinct
    <2>3. Total(c) = IF d = Icmp THEN Total(b) ELSE Total(b) + 1
      BY <2>1, <2>2, DatagramsDistinct DEF Total
    <2> QED
      BY <1>4, <2>3
  <1> QED
    BY <1>1, <1>2, <1>3, <1>4 DEF c

\* The schedule of the attempts: each has its slice, and they fit.
LEMMA Schedule ==
    /\ Attempts \in Nat /\ Attempts >= 1 /\ Timeout \in Nat /\ slice \in Nat /\ slice >= 1
    /\ \A a \in 0 .. Attempts - 1 :
          /\ a * slice \in Nat /\ (a + 1) * slice \in Nat
          /\ (a + 1) * slice = a * slice + slice
          /\ (a + 1) * slice <= deadline
          /\ a + 1 # Attempts => (a + 1) * slice < deadline
  <1>1. Attempts \in 1 .. 10 /\ Timeout \in Nat /\ Timeout >= Attempts
    BY ExchangeAssumption
  <1>2. slice \in Nat /\ slice >= 1 /\ slice * Attempts <= Timeout
    BY <1>1 DEF slice
  <1> HIDE DEF slice
  <1>3. ASSUME NEW a \in 0 .. Attempts - 1
        PROVE  /\ a * slice \in Nat /\ (a + 1) * slice \in Nat
               /\ (a + 1) * slice = a * slice + slice
               /\ (a + 1) * slice <= deadline
               /\ a + 1 # Attempts => (a + 1) * slice < deadline
    <2>1. a * slice \in Nat /\ (a + 1) * slice \in Nat /\ (a + 1) * slice = a * slice + slice
      BY <1>1, <1>2
    <2>2. (a + 1) * slice <= Attempts * slice
      BY <1>1, <1>2
    <2>3. a + 1 # Attempts => (a + 2) * slice <= Attempts * slice
      BY <1>1, <1>2
    <2>4. (a + 2) * slice = (a + 1) * slice + slice /\ Attempts * slice = slice * Attempts
      BY <1>1, <1>2
    <2> QED
      BY <1>1, <1>2, <2>1, <2>2, <2>3, <2>4 DEF deadline
  <1> QED
    BY <1>1, <1>2, <1>3

\* The setting is one of Settings, and the monitoring key is there for "wg".
LEMMA SettingType ==
    ASSUME TypeOK
    PROVE  /\ setting \in Settings /\ mode \in Modes /\ node \in Nodes
           /\ prompt \in BOOLEAN /\ setting.env \in BOOLEAN /\ setting.late \in BOOLEAN
           /\ mode = "wg" => setting.env
  <1>1. setting \in Cases
    BY DEF TypeOK
  <1>2. setting \in Settings
    BY <1>1, ExchangeAssumption
  <1>3. mode = "wg" => setting.env
    BY <1>1, KeyRequired DEF mode
  <1> QED
    BY <1>2, <1>3 DEF Settings, mode, node, prompt

-----------------------------------------------------------------------------
(* Initially.                                                              *)

\* Nothing is written; at most an answer to an earlier session is under way.
LEMMA InitInv == Init => Inv
  <1> SUFFICES ASSUME Init PROVE Inv
    OBVIOUS
  <1>1. /\ setting \in Cases /\ pc = "build" /\ attempt = 0 /\ readBy = 0 /\ wire = 0
        /\ inbox = <<>> /\ pending = FALSE /\ latest = NoTimestamp /\ accepted = FALSE
        /\ sendOK = FALSE /\ respOK = FALSE /\ definitive = FALSE /\ heard = {}
        /\ drops = 0 /\ now = 0 /\ paused = 0 /\ overrun = 0
        /\ back = [d \in Datagrams |->
                     IF setting.late /\ d = Response(OldIndex) THEN 1 ELSE 0]
    BY DEF Init
  <1>2. \A d \in Datagrams : back[d] = IF setting.late /\ d = Old THEN 1 ELSE 0
    BY <1>1 DEF Old
  <1>3. back \in [Datagrams -> 0 .. Attempts]
    BY <1>1, Schedule
  <1>4. TypeOK
    <2>1. inbox \in Seq(Datagrams \ {Icmp}) /\ Len(inbox) <= Attempts + 1
      BY <1>1, Schedule
    <2>2. /\ attempt \in 0 .. Attempts - 1 /\ wire \in 0 .. Attempts
          /\ now \in Nat /\ readBy \in Nat /\ drops \in 0 .. MaxDrops
          /\ paused \in 0 .. MaxPause /\ overrun \in 0 .. paused
      BY <1>1, Schedule, ExchangeAssumption
    <2> QED
      BY <1>1, <1>3, <2>1, <2>2 DEF TypeOK
  <1>5. Total(back) <= 1
    <2> DEFINE b == back
    <2>1. /\ b[Data] = 0 /\ b[Empty] = 0 /\ b[ShortCookie] = 0 /\ b[ShortResponse] = 0
          /\ b[Cookie] = 0 /\ b[Own] = 0 /\ (b[Old] = 0 \/ b[Old] = 1)
      BY <1>2, DatagramsDistinct
    <2> QED
      BY <2>1 DEF Total
  <1>6. Total(back) \in Nat
    BY <1>3, TotalFacts
  <1>7. Stage
    BY <1>1 DEF Stage, finished
  <1>8. Bounds
    BY <1>1, <1>2, <1>5, <1>6, DatagramsDistinct DEF Bounds, Writes
  <1>9. Origin
    BY <1>1, <1>2 DEF Origin, Comes
  <1>10. Budget
    BY <1>1, Schedule DEF Budget, PhaseBudget, deadline
  <1>11. OnTime /\ Remembers
    BY <1>1 DEF OnTime, Remembers
  <1>12. Losses
    BY <1>1, <1>2, <1>6, DatagramsDistinct DEF Losses, Writes
  <1>13. Verdicts
    BY <1>1 DEF Verdicts, VerdictJustified, HandshakeMeansAccepted, FailureExplained,
       RefusalDetected, finished
  <1> QED
    BY <1>4, <1>7, <1>8, <1>9, <1>10, <1>11, <1>12, <1>13 DEF Inv

-----------------------------------------------------------------------------
(* Steps, one lemma per part of the invariant.                             *)

\* What is in the network is never more than what was written, and the late
\* answer.
LEMMA BoundsStep ==
    ASSUME Inv, Next
    PROVE  /\ wire' \in Nat /\ back' \in [Datagrams -> Nat]
           /\ inbox' \in Seq(Datagrams \ {Icmp})
           /\ Writes' \in 0 .. Attempts
           /\ attempt' \in 0 .. Attempts - 1
           /\ Bounds'
  <1> DEFINE Goal == /\ wire' \in Nat /\ back' \in [Datagrams -> Nat]
                     /\ inbox' \in Seq(Datagrams \ {Icmp})
                     /\ Writes' \in 0 .. Attempts
                     /\ attempt' \in 0 .. Attempts - 1
                     /\ Bounds'
  <1> SUFFICES Goal
    OBVIOUS
  <1>1. /\ wire \in Nat /\ back \in [Datagrams -> Nat] /\ inbox \in Seq(Datagrams \ {Icmp})
        /\ Len(inbox) \in Nat /\ attempt \in 0 .. Attempts - 1 /\ Attempts \in Nat
        /\ Attempts >= 1 /\ Total(back) \in Nat
        /\ \A d \in Datagrams : back[d] \in Nat
    <2>1. back \in [Datagrams -> Nat] /\ inbox \in Seq(Datagrams \ {Icmp})
      BY Schedule DEF Inv, TypeOK
    <2> QED
      BY <2>1, Schedule, TotalFacts DEF Inv, TypeOK
  <1>2. /\ wire + Total(back) + Len(inbox) <= Writes + 1
        /\ \A d \in Datagrams \ {Old} : wire + back[d] <= Writes
        /\ back[Old] <= 1
        /\ Writes \in 0 .. Attempts
    BY <1>1 DEF Inv, Bounds, Writes
  <1>3. pc \in {"build", "send"} => attempt = 0 /\ wire = 0
    BY DEF Inv, Stage
  <1>4. Icmp \in Datagrams /\ Old \in Datagrams /\ Icmp # Old
    BY DatagramsDistinct
  <1>5. ASSUME UNCHANGED <<wire, back, inbox>>, attempt' \in 0 .. Attempts - 1,
               Writes <= Writes', Writes' \in 0 .. Attempts
        PROVE  Goal
    <2>1. Total(back') = Total(back)
      BY <1>5
    <2> QED
      BY <1>1, <1>2, <1>5, <2>1 DEF Bounds
  <1>6. CASE Build \/ BuildFails \/ SendFails
    <2>1. UNCHANGED <<wire, back, inbox, attempt>> /\ pc \in {"build", "send"}
          /\ pc' \in {"send", "finished"}
      BY <1>6 DEF Build, BuildFails, SendFails, network
    <2>2. Writes = 0 /\ Writes' \in 0 .. 1
      BY <1>3, <2>1 DEF Writes
    <2> QED
      BY <1>1, <1>5, <2>1, <2>2
  <1>7. CASE SendOK \/ Resend
    <2>1. UNCHANGED <<back, inbox, attempt>> /\ pc \in {"send", "write"} /\ pc' = "arm"
          /\ wire' = wire + 1
      BY <1>7 DEF SendOK, Resend
    <2>2. Writes' = Writes + 1 /\ Writes' = attempt + 1
      BY <1>3, <2>1 DEF Writes
    <2>3. Total(back') = Total(back)
      BY <2>1
    <2> QED
      BY <1>1, <1>2, <2>1, <2>2, <2>3 DEF Bounds
  <1>8. CASE ResendFails \/ ResendExpired \/ ReadRefused
    <2>1. UNCHANGED <<wire, back, inbox, attempt>> /\ pc \in {"write", "read"}
          /\ pc' = "finished"
      BY <1>8 DEF ResendFails, ResendExpired, ReadRefused, Finish, network
    <2>2. Writes <= Writes' /\ Writes' = attempt + 1
      BY <1>1, <2>1 DEF Writes
    <2> QED
      BY <1>1, <1>5, <2>1, <2>2
  <1>9. CASE ReadDatagram
    <2>1. /\ UNCHANGED <<wire, back, attempt>> /\ pc = "read" /\ pc' = "finished"
          /\ inbox # <<>> /\ inbox' = Tail(inbox)
      BY <1>9 DEF ReadDatagram, Finish
    <2>2. Writes' = Writes
      BY <2>1 DEF Writes
    <2>3. inbox' \in Seq(Datagrams \ {Icmp}) /\ Len(inbox') = Len(inbox) - 1
      BY <1>1, <2>1
    <2>4. Total(back') = Total(back)
      BY <2>1
    <2> QED
      BY <1>1, <1>2, <2>1, <2>2, <2>3, <2>4 DEF Bounds
  <1>10. CASE Arm \/ ReadTimeout
    <2>1. UNCHANGED <<wire, back, inbox>> /\ pc \in {"arm", "read"}
          /\ \/ pc' \in {"read", "finished"} /\ attempt' = attempt
             \/ pc' = "write" /\ attempt' = attempt + 1 /\ attempt + 1 # Attempts
      BY <1>10 DEF Arm, ReadTimeout, Finish, LastAttempt, network
    <2>2. Writes' = Writes /\ attempt' \in 0 .. Attempts - 1
      BY <1>1, <2>1 DEF Writes
    <2> QED
      BY <1>2, <1>5, <2>1, <2>2
  <1>11. CASE DropRequest
    <2>1. UNCHANGED <<back, inbox, attempt, pc>> /\ wire > 0 /\ wire' = wire - 1
      BY <1>11 DEF DropRequest, probe
    <2>2. Writes' = Writes /\ Total(back') = Total(back)
      BY <2>1 DEF Writes
    <2> QED
      BY <1>1, <1>2, <2>1, <2>2 DEF Bounds
  <1>12. ASSUME NEW d \in Datagrams, Arrives(d) \/ DropReply(d)
         PROVE  Goal
    <2>1. UNCHANGED <<wire, attempt, pc>> /\ back[d] > 0 /\ back' = [back EXCEPT ![d] = @ - 1]
      BY <1>12 DEF Arrives, DropReply, probe
    <2>2. \/ inbox' = inbox
          \/ d # Icmp /\ inbox' = Append(inbox, d)
      BY <1>12 DEF Arrives, DropReply
    <2>3. inbox' \in Seq(Datagrams \ {Icmp})
          /\ Len(inbox') <= Len(inbox) + (IF d = Icmp THEN 0 ELSE 1)
      BY <1>1, <2>2
    <2>4. Writes' = Writes
      BY <2>1 DEF Writes
    <2>5. Total(back') = IF d = Icmp THEN Total(back) ELSE Total(back) - 1
      BY <1>1, <2>1, TotalTaken
    <2>6. back' \in [Datagrams -> Nat] /\ \A x \in Datagrams : back'[x] <= back[x]
      BY <1>1, <2>1
    <2>7. wire' + Total(back') + Len(inbox') <= Writes' + 1
      BY <1>1, <1>2, <2>1, <2>3, <2>4, <2>5
    <2>8. /\ \A x \in Datagrams \ {Old} : wire' + back'[x] <= Writes'
          /\ back'[Old] <= 1
      <3>1. \A x \in Datagrams : back'[x] \in Nat
        BY <2>6
      <3> QED
        BY <1>1, <1>2, <1>4, <2>1, <2>4, <2>6, <3>1
    <2> QED
      BY <1>1, <1>2, <2>1, <2>3, <2>4, <2>6, <2>7, <2>8 DEF Bounds
  <1>13. CASE NodeReceives
    <2>1. UNCHANGED <<inbox, attempt, pc>> /\ wire > 0 /\ wire' = wire - 1
      BY <1>13 DEF NodeReceives, probe
    <2>2. PICK r \in Reactions :
             back' = [d \in Datagrams |-> back[d] + (IF d \in r THEN 1 ELSE 0)]
      BY <1>13 DEF NodeReceives
    <2>3. setting \in Settings /\ payload = Built
      BY <2>1, SettingType DEF Inv, Stage
    <2>4. r = {} \/ \E d \in Speaks : r = {d}
      BY <2>2, <2>3, WhatComesBack
    <2>5. Speaks \subseteq Datagrams \ {Old}
      BY DatagramsDistinct DEF Speaks, Junk
    <2>6. r = {} \/ \E d \in Datagrams : r = {d}
      BY <2>4, <2>5
    <2>7. /\ back' \in [Datagrams -> Nat]
          /\ \A x \in Datagrams : back'[x] = back[x] + (IF x \in r THEN 1 ELSE 0)
          /\ Total(back') = IF r = {} \/ r = {Icmp} THEN Total(back) ELSE Total(back) + 1
      BY <1>1, <2>2, <2>6, TotalAdded
    <2>8. Old \notin r
      BY <2>4, <2>5
    <2>9. Writes' = Writes
      BY <2>1 DEF Writes
    <2>10. wire' + Total(back') + Len(inbox') <= Writes' + 1
      BY <1>1, <1>2, <2>1, <2>7, <2>9
    <2>11. /\ \A x \in Datagrams \ {Old} : wire' + back'[x] <= Writes'
           /\ back'[Old] <= 1
      BY <1>1, <1>2, <1>4, <2>1, <2>7, <2>8, <2>9
    <2> QED
      BY <1>1, <1>2, <2>1, <2>7, <2>9, <2>10, <2>11 DEF Bounds
  <1>14. CASE Tick \/ Pause \/ \E t \in RivalTimes : RivalTaken(t)
    <2>1. UNCHANGED <<wire, back, inbox, attempt, pc>>
      BY <1>14 DEF Tick, Pause, RivalTaken, probe, network
    <2>2. Writes' = Writes
      BY <2>1 DEF Writes
    <2> QED
      BY <1>1, <1>2, <1>5, <2>1, <2>2
  <1> HIDE DEF Goal
  <1> QED
    BY <1>6, <1>7, <1>8, <1>9, <1>10, <1>11, <1>12, <1>13, <1>14
       DEF Next, ProbeStep, NetworkStep

\* Type correctness: the bounds on what is in the network come from the bound
\* on what was written.
LEMMA TypeStep ==
    ASSUME Inv, Next
    PROVE  TypeOK'
  <1>1. /\ wire' \in Nat /\ back' \in [Datagrams -> Nat]
        /\ inbox' \in Seq(Datagrams \ {Icmp})
        /\ Writes' \in 0 .. Attempts
        /\ attempt' \in 0 .. Attempts - 1
        /\ Bounds'
    BY BoundsStep
  <1>2. Attempts \in Nat /\ Attempts >= 1 /\ Timeout \in Nat /\ slice \in Nat
        /\ MaxDrops \in Nat /\ MaxPause \in Nat
    BY Schedule, ExchangeAssumption
  <1>3. Total(back') \in Nat /\ Len(inbox') \in Nat /\ \A d \in Datagrams : back'[d] \in Nat
    BY <1>1, TotalFacts
  <1>4. Old \in Datagrams /\ Data \in Datagrams /\ Data # Old
    BY DatagramsDistinct
  <1>5. wire' \in 0 .. Attempts /\ Len(inbox') <= Attempts + 1
    BY <1>1, <1>2, <1>3, <1>4 DEF Bounds
  <1>6. \A d \in Datagrams : back'[d] \in 0 .. Attempts
    <2>1. \A d \in Datagrams \ {Old} : back'[d] <= Attempts
      BY <1>1, <1>2, <1>3 DEF Bounds
    <2>2. back'[Old] <= Attempts
      BY <1>1, <1>2, <1>3, <1>4 DEF Bounds
    <2> QED
      BY <1>2, <1>3, <2>1, <2>2
  <1>7. back' \in [Datagrams -> 0 .. Attempts]
    BY <1>1, <1>6
  <1>8. setting' \in Cases
    BY SettingFixed DEF Inv, TypeOK
  <1>9. /\ pc' \in {"build", "send", "write", "arm", "read", "finished"}
        /\ sendOK' \in BOOLEAN /\ respOK' \in BOOLEAN /\ definitive' \in BOOLEAN
    BY DEF Inv, TypeOK, Next, ProbeStep, Build, BuildFails, SendOK, SendFails, Resend,
       ResendFails, ResendExpired, Arm, ReadDatagram, ReadRefused, ReadTimeout, Finish,
       NetworkStep, NodeReceives, Arrives, DropRequest, DropReply, RivalTaken, Tick, Pause,
       probe
  <1>10. readBy' \in Nat
    <2>1. CASE Arm
      BY <1>2, <2>1 DEF Arm, WaitUntil, deadline, Inv, TypeOK
    <2>2. CASE UNCHANGED readBy
      BY <2>2 DEF Inv, TypeOK
    <2> QED
      BY <2>1, <2>2 DEF Next, ProbeStep, Build, BuildFails, SendOK, SendFails, Resend,
         ResendFails, ResendExpired, ReadDatagram, ReadRefused, ReadTimeout,
         NetworkStep, NodeReceives, Arrives, DropRequest, DropReply, RivalTaken, Tick,
         Pause, probe
  <1>11. pending' \in BOOLEAN /\ accepted' \in BOOLEAN /\ drops' \in 0 .. MaxDrops
    <2>1. CASE NodeReceives
      BY <2>1 DEF NodeReceives, Inv, TypeOK
    <2>2. CASE DropRequest \/ \E d \in Datagrams : DropReply(d)
      BY <1>2, <2>2 DEF DropRequest, DropReply, Inv, TypeOK
    <2>3. CASE UNCHANGED <<accepted, drops>>
      <3>1. pending' \in BOOLEAN
        BY <2>3 DEF Inv, TypeOK, Next, ProbeStep, Build, BuildFails, SendOK, SendFails,
           Resend, ResendFails, ResendExpired, Arm, ReadDatagram, ReadRefused,
           ReadTimeout, NetworkStep, NodeReceives, Arrives, DropRequest, DropReply,
           RivalTaken, Tick, Pause, network
      <3> QED
        BY <2>3, <3>1 DEF Inv, TypeOK
    <2> QED
      BY <2>1, <2>2, <2>3 DEF Next, ProbeStep, Build, BuildFails, SendOK, SendFails, Resend,
         ResendFails, ResendExpired, Arm, ReadDatagram, ReadRefused, ReadTimeout,
         NetworkStep, Arrives, RivalTaken, Tick, Pause, network
  <1>12. latest' \in {NoTimestamp} \cup {wgTAI64N(t) : t \in RivalTimes \cup {Now}}
    <2>1. CASE NodeReceives
      BY <2>1 DEF NodeReceives, Inv, TypeOK
    <2>2. CASE \E t \in RivalTimes : RivalTaken(t)
      BY <2>2 DEF RivalTaken
    <2>3. CASE UNCHANGED latest
      BY <2>3 DEF Inv, TypeOK
    <2> QED
      BY <2>1, <2>2, <2>3 DEF Next, ProbeStep, Build, BuildFails, SendOK, SendFails, Resend,
         ResendFails, ResendExpired, Arm, ReadDatagram, ReadRefused, ReadTimeout,
         NetworkStep, Arrives, DropRequest, DropReply, Tick, Pause, network
  <1>13. heard' \subseteq Datagrams \cup {Expired}
    <2>1. CASE ReadDatagram
      <3>1. Head(inbox) \in Datagrams
        BY <2>1 DEF ReadDatagram, Inv, TypeOK
      <3> QED
        BY <2>1, <3>1 DEF ReadDatagram, Inv, TypeOK
    <2>2. CASE ResendFails \/ ResendExpired \/ ReadRefused
      BY <2>2, DatagramsDistinct DEF ResendFails, ResendExpired, ReadRefused, Inv, TypeOK
    <2>3. CASE UNCHANGED heard
      BY <2>3 DEF Inv, TypeOK
    <2> QED
      BY <2>1, <2>2, <2>3 DEF Next, ProbeStep, Build, BuildFails, SendOK, SendFails, Resend,
         Arm, ReadTimeout, NetworkStep, NodeReceives, Arrives, DropRequest, DropReply,
         RivalTaken, Tick, Pause, probe
  <1>14. now' \in Nat /\ paused' \in 0 .. MaxPause /\ overrun' \in 0 .. paused'
    <2>1. CASE Tick
      BY <2>1 DEF Tick, Inv, TypeOK
    <2>2. CASE Pause
      <3>1. paused \in Nat /\ paused < MaxPause /\ overrun \in Nat /\ overrun <= paused
        BY <2>2, <1>2 DEF Pause, Inv, TypeOK
      <3>2. overrun' = overrun + 1 \/ overrun' = overrun
        BY <2>2 DEF Pause
      <3> QED
        BY <1>2, <2>2, <3>1, <3>2 DEF Pause, Inv, TypeOK
    <2>3. CASE UNCHANGED clock
      BY <2>3 DEF clock, Inv, TypeOK
    <2> QED
      BY <2>1, <2>2, <2>3 DEF Next, ProbeStep, Build, BuildFails, SendOK, SendFails, Resend,
         ResendFails, ResendExpired, Arm, ReadDatagram, ReadRefused, ReadTimeout,
         NetworkStep, NodeReceives, Arrives, DropRequest, DropReply, RivalTaken
  <1> QED
    BY <1>1, <1>5, <1>7, <1>8, <1>9, <1>10, <1>11, <1>12, <1>13, <1>14 DEF TypeOK

\* Where the loop is.
LEMMA StageStep ==
    ASSUME Inv, Next
    PROVE  Stage'
  <1>1. Built' = Built /\ setting' = setting /\ mode' = mode
    BY SettingFixed
  <1>2. wire \in Nat
    BY DEF Inv, TypeOK
  <1> USE DEF Stage, finished
  <1>3. CASE Build
    <2>1. payload' = Built
      BY <1>3 DEF Build, Built
    <2> QED
      BY <1>1, <1>3, <2>1 DEF Build, Inv, network, clock
  <1>4. CASE BuildFails \/ SendFails
    BY <1>4 DEF BuildFails, SendFails, Inv, network
  <1>5. CASE SendOK \/ Resend
    BY <1>1, <1>5 DEF SendOK, Resend, Inv
  <1>6. CASE ResendFails \/ ResendExpired \/ ReadDatagram \/ ReadRefused
    BY <1>1, <1>6 DEF ResendFails, ResendExpired, ReadDatagram, ReadRefused, Finish, Inv,
       network
  <1>7. CASE Arm \/ ReadTimeout
    BY <1>1, <1>7 DEF Arm, ReadTimeout, Finish, Inv, network
  <1>8. CASE NodeReceives \/ DropRequest
    <2>1. wire > 0 /\ wire' = wire - 1 /\ UNCHANGED <<probe, clock>>
      BY <1>8 DEF NodeReceives, DropRequest
    <2> QED
      BY <1>1, <1>2, <2>1 DEF Inv, probe, clock
  <1>9. CASE \/ \E d \in Datagrams : Arrives(d) \/ DropReply(d)
             \/ \E t \in RivalTimes : RivalTaken(t)
    BY <1>1, <1>9 DEF Arrives, DropReply, RivalTaken, Inv, probe, clock
  <1>10. CASE Tick \/ Pause
    BY <1>1, <1>10 DEF Tick, Pause, Inv, probe, network
  <1> QED
    BY <1>3, <1>4, <1>5, <1>6, <1>7, <1>8, <1>9, <1>10 DEF Next, ProbeStep, NetworkStep

\* No wait ends after the phase, so that only a pause can overrun it.
LEMMA BudgetStep ==
    ASSUME Inv, Next
    PROVE  Budget'
  <1>1. /\ now \in Nat /\ readBy \in Nat /\ overrun \in Nat /\ slice \in Nat
        /\ deadline \in Nat
    BY Schedule DEF Inv, TypeOK, deadline
  <1>2. readBy <= deadline /\ now <= deadline + overrun
    BY DEF Inv, Budget, PhaseBudget
  <1>3. CASE Arm
    <2>1. readBy' <= deadline
      BY <1>1, <1>3 DEF Arm, WaitUntil
    <2> QED
      BY <1>2, <1>3, <2>1 DEF Arm, clock, Budget, PhaseBudget, deadline
  <1>4. CASE Tick
    BY <1>1, <1>2, <1>4 DEF Tick, probe, Budget, PhaseBudget, deadline
  <1>5. CASE Pause
    BY <1>1, <1>2, <1>5 DEF Pause, probe, Budget, PhaseBudget, deadline
  <1>6. CASE UNCHANGED <<now, readBy, overrun>>
    BY <1>2, <1>6 DEF Budget, PhaseBudget, deadline
  <1> QED
    BY <1>3, <1>4, <1>5, <1>6 DEF Next, ProbeStep, Build, BuildFails, SendOK, SendFails,
       Resend, ResendFails, ResendExpired, ReadDatagram, ReadRefused, ReadTimeout,
       NetworkStep, NodeReceives, Arrives, DropRequest, DropReply, RivalTaken, probe, clock

\* Only a refused port answers with an ICMP error, only a WireGuard node that
\* took the initiation with a response.
LEMMA SpeaksFacts ==
    ASSUME setting \in Settings
    PROVE  /\ Speaks \subseteq Datagrams \ {Old}
           /\ Icmp \in Speaks <=> node = "closed"
           /\ node = "closed" => Speaks = {Icmp}
           /\ Own \in Speaks <=> node = "wg"
           /\ node = "wg" => Speaks = {Own}
           /\ Cookie \in Speaks => node = "loaded"
           /\ \A d \in Speaks : \/ d \in {Icmp, Own, Cookie}
                                \/ node \in {"echo", "other"}
  BY DatagramsDistinct, WhatIsAccepted DEF Speaks, Junk, Nodes

\* Everything under way has a sender.
LEMMA OriginStep ==
    ASSUME Inv, Next
    PROVE  Origin'
  <1>1. /\ setting' = setting /\ Speaks' = Speaks /\ node' = node
        /\ setting \in Settings
    BY SettingFixed, SettingType DEF Inv
  <1>2. /\ back \in [Datagrams -> Nat] /\ inbox \in Seq(Datagrams \ {Icmp})
        /\ Len(inbox) \in Nat
    <2>1. back \in [Datagrams -> Nat] /\ inbox \in Seq(Datagrams \ {Icmp})
      BY Schedule DEF Inv, TypeOK
    <2> QED
      BY <2>1
  <1>3. Origin
    BY DEF Inv
  <1>4. CASE NodeReceives
    <2>1. UNCHANGED <<inbox, pending>> /\ wire > 0 /\ accepted' = (accepted \/ Takes)
      BY <1>4 DEF NodeReceives
    <2>2. PICK r \in Reactions :
             back' = [d \in Datagrams |-> back[d] + (IF d \in r THEN 1 ELSE 0)]
      BY <1>4 DEF NodeReceives
    <2>3. payload = Built
      BY <2>1 DEF Inv, Stage
    <2>4. /\ r = {} \/ \E d \in Speaks : r = {d}
          /\ Own \in r => Takes
      BY <1>1, <2>2, <2>3, WhatComesBack
    <2>5. \A d : Comes(d) => Comes(d)'
      BY <1>1, <2>1 DEF Comes
    <2>6. ASSUME NEW d \in Datagrams, back'[d] > 0
          PROVE  Comes(d)'
      <3>1. CASE d \in r
        BY <1>1, <2>1, <2>4, <3>1 DEF Comes
      <3>2. CASE d \notin r
        <4>1. back[d] > 0
          BY <1>2, <2>2, <2>6, <3>2
        <4> QED
          BY <1>3, <2>5, <4>1 DEF Origin
      <3> QED
        BY <3>1, <3>2
    <2> QED
      BY <1>1, <1>3, <2>1, <2>5, <2>6 DEF Origin
  <1>5. ASSUME UNCHANGED accepted
        PROVE  \A d : Comes(d)' <=> Comes(d)
    BY <1>1, <1>5 DEF Comes
  <1>6. ASSUME NEW d \in Datagrams, Arrives(d)
        PROVE  Origin'
    <2>1. back[d] > 0 /\ back' = [back EXCEPT ![d] = @ - 1] /\ UNCHANGED accepted
      BY <1>6 DEF Arrives
    <2>2. Comes(d)
      BY <1>3, <2>1 DEF Origin
    <2>3. \A x \in Datagrams : back'[x] > 0 => back[x] > 0
      BY <1>2, <2>1
    <2>4. CASE d = Icmp
      <3>1. node = "closed"
        BY <1>1, <2>2, <2>4, SpeaksFacts, DatagramsDistinct DEF Comes
      <3>2. UNCHANGED inbox
        BY <1>6, <2>4 DEF Arrives
      <3> QED
        BY <1>1, <1>3, <1>5, <2>1, <2>3, <3>1, <3>2 DEF Origin
    <2>5. CASE d # Icmp
      <3>1. inbox' = Append(inbox, d) /\ UNCHANGED pending
        BY <1>6, <2>5 DEF Arrives
      <3>2. \A i \in 1 .. Len(inbox') :
               \/ i \in 1 .. Len(inbox) /\ inbox'[i] = inbox[i]
               \/ inbox'[i] = d
        BY <1>2, <2>5, <3>1
      <3> QED
        BY <1>1, <1>3, <1>5, <2>1, <2>2, <2>3, <3>1, <3>2 DEF Origin
    <2> QED
      BY <2>4, <2>5
  <1>7. ASSUME NEW d \in Datagrams, DropReply(d)
        PROVE  Origin'
    <2>1. back' = [back EXCEPT ![d] = @ - 1] /\ UNCHANGED <<accepted, inbox, pending>>
      BY <1>7 DEF DropReply
    <2>2. \A x \in Datagrams : back'[x] > 0 => back[x] > 0
      BY <1>2, <2>1
    <2> QED
      BY <1>1, <1>3, <1>5, <2>1, <2>2 DEF Origin
  <1>8. CASE ReadDatagram
    <2>1. inbox # <<>> /\ inbox' = Tail(inbox) /\ UNCHANGED <<back, pending, accepted>>
      BY <1>8 DEF ReadDatagram
    <2>2. \A i \in 1 .. Len(inbox') : i + 1 \in 1 .. Len(inbox) /\ inbox'[i] = inbox[i + 1]
      BY <1>2, <2>1
    <2> QED
      BY <1>1, <1>3, <1>5, <2>1, <2>2 DEF Origin
  <1>9. CASE ResendFails \/ ReadRefused
    <2>1. UNCHANGED <<back, inbox, accepted>> /\ ~pending'
      BY <1>9 DEF ResendFails, ReadRefused
    <2> QED
      BY <1>1, <1>3, <1>5, <2>1 DEF Origin
  <1>10. CASE UNCHANGED <<back, inbox, accepted, pending>>
    BY <1>1, <1>3, <1>5, <1>10 DEF Origin
  <1>11. CASE \/ Build \/ BuildFails \/ SendOK \/ SendFails \/ Resend \/ ResendExpired
              \/ Arm \/ ReadTimeout \/ DropRequest \/ Tick \/ Pause
              \/ \E t \in RivalTimes : RivalTaken(t)
    BY <1>10, <1>11 DEF Build, BuildFails, SendOK, SendFails, Resend, ResendExpired, Arm,
       ReadTimeout, DropRequest, RivalTaken, Tick, Pause, network
  <1> QED
    BY <1>4, <1>6, <1>7, <1>8, <1>9, <1>11 DEF Next, ProbeStep, NetworkStep

\* A node that has not taken the probe's initiation remembers another's.
LEMMA RemembersStep ==
    ASSUME Inv, Next
    PROVE  Remembers'
  <1>1. CASE NodeReceives
    BY <1>1 DEF NodeReceives, Inv, Remembers
  <1>2. CASE \E t \in RivalTimes : RivalTaken(t)
    BY <1>2 DEF RivalTaken, Remembers
  <1>3. CASE UNCHANGED <<accepted, latest>>
    BY <1>3 DEF Inv, Remembers
  <1> QED
    BY <1>1, <1>2, <1>3 DEF Next, ProbeStep, Build, BuildFails, SendOK, SendFails, Resend,
       ResendFails, ResendExpired, Arm, ReadDatagram, ReadRefused, ReadTimeout,
       NetworkStep, Arrives, DropRequest, DropReply, Tick, Pause, network

\* Once outrun, a probe stays outrun: the node takes nothing older.
LEMMA OutrunStays ==
    ASSUME Inv, Next, Outrun
    PROVE  Outrun' /\ accepted' = accepted
  <1>1. PICK t \in RivalTimes : latest = wgTAI64N(t) /\ NotBefore(t, Now)
    BY DEF Outrun
  <1>2. t \in Instants /\ Now \in Instants /\ \A u \in RivalTimes : u \in Instants
    BY <1>1, ExchangeAssumption
  <1>3. CASE NodeReceives
    <2>1. payload = Built /\ setting \in Settings
      BY <1>3, SettingType DEF NodeReceives, Inv, Stage
    <2>2. ~Takes
      BY <1>1, <1>2, <2>1, WhoTakes, TimestampOrder
    <2> QED
      BY <1>1, <1>3, <2>2 DEF NodeReceives, Outrun, Inv, TypeOK
  <1>4. ASSUME NEW u \in RivalTimes, RivalTaken(u)
        PROVE  Outrun' /\ accepted' = accepted
    <2>1. Newer(wgTAI64N(u), wgTAI64N(t)) /\ latest' = wgTAI64N(u) /\ accepted' = accepted
      BY <1>1, <1>4 DEF RivalTaken
    <2>2. ~NotBefore(t, u)
      BY <1>2, <2>1, TimestampOrder
    <2>3. NotBefore(u, Now)
      BY <1>1, <1>2, <2>2 DEF NotBefore, Instants
    <2> QED
      BY <2>1, <2>3 DEF Outrun
  <1>5. CASE UNCHANGED <<accepted, latest>>
    BY <1>1, <1>5 DEF Outrun
  <1> QED
    BY <1>3, <1>4, <1>5 DEF Next, ProbeStep, Build, BuildFails, SendOK, SendFails, Resend,
       ResendFails, ResendExpired, Arm, ReadDatagram, ReadRefused, ReadTimeout,
       NetworkStep, Arrives, DropRequest, DropReply, Tick, Pause, network

\* Without a pause the loop is on schedule, and over a prompt network a read
\* times out only when nothing is left to read.
LEMMA OnTimeStep ==
    ASSUME Inv, Next
    PROVE  OnTime'
  <1>1. /\ now \in Nat /\ readBy \in Nat /\ attempt \in 0 .. Attempts - 1 /\ paused \in Nat
        /\ prompt' = prompt /\ slice' = slice
    BY SettingFixed DEF Inv, TypeOK, slice
  <1>2. /\ slice \in Nat /\ slice >= 1 /\ deadline \in Nat /\ Attempts \in Nat
        /\ attempt * slice \in Nat /\ (attempt + 1) * slice \in Nat
        /\ (attempt + 1) * slice = attempt * slice + slice
        /\ (attempt + 1) * slice <= deadline
    BY <1>1, Schedule DEF deadline
  <1>3. OnTime /\ Stage
    BY DEF Inv
  <1>4. CASE Build \/ BuildFails \/ SendFails
    BY <1>4 DEF Build, BuildFails, SendFails, OnTime
  <1>5. CASE ResendFails \/ ResendExpired \/ ReadDatagram \/ ReadRefused
    BY <1>5 DEF ResendFails, ResendExpired, ReadDatagram, ReadRefused, Finish, OnTime
  <1>6. CASE SendOK
    BY <1>1, <1>2, <1>3, <1>6 DEF SendOK, OnTime, Stage, clock
  <1>7. CASE Resend
    BY <1>1, <1>2, <1>3, <1>7 DEF Resend, OnTime, clock
  <1>8. CASE Arm
    <2>1. readBy' = WaitUntil /\ pc' = "read" /\ UNCHANGED <<attempt, now, paused>>
      BY <1>8 DEF Arm, clock
    <2>2. paused = 0 => now <= attempt * slice
      BY <1>3, <1>8 DEF Arm, OnTime
    <2>3. readBy' \in Nat /\ (paused = 0 => now < readBy' /\ readBy' <= (attempt + 1) * slice)
      BY <1>1, <1>2, <2>1, <2>2 DEF WaitUntil
    <2> HIDE DEF slice
    <2> QED
      BY <1>1, <1>2, <2>1, <2>3 DEF OnTime
  <1>9. CASE ReadTimeout
    <2>1. UNCHANGED <<now, paused>> /\ pc = "read"
          /\ \/ pc' = "finished"
             \/ pc' = "write" /\ attempt' = attempt + 1
      BY <1>9 DEF ReadTimeout, Finish, clock
    <2>2. paused = 0 => now <= (attempt + 1) * slice
      BY <1>1, <1>2, <1>3, <2>1 DEF OnTime
    <2> QED
      BY <1>1, <1>2, <2>1, <2>2 DEF OnTime
  <1>10. CASE Tick
    <2>1. /\ pc = "read" /\ now < readBy /\ inbox = <<>> /\ ~pending
          /\ prompt => ~InFlight
          /\ now' = now + 1
          /\ UNCHANGED <<pc, attempt, readBy, wire, back, inbox, pending, paused>>
      BY <1>10 DEF Tick, probe, network
    <2>2. InFlight' <=> InFlight
      BY <2>1 DEF InFlight
    <2> QED
      BY <1>1, <1>2, <1>3, <2>1, <2>2 DEF OnTime
  <1>11. CASE Pause
    BY <1>1, <1>11 DEF Pause, OnTime
  <1>12. CASE \E t \in RivalTimes : RivalTaken(t)
    <2>1. UNCHANGED <<pc, attempt, readBy, wire, back, inbox, pending, paused, now>>
      BY <1>12 DEF RivalTaken, probe, clock
    <2>2. InFlight' <=> InFlight
      BY <2>1 DEF InFlight
    <2> QED
      BY <1>1, <1>3, <2>1, <2>2 DEF OnTime
  <1>13. CASE NodeReceives \/ DropRequest \/ \E d \in Datagrams : Arrives(d) \/ DropReply(d)
    <2>1. UNCHANGED <<pc, attempt, readBy, paused, now>> /\ InFlight
      BY <1>13 DEF NodeReceives, DropRequest, Arrives, DropReply, probe, clock, InFlight
    <2> QED
      BY <1>1, <1>3, <2>1 DEF OnTime
  <1> QED
    BY <1>4, <1>5, <1>6, <1>7, <1>8, <1>9, <1>10, <1>11, <1>12, <1>13
       DEF Next, ProbeStep, NetworkStep

\* Every datagram written is accounted for.
LEMMA LossesStep ==
    ASSUME Inv, Next
    PROVE  Losses'
  <1> SUFFICES ASSUME ~finished' PROVE Losses'
    BY DEF Losses
  <1>1. /\ setting' = setting /\ mode' = mode /\ node' = node /\ setting \in Settings
        /\ mode = "wg" => setting.env
    BY SettingFixed, SettingType DEF Inv
  <1>2. /\ wire \in Nat /\ back \in [Datagrams -> Nat] /\ inbox \in Seq(Datagrams \ {Icmp})
        /\ Len(inbox) \in Nat /\ drops \in Nat /\ Total(back) \in Nat
        /\ attempt \in Nat /\ Writes \in Nat
        /\ \A d \in Datagrams : back[d] \in Nat
    <2>1. back \in [Datagrams -> Nat] /\ inbox \in Seq(Datagrams \ {Icmp})
      BY Schedule DEF Inv, TypeOK
    <2>2. attempt \in Nat /\ wire \in Nat /\ drops \in Nat
      BY Schedule, ExchangeAssumption DEF Inv, TypeOK
    <2> QED
      BY <2>1, <2>2, TotalFacts DEF Writes
  <1>3. Icmp \in Datagrams /\ Own \in Datagrams /\ Own # Icmp
    BY DatagramsDistinct
  <1> DEFINE Foreign == node \in {"echo", "other"} =>
                           wire + Total(back) + Len(inbox) + drops >= Writes
  <1> DEFINE Refused == node = "closed" => pending \/ wire + back[Icmp] + drops >= Writes
  <1> DEFINE Handshake == node = "wg" /\ mode = "wg" =>
                             accepted \/ Outrun \/ wire + drops >= Writes
  <1> DEFINE Answered == accepted => \/ drops > 0 \/ back[Own] > 0
                                     \/ \E i \in 1 .. Len(inbox) : inbox[i] = Own
  <1>4. ASSUME ~finished
        PROVE  Foreign /\ Refused /\ Handshake /\ Answered
    BY <1>4 DEF Inv, Losses
  <1>5. ASSUME Foreign', Refused', Handshake', Answered'
        PROVE  Losses'
    BY <1>5 DEF Losses
  <1>6. ASSUME Outrun PROVE Outrun'
    BY <1>6, OutrunStays
  <1>7. CASE Build \/ Arm \/ ReadTimeout
    <2>1. UNCHANGED <<wire, back, inbox, drops, pending, accepted, latest>> /\ ~finished
      BY <1>7 DEF Build, Arm, ReadTimeout, network, finished
    <2>2. Writes' = Writes
      BY <1>2, <1>7 DEF Build, Arm, ReadTimeout, Finish, Writes, finished, LastAttempt
    <2>3. Total(back') = Total(back) /\ Outrun' = Outrun
      BY <2>1 DEF Outrun
    <2> QED
      BY <1>1, <1>4, <1>5, <2>1, <2>2, <2>3
  <1>8. CASE SendOK \/ Resend
    <2>1. UNCHANGED <<back, inbox, drops, pending, accepted, latest>> /\ ~finished
          /\ wire' = wire + 1
      BY <1>8 DEF SendOK, Resend, finished
    <2>2. Writes' = Writes + 1
      BY <1>2, <1>8 DEF SendOK, Resend, Writes, Inv, Stage
    <2>3. Total(back') = Total(back) /\ Outrun' = Outrun
      BY <2>1 DEF Outrun
    <2>4. Foreign'
      BY <1>1, <1>2, <1>4, <2>1, <2>2, <2>3
    <2>5. Refused'
      BY <1>1, <1>2, <1>3, <1>4, <2>1, <2>2
    <2>6. Handshake'
      BY <1>1, <1>2, <1>4, <2>1, <2>2, <2>3
    <2>7. Answered'
      BY <1>4, <2>1
    <2> QED
      BY <1>5, <2>4, <2>5, <2>6, <2>7
  <1>9. CASE NodeReceives
    <2>1. /\ UNCHANGED <<inbox, drops, pending, pc, attempt>> /\ wire > 0 /\ wire' = wire - 1
          /\ accepted' = (accepted \/ Takes)
          /\ latest' = IF Takes THEN wgTAI64N(Now) ELSE latest
      BY <1>9 DEF NodeReceives, probe
    <2>2. PICK r \in Reactions :
             back' = [d \in Datagrams |-> back[d] + (IF d \in r THEN 1 ELSE 0)]
      BY <1>9 DEF NodeReceives
    <2>3. payload = Built /\ Writes' = Writes /\ ~finished
      BY <2>1 DEF Inv, Stage, Writes, finished
    <2>4. /\ r = {} \/ \E d \in Speaks : r = {d}
          /\ node \in {"echo", "other", "closed"} => r # {}
          /\ node = "wg" => (r # {} <=> Takes)
      BY <1>1, <2>2, <2>3, WhatComesBack
    <2>5. Speaks \subseteq Datagrams
      BY <1>1, SpeaksFacts
    <2>6. r = {} \/ \E d \in Datagrams : r = {d}
      BY <2>4, <2>5
    <2>7. /\ \A x \in Datagrams : back'[x] = back[x] + (IF x \in r THEN 1 ELSE 0)
          /\ Total(back') = IF r = {} \/ r = {Icmp} THEN Total(back) ELSE Total(back) + 1
      BY <1>2, <2>2, <2>6, TotalAdded
    <2>8. Foreign'
      <3> SUFFICES ASSUME node \in {"echo", "other"} PROVE Foreign'
        BY <1>1
      <3>1. r # {} /\ r # {Icmp}
        BY <1>1, <2>4, SpeaksFacts
      <3> QED
        BY <1>1, <1>2, <1>4, <2>1, <2>3, <2>7, <3>1
    <2>9. Refused'
      <3> SUFFICES ASSUME node = "closed" PROVE Refused'
        BY <1>1
      <3>1. Icmp \in r
        BY <1>1, <2>4, SpeaksFacts
      <3>2. back'[Icmp] = back[Icmp] + 1
        BY <1>3, <2>7, <3>1
      <3> QED
        BY <1>2, <1>3, <1>4, <2>1, <2>3, <3>2
    <2>10. Handshake'
      <3> SUFFICES ASSUME node = "wg", mode = "wg", ~accepted', ~Outrun PROVE Outrun'
        BY <1>1, <1>6
      <3>1. ~Takes /\ ~accepted /\ latest' = latest
        BY <2>1
      <3>2. ~Newer(wgTAI64N(Now), latest)
        BY <1>1, <2>3, <3>1, WhoTakes
      <3>3. Now \in Instants /\ \A t \in RivalTimes : t \in Instants
        BY ExchangeAssumption
      <3>4. PICK t \in RivalTimes : latest = wgTAI64N(t)
        BY <3>1, <3>2, <3>3, TimestampOrder DEF Inv, Remembers
      <3>5. NotBefore(t, Now)
        BY <3>2, <3>3, <3>4, TimestampOrder
      <3> QED
        BY <3>1, <3>4, <3>5 DEF Outrun
    <2>11. Answered'
      <3>1. CASE Takes
        <4>1. node = "wg"
          BY <1>1, <2>3, <3>1, WhoTakes
        <4>2. Own \in r
          BY <1>1, <2>4, <3>1, <4>1, SpeaksFacts
        <4> QED
          BY <1>2, <1>3, <2>7, <4>2
      <3>2. CASE ~Takes
        <4>1. back[Own] > 0 => back'[Own] > 0
          BY <1>2, <1>3, <2>7
        <4> QED
          BY <1>4, <2>1, <2>3, <3>2, <4>1
      <3> QED
        BY <3>1, <3>2
    <2> QED
      BY <1>5, <2>8, <2>9, <2>10, <2>11
  <1>10. ASSUME NEW d \in Datagrams, Arrives(d)
         PROVE  Losses'
    <2>1. UNCHANGED <<wire, drops, pc, attempt, accepted, latest>> /\ back[d] > 0
          /\ back' = [back EXCEPT ![d] = @ - 1]
      BY <1>10 DEF Arrives, probe
    <2>2. /\ d = Icmp => pending' = TRUE /\ inbox' = inbox
          /\ d # Icmp => pending' = pending /\ inbox' = Append(inbox, d)
      BY <1>10 DEF Arrives
    <2>3. Writes' = Writes /\ ~finished /\ Outrun' = Outrun
      BY <2>1 DEF Writes, finished, Outrun
    <2>4. Total(back') = IF d = Icmp THEN Total(back) ELSE Total(back) - 1
      BY <1>2, <2>1, TotalTaken
    <2>5. Len(inbox') = IF d = Icmp THEN Len(inbox) ELSE Len(inbox) + 1
      BY <1>2, <2>2
    <2>6. Foreign'
      BY <1>1, <1>2, <1>4, <2>1, <2>3, <2>4, <2>5
    <2>7. d # Icmp => back'[Icmp] = back[Icmp]
      BY <1>2, <1>3, <2>1
    <2>8. Refused' /\ Handshake'
      BY <1>1, <1>4, <2>1, <2>2, <2>3, <2>7
    <2>9. Answered'
      <3>1. d # Own => back'[Own] = back[Own]
        BY <1>2, <1>3, <2>1
      <3>2. d = Own => Len(inbox') \in 1 .. Len(inbox') /\ inbox'[Len(inbox')] = Own
        BY <1>2, <1>3, <2>2, <2>5
      <3>3. \A i \in 1 .. Len(inbox) : i \in 1 .. Len(inbox') /\ inbox'[i] = inbox[i]
        BY <1>2, <2>2
      <3> QED
        BY <1>4, <2>1, <2>3, <3>1, <3>2, <3>3
    <2> QED
      BY <1>5, <2>6, <2>8, <2>9
  <1>11. CASE DropRequest
    <2>1. UNCHANGED <<back, inbox, pending, pc, attempt, accepted, latest>>
          /\ wire > 0 /\ wire' = wire - 1 /\ drops' = drops + 1
      BY <1>11 DEF DropRequest, probe
    <2>2. Writes' = Writes /\ ~finished /\ Outrun' = Outrun /\ Total(back') = Total(back)
      BY <2>1 DEF Writes, finished, Outrun
    <2>3. Foreign' /\ Refused' /\ Handshake' /\ Answered'
      BY <1>1, <1>2, <1>3, <1>4, <2>1, <2>2
    <2> QED
      BY <1>5, <2>3
  <1>12. ASSUME NEW d \in Datagrams, DropReply(d)
         PROVE  Losses'
    <2>1. UNCHANGED <<wire, inbox, pending, pc, attempt, accepted, latest>> /\ back[d] > 0
          /\ back' = [back EXCEPT ![d] = @ - 1] /\ drops' = drops + 1
      BY <1>12 DEF DropReply, probe
    <2>2. Writes' = Writes /\ ~finished /\ Outrun' = Outrun
      BY <2>1 DEF Writes, finished, Outrun
    <2>3. Total(back') = IF d = Icmp THEN Total(back) ELSE Total(back) - 1
      BY <1>2, <2>1, TotalTaken
    <2>4. back'[Icmp] = IF d = Icmp THEN back[Icmp] - 1 ELSE back[Icmp]
      BY <1>2, <1>3, <2>1
    <2>5. Foreign'
      BY <1>1, <1>2, <1>4, <2>1, <2>2, <2>3
    <2>6. Refused' /\ Handshake' /\ Answered'
      BY <1>1, <1>2, <1>3, <1>4, <2>1, <2>2, <2>4
    <2> QED
      BY <1>5, <2>5, <2>6
  <1>13. CASE \E t \in RivalTimes : RivalTaken(t)
    <2>1. UNCHANGED <<wire, back, inbox, drops, pending, pc, attempt, accepted>>
      BY <1>13 DEF RivalTaken, probe
    <2>2. Writes' = Writes /\ ~finished /\ Total(back') = Total(back)
      BY <2>1 DEF Writes, finished
    <2> QED
      BY <1>1, <1>4, <1>5, <1>6, <2>1, <2>2
  <1>14. CASE Tick \/ Pause
    <2>1. UNCHANGED <<wire, back, inbox, drops, pending, pc, attempt, accepted, latest>>
      BY <1>14 DEF Tick, Pause, probe, network
    <2>2. Writes' = Writes /\ ~finished /\ Total(back') = Total(back) /\ Outrun' = Outrun
      BY <2>1 DEF Writes, finished, Outrun
    <2> QED
      BY <1>1, <1>4, <1>5, <2>1, <2>2
  <1>15. ASSUME \/ BuildFails \/ SendFails \/ ResendFails \/ ResendExpired
                \/ ReadDatagram \/ ReadRefused
         PROVE  FALSE
    BY <1>15 DEF BuildFails, SendFails, ResendFails, ResendExpired, ReadDatagram,
       ReadRefused, Finish, finished
  <1> HIDE DEF Foreign, Refused, Handshake, Answered
  <1> QED
    BY <1>7, <1>8, <1>9, <1>10, <1>11, <1>12, <1>13, <1>14, <1>15
       DEF Next, ProbeStep, NetworkStep

\* FailureExplained, mode by mode.
Explained ==
    /\ mode = "udp" => ~prompt \/ paused > 0 \/ node # "echo" \/ drops >= Attempts
    /\ mode = "wg" => \/ ~prompt \/ paused > 0 \/ node # "wg" \/ drops >= Attempts
                      \/ Old \in heard \/ (accepted /\ drops > 0)
                      \/ (~accepted /\ Outrun)
    /\ mode = "anon" => \/ node \in {"closed", "echo", "other"} \/ Old \in heard
                        \/ (paused > 0 /\ now >= deadline)

LEMMA ExplainedMeans ==
    ASSUME mode \in Modes
    PROVE  FailureExplained <=> (finished /\ sendOK /\ ~respOK => Explained)
  <1>1. CASE mode = "udp"
    BY <1>1 DEF FailureExplained, Explained
  <1>2. CASE mode = "wg"
    BY <1>2 DEF FailureExplained, Explained, Outrun, NotBefore, Old
  <1>3. CASE mode = "anon"
    BY <1>3 DEF FailureExplained, Explained, Old
  <1> QED
    BY <1>1, <1>2, <1>3 DEF Modes

\* What explains a failure does not go away.
LEMMA ExplainedStays ==
    ASSUME Inv, Next, Explained
    PROVE  Explained'
  <1>1. mode' = mode /\ node' = node /\ prompt' = prompt
    BY SettingFixed
  <1>2. drops \in Nat /\ paused \in Nat /\ now \in Nat /\ deadline \in Nat /\ Attempts \in Nat
    BY Schedule, ExchangeAssumption DEF Inv, TypeOK, deadline
  <1>3. drops' = drops \/ drops' = drops + 1
    BY DEF Next, ProbeStep, Build, BuildFails, SendOK, SendFails, Resend,
       ResendFails, ResendExpired, Arm, ReadDatagram, ReadRefused, ReadTimeout,
       NetworkStep, NodeReceives, Arrives, DropRequest, DropReply, RivalTaken, Tick, Pause,
       network
  <1>4. (paused' = paused \/ paused' = paused + 1) /\ (now' = now \/ now' = now + 1)
    BY DEF Next, ProbeStep, Build, BuildFails, SendOK, SendFails, Resend,
       ResendFails, ResendExpired, Arm, ReadDatagram, ReadRefused, ReadTimeout,
       NetworkStep, NodeReceives, Arrives, DropRequest, DropReply, RivalTaken, Tick, Pause,
       clock
  <1>5. heard \subseteq heard'
    BY DEF Next, ProbeStep, Build, BuildFails, SendOK, SendFails, Resend,
       ResendFails, ResendExpired, Arm, ReadDatagram, ReadRefused, ReadTimeout,
       NetworkStep, NodeReceives, Arrives, DropRequest, DropReply, RivalTaken, Tick, Pause,
       probe
  <1>6. accepted => accepted'
    BY DEF Next, ProbeStep, Build, BuildFails, SendOK, SendFails, Resend,
       ResendFails, ResendExpired, Arm, ReadDatagram, ReadRefused, ReadTimeout,
       NetworkStep, NodeReceives, Arrives, DropRequest, DropReply, RivalTaken, Tick, Pause,
       network
  <1>7. ~accepted /\ Outrun => ~accepted' /\ Outrun'
    BY OutrunStays
  <1>8. /\ paused > 0 => paused' > 0
        /\ drops > 0 => drops' > 0
        /\ drops >= Attempts => drops' >= Attempts
        /\ now >= deadline => now' >= deadline'
    BY <1>2, <1>3, <1>4 DEF deadline
  <1> QED
    BY <1>1, <1>5, <1>6, <1>7, <1>8 DEF Explained

\* The last read times out over a prompt network without a pause: all the
\* attempts have been made and all they brought about has been lost.
LEMMA LastTimeout ==
    ASSUME Inv, pc = "read", now >= readBy, now >= deadline \/ LastAttempt,
           prompt, paused = 0
    PROVE  /\ node \in {"echo", "other", "closed"} => drops >= Attempts
           /\ node = "wg" /\ mode = "wg" => accepted \/ Outrun \/ drops >= Attempts
           /\ accepted => drops > 0
  <1>1. /\ now \in Nat /\ readBy \in Nat /\ attempt \in 0 .. Attempts - 1 /\ drops \in Nat
        /\ wire \in Nat /\ back \in [Datagrams -> Nat] /\ Attempts \in Nat
    <2>1. back \in [Datagrams -> Nat]
      BY Schedule DEF Inv, TypeOK
    <2> QED
      BY <2>1, Schedule, ExchangeAssumption DEF Inv, TypeOK
  <1>2. /\ now <= readBy /\ readBy <= (attempt + 1) * slice
        /\ ~InFlight /\ inbox = <<>> /\ ~pending
    BY DEF Inv, OnTime
  <1>3. wire = 0 /\ \A d \in Datagrams : back[d] = 0
    BY <1>1, <1>2 DEF InFlight
  <1>4. Total(back) = 0 /\ Len(inbox) = 0 /\ back[Icmp] = 0 /\ ~(back[Own] > 0)
    <2>1. Total(back) = 0
      BY <1>1, <1>3, TotalFacts
    <2>2. back[Icmp] = 0 /\ back[Own] = 0
      BY <1>3, DatagramsDistinct
    <2> QED
      BY <1>2, <2>1, <2>2
  <1>5. attempt + 1 = Attempts
    <2>1. CASE LastAttempt
      BY <2>1 DEF LastAttempt
    <2>2. CASE now >= deadline
      <3>1. /\ (attempt + 1) * slice \in Nat /\ deadline \in Nat
            /\ attempt + 1 # Attempts => (attempt + 1) * slice < deadline
        BY <1>1, Schedule DEF deadline
      <3> QED
        BY <1>1, <1>2, <2>2, <3>1
    <2> QED
      BY <2>1, <2>2
  <1>6. Writes = Attempts
    BY <1>5 DEF Writes
  <1>7. ~finished
    BY DEF finished
  <1>8. /\ node \in {"echo", "other"} =>
              wire + Total(back) + Len(inbox) + drops >= Writes
        /\ node = "closed" => pending \/ wire + back[Icmp] + drops >= Writes
        /\ node = "wg" /\ mode = "wg" => accepted \/ Outrun \/ wire + drops >= Writes
        /\ accepted => \/ drops > 0 \/ back[Own] > 0
                       \/ \E i \in 1 .. Len(inbox) : inbox[i] = Own
    BY <1>7 DEF Inv, Losses
  <1>9. node \in {"echo", "other", "closed"} => drops >= Attempts
    BY <1>1, <1>2, <1>3, <1>4, <1>6, <1>8
  <1>10. node = "wg" /\ mode = "wg" => accepted \/ Outrun \/ drops >= Attempts
    BY <1>1, <1>3, <1>6, <1>8
  <1>11. accepted => drops > 0
    BY <1>4, <1>8
  <1> QED
    BY <1>9, <1>10, <1>11

\* The verdict, when it is reached and ever after.
LEMMA VerdictsStep ==
    ASSUME Inv, Next
    PROVE  Verdicts'
  <1>1. /\ setting' = setting /\ mode' = mode /\ node' = node /\ prompt' = prompt
        /\ \A d : Accepts(d)' = Accepts(d)
        /\ setting \in Settings /\ mode \in Modes
    BY SettingFixed, SettingType DEF Inv
  <1>2. FailureExplained' <=> (finished' /\ sendOK' /\ ~respOK' => Explained')
    BY <1>1, ExplainedMeans DEF FailureExplained, finished, Explained, mode, node, prompt,
       deadline, Outrun, Old, Modes, NotBefore
  <1>3. LateIsWireGuard' <=> LateIsWireGuard
    BY <1>1 DEF LateIsWireGuard
  <1>4. ASSUME ~finished' PROVE Verdicts'
    BY <1>4 DEF Verdicts, VerdictJustified, HandshakeMeansAccepted, FailureExplained,
       RefusalDetected
  <1>5. ~finished => heard = {} /\ ~respOK
    BY DEF Inv, Stage
  <1>6. Icmp # Expired /\ \A d \in Datagrams : d # Expired
    BY DatagramsDistinct
  <1>7. CASE BuildFails \/ SendFails
    <2>1. UNCHANGED <<sendOK, respOK, heard>> /\ pc \in {"build", "send"}
      BY <1>7 DEF BuildFails, SendFails
    <2>2. ~sendOK' /\ ~respOK'
      BY <1>5, <2>1 DEF Inv, Stage, finished
    <2> QED
      BY <2>2 DEF Verdicts, VerdictJustified, HandshakeMeansAccepted, FailureExplained,
         RefusalDetected
  <1>8. CASE ResendFails \/ ReadRefused \/ ResendExpired
    <2>1. /\ ~finished /\ respOK' = FALSE
          /\ heard' = heard \cup {Icmp} \/ heard' = heard \cup {Expired}
      BY <1>8 DEF ResendFails, ReadRefused, ResendExpired, Finish, finished
    <2>2. heard' # {} /\ heard' \ {Icmp, Expired} = {}
      BY <1>5, <2>1
    <2>3. Explained
      <3>1. CASE ResendFails \/ ReadRefused
        <4>1. node = "closed"
          BY <3>1 DEF ResendFails, ReadRefused, Inv, Origin
        <4> QED
          BY <4>1 DEF Explained
      <3>2. CASE ResendExpired
        <4>1. pc = "write" /\ now >= deadline
          BY <3>2 DEF ResendExpired
        <4>2. /\ now \in Nat /\ paused \in Nat /\ attempt \in 0 .. Attempts - 1
              /\ deadline \in Nat
          BY Schedule DEF Inv, TypeOK, deadline
        <4>3. /\ attempt * slice \in Nat /\ slice \in Nat /\ slice >= 1
              /\ attempt * slice + slice <= deadline
          BY <4>2, Schedule
        <4>4. paused = 0 => now <= attempt * slice
          BY <4>1 DEF Inv, OnTime
        <4>5. paused > 0
          BY <4>1, <4>2, <4>3, <4>4
        <4> QED
          BY <4>1, <4>5 DEF Explained
      <3> QED
        BY <1>8, <3>1, <3>2
    <2>4. Explained'
      BY <2>3, ExplainedStays
    <2> QED
      BY <1>2, <2>1, <2>2, <2>4 DEF Verdicts, VerdictJustified, HandshakeMeansAccepted,
         RefusalDetected
  <1>9. CASE ReadDatagram
    <2> DEFINE d == Head(inbox)
    <2>1. /\ ~finished /\ inbox # <<>> /\ heard' = heard \cup {d} /\ pc = "read"
          /\ UNCHANGED <<sendOK, accepted, drops, now, paused>>
          /\ respOK' = (Accepts(d) \/ (mode = "anon" /\ ~~Accepts(d)))
      BY <1>9 DEF ReadDatagram, Finish, finished, clock
    <2>2. inbox \in Seq(Datagrams \ {Icmp})
      BY DEF Inv, TypeOK
    <2>3. 1 \in 1 .. Len(inbox) /\ d = inbox[1] /\ d \in Datagrams \ {Icmp}
      BY <2>1, <2>2
    <2>4. Comes(d)
      BY <2>3 DEF Inv, Origin
    <2>5. (respOK' <=> Accepts(d)) /\ heard' = {d} /\ sendOK'
      BY <1>5, <2>1 DEF Inv, Stage
    <2> HIDE DEF d
    <2>6. VerdictJustified'
      BY <1>1, <1>6, <2>3, <2>5 DEF VerdictJustified
    <2>7. HandshakeMeansAccepted'
      <3> SUFFICES ASSUME mode = "wg", Accepts(d) PROVE node = "wg" /\ accepted
        BY <1>1, <2>1, <2>5 DEF HandshakeMeansAccepted
      <3>1. d = Own
        BY <1>1, <2>3, WhatIsAccepted
      <3> QED
        BY <1>1, <2>4, <3>1, SpeaksFacts, DatagramsDistinct DEF Comes
    <2>8. ~Accepts(d) => Explained'
      <3> SUFFICES ASSUME ~Accepts(d) PROVE Explained'
        OBVIOUS
      <3>1. CASE d = Old
        BY <1>1, <2>5, <3>1, WhatIsAccepted DEF Explained, Modes
      <3>2. CASE d # Old
        <4>1. d \in Speaks
          BY <2>4, <3>2 DEF Comes
        <4>2. mode = "wg" => node # "wg"
          BY <1>1, <2>3, <4>1, WhatIsAccepted, SpeaksFacts
        <4>3. mode = "anon" => node \in {"echo", "other"}
          BY <1>1, <2>3, <4>1, WhatIsAccepted, SpeaksFacts
        <4>4. mode # "udp"
          BY <1>1, WhatIsAccepted
        <4> QED
          BY <1>1, <4>2, <4>3, <4>4 DEF Explained
      <3> QED
        BY <3>1, <3>2
    <2>9. LateIsWireGuard => RefusalDetected'
      <3> SUFFICES ASSUME LateIsWireGuard, Accepts(d),
                          node = "closed" \/ (node \in {"echo", "other"} /\ mode # "udp")
                   PROVE  FALSE
        BY <1>1, <2>5 DEF RefusalDetected
      <3>1. CASE d = Old
        <4>1. mode # "udp"
          BY <2>4, <3>1, <1>1, SpeaksFacts DEF Comes, LateIsWireGuard
        <4> QED
          BY <1>1, <2>3, <3>1, <4>1, WhatIsAccepted, DatagramsDistinct DEF Modes
      <3>2. CASE d # Old
        <4>1. d \in Speaks
          BY <2>4, <3>2 DEF Comes
        <4>2. mode # "udp"
          BY <1>1, <2>3, <4>1, SpeaksFacts
        <4>3. d \in {Own, Cookie}
          BY <1>1, <2>3, <4>2, WhatIsAccepted DEF Modes
        <4> QED
          BY <1>1, <4>1, <4>3, SpeaksFacts
      <3> QED
        BY <3>1, <3>2
    <2> QED
      BY <1>2, <1>3, <2>5, <2>6, <2>7, <2>8, <2>9 DEF Verdicts
  <1>10. CASE ReadTimeout /\ finished'
    <2>1. /\ pc = "read" /\ now >= readBy /\ (now >= deadline \/ LastAttempt)
          /\ respOK' = (FALSE \/ (mode = "anon" /\ ~FALSE))
          /\ UNCHANGED <<sendOK, heard, accepted, latest, drops, paused, now>>
      BY <1>10 DEF ReadTimeout, Finish, finished, network, clock
    <2>2. ~finished /\ heard' = {} /\ sendOK' /\ (respOK' <=> mode = "anon")
      BY <1>5, <2>1 DEF finished, Inv, Stage
    <2>3. VerdictJustified' /\ HandshakeMeansAccepted'
      BY <1>1, <2>2 DEF VerdictJustified, HandshakeMeansAccepted
    <2>4. mode # "anon" => Explained
      <3> SUFFICES ASSUME mode # "anon", prompt, ~(paused > 0) PROVE Explained
        BY DEF Explained
      <3>1. paused = 0
        BY DEF Inv, TypeOK
      <3> QED
        BY <2>1, <3>1, LastTimeout DEF Explained
    <2>5. RefusalDetected'
      <3> SUFFICES ASSUME prompt, paused = 0, ~(drops >= Attempts),
                          node \in {"closed", "echo", "other"}
                   PROVE  FALSE
        <4>1. drops \in Nat /\ Attempts \in Nat
          BY Schedule, ExchangeAssumption DEF Inv, TypeOK
        <4> QED
          BY <1>1, <2>1, <4>1 DEF RefusalDetected
      <3> QED
        BY <2>1, LastTimeout
    <2> QED
      BY <1>2, <2>2, <2>3, <2>4, <2>5, ExplainedStays DEF Verdicts
  <1>11. CASE \/ Build \/ SendOK \/ Resend \/ Arm \/ (ReadTimeout /\ ~finished')
    <2>1. ~finished'
      BY <1>11 DEF Build, SendOK, Resend, Arm, finished
    <2> QED
      BY <1>4, <2>1
  <1>12. CASE UNCHANGED probe
    <2> SUFFICES ASSUME finished' PROVE Verdicts'
      BY <1>4
    <2>1. finished /\ UNCHANGED <<pc, sendOK, respOK, heard>>
      BY <1>12 DEF probe, finished
    <2>2. VerdictJustified'
      BY <1>1, <2>1 DEF Inv, Verdicts, VerdictJustified
    <2>3. accepted => accepted'
      BY <1>12 DEF Next, ProbeStep, Build, BuildFails, SendOK, SendFails, Resend,
         ResendFails, ResendExpired, Arm, ReadDatagram, ReadRefused, ReadTimeout,
         NetworkStep, NodeReceives, Arrives, DropRequest, DropReply, RivalTaken, Tick, Pause,
         network
    <2>4. HandshakeMeansAccepted'
      BY <1>1, <2>1, <2>3 DEF Inv, Verdicts, HandshakeMeansAccepted
    <2>5. FailureExplained'
      BY <1>1, <1>2, <2>1, ExplainedMeans, ExplainedStays DEF Inv, Verdicts
    <2>6. LateIsWireGuard => RefusalDetected'
      <3>1. drops \in Nat /\ paused \in Nat /\ Attempts \in Nat
        BY Schedule, ExchangeAssumption DEF Inv, TypeOK
      <3>2. paused' = paused
        BY <2>1 DEF finished, Next, ProbeStep, Build, BuildFails, SendOK, SendFails, Resend,
           ResendFails, ResendExpired, Arm, ReadDatagram, ReadRefused, ReadTimeout,
           NetworkStep, NodeReceives, Arrives, DropRequest, DropReply, RivalTaken, Tick,
           Pause, clock
      <3>3. drops' = drops \/ drops' = drops + 1
        BY DEF Next, ProbeStep, Build, BuildFails, SendOK, SendFails, Resend,
           ResendFails, ResendExpired, Arm, ReadDatagram, ReadRefused, ReadTimeout,
           NetworkStep, NodeReceives, Arrives, DropRequest, DropReply, RivalTaken, Tick,
           Pause, network
      <3>4. drops' < Attempts => drops < Attempts
        BY <3>1, <3>3
      <3> QED
        BY <1>1, <2>1, <3>2, <3>4 DEF Inv, Verdicts, RefusalDetected
    <2> QED
      BY <1>3, <2>2, <2>4, <2>5, <2>6 DEF Verdicts
  <1>13. CASE \/ NetworkStep \/ DropRequest \/ Tick \/ Pause
              \/ \E d \in Datagrams : DropReply(d)
              \/ \E t \in RivalTimes : RivalTaken(t)
    BY <1>12, <1>13 DEF NetworkStep, NodeReceives, Arrives, DropRequest, DropReply,
       RivalTaken, Tick, Pause
  <1> QED
    BY <1>7, <1>8, <1>9, <1>10, <1>11, <1>13 DEF Next, ProbeStep

\* A stuttering step changes none of it.
LEMMA StutterInv ==
    ASSUME Inv, UNCHANGED vars
    PROVE  Inv'
  <1>1. UNCHANGED <<setting, payload, pc, attempt, readBy, sendOK, respOK, definitive,
                    heard, wire, back, inbox, pending, latest, accepted, drops,
                    now, paused, overrun>>
    BY DEF vars, probe, network, clock
  <1>2. /\ mode' = mode /\ node' = node /\ prompt' = prompt /\ Speaks' = Speaks
        /\ Built' = Built /\ \A d : Accepts(d)' = Accepts(d)
    BY SettingFixed
  <1>3. /\ Writes' = Writes /\ Total(back') = Total(back) /\ Outrun' = Outrun
        /\ InFlight' = InFlight /\ finished' = finished /\ deadline' = deadline
        /\ slice' = slice /\ LateIsWireGuard' = LateIsWireGuard
        /\ \A d : Comes(d)' = Comes(d)
    BY <1>1, <1>2 DEF Writes, Outrun, InFlight, finished, deadline, slice,
       LateIsWireGuard, Comes
  <1>4. TypeOK' /\ Remembers'
    BY <1>1 DEF Inv, TypeOK, Remembers
  <1>5. Stage' /\ Bounds' /\ Origin'
    BY <1>1, <1>2, <1>3 DEF Inv, Stage, Bounds, Origin
  <1>6. Budget' /\ OnTime'
    BY <1>1, <1>2, <1>3 DEF Inv, Budget, PhaseBudget, OnTime
  <1>7. Losses'
    BY <1>1, <1>2, <1>3 DEF Inv, Losses
  <1>8. VerdictJustified' /\ HandshakeMeansAccepted' /\ (LateIsWireGuard' => RefusalDetected')
    BY <1>1, <1>2, <1>3 DEF Inv, Verdicts, VerdictJustified, HandshakeMeansAccepted,
       RefusalDetected
  <1>9. FailureExplained'
    BY <1>1, <1>2, <1>3 DEF Inv, Verdicts, FailureExplained
  <1> QED
    BY <1>4, <1>5, <1>6, <1>7, <1>8, <1>9 DEF Inv, Verdicts

\* Every step preserves the invariant.
LEMMA NextInv == Inv /\ [Next]_vars => Inv'
  <1> SUFFICES ASSUME Inv, [Next]_vars PROVE Inv'
    OBVIOUS
  <1>1. CASE Next
    BY <1>1, TypeStep, StageStep, BoundsStep, OriginStep, BudgetStep, OnTimeStep,
       RemembersStep, LossesStep, VerdictsStep DEF Inv
  <1>2. CASE UNCHANGED vars
    BY <1>2, StutterInv
  <1> QED
    BY <1>1, <1>2

-----------------------------------------------------------------------------
(* The theorems.                                                           *)

\* The inductive invariant holds in every reachable state.
THEOREM Invariance == SafeSpec => []Inv
  BY InitInv, NextInv, PTL DEF SafeSpec

\* Type correctness: a datagram back for a datagram written, so that the
\* socket queues at most one more than there are attempts.
THEOREM TypeCorrect == SafeSpec => []TypeOK
  <1>1. Inv => TypeOK
    BY DEF Inv
  <1> QED
    BY <1>1, Invariance, PTL

\* The verdict follows from what was read, in each of the three modes.
THEOREM VerdictFollows == SafeSpec => []VerdictJustified
  <1>1. Inv => VerdictJustified
    BY DEF Inv, Verdicts
  <1> QED
    BY <1>1, Invariance, PTL

\* The retries fit inside the budget, for every timeout and every number of
\* attempts, also one that does not divide it.
THEOREM RetriesFitBudget == SafeSpec => []PhaseBudget
  <1>1. Inv => PhaseBudget
    BY DEF Inv, Budget
  <1> QED
    BY <1>1, Invariance, PTL

\* A passing handshake means that the node took this probe's initiation.
THEOREM PassMeansAccepted == SafeSpec => []HandshakeMeansAccepted
  <1>1. Inv => HandshakeMeansAccepted
    BY DEF Inv, Verdicts
  <1> QED
    BY <1>1, Invariance, PTL

\* A failed second phase has a cause outside the probe; in particular a probe
\* that is not paused, over a network that only loses, tolerates every loss
\* smaller than the number of its attempts.
THEOREM FailuresAreExplained == SafeSpec => []FailureExplained
  <1>1. Inv => FailureExplained
    BY DEF Inv, Verdicts
  <1> QED
    BY <1>1, Invariance, PTL

\* A refused port and a foreign answer fail the probe, where the late answer
\* of a setting is one to an earlier WireGuard session: proto udp has no
\* sessions and takes any late datagram for an answer.
THEOREM RefusalsAreDetected ==
    ASSUME \A c \in Cases : c.late => c.mode # "udp"
    PROVE  SafeSpec => []RefusalDetected
  <1>1. Inv => RefusalDetected
    <2> SUFFICES ASSUME Inv PROVE RefusalDetected
      OBVIOUS
    <2>1. setting \in Cases
      BY DEF Inv, TypeOK
    <2>2. LateIsWireGuard
      BY <2>1 DEF LateIsWireGuard, mode
    <2> QED
      BY <2>2 DEF Inv, Verdicts
  <1> QED
    BY <1>1, Invariance, PTL
=============================================================================
