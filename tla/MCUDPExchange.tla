--------------------------- MODULE MCUDPExchange ---------------------------
(***************************************************************************)
(* Three attempts, as by default, in a phase of seven ticks, so that the   *)
(* slices do not divide the timeout evenly.  Every mode meets every kind   *)
(* of node it can tell apart, over a network that delays at will and over  *)
(* one that only loses.                                                    *)
(***************************************************************************)
EXTENDS UDPExchange

Setting(m, n, p, e, l) == [mode |-> m, node |-> n, prompt |-> p, env |-> e, late |-> l]

Responders == {"wg", "loaded", "stranger", "rekeyed"}

MCCases ==
    UNION {   {Setting("udp", n, p, FALSE, FALSE) : n \in {"silent", "echo", "closed"}}
       \cup {Setting(m, n, p, TRUE, FALSE) :
                m \in {"wg", "anon"},
                n \in {"silent", "closed", "echo", "other"} \cup Responders}
       \cup {Setting("anon", "wg", p, FALSE, FALSE)}
       \cup {Setting(m, n, p, TRUE, TRUE) : m \in {"wg", "anon"}, n \in {"wg", "stranger"}}
       : p \in BOOLEAN}

MCNow == <<2, 3>>

\* An older instant with more nanoseconds, and a clock that runs ahead.
MCRivals == {<<1, 9>>, <<3, 0>>}

MCHandshake == {Setting("wg", "wg", TRUE, TRUE, FALSE)}
=============================================================================
