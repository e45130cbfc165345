---------------------------- MODULE WGHandshake ----------------------------
(***************************************************************************)
(* The WireGuard handshake initiation of src/cmd/nodecheck/                *)
(* prober_wireguard.go, the answers it recognises, and the responder's     *)
(* half as the repository's own test performs it.                          *)
(*                                                                         *)
(* Cryptography is symbolic: a hash, an HMAC, a Diffie-Hellman value or a  *)
(* sealed text is a term built from its inputs, and two terms are equal    *)
(* exactly when they were built alike.  A key pair is named by its private *)
(* key.  Fields are kept, byte offsets are not; a datagram of a wrong      *)
(* length is one that is not whole.                                        *)
(***************************************************************************)
EXTENDS Integers, Sequences

Pub(key) == <<"pub", key>>

\* X25519: both sides compute the same value from a private and a public key.
ECDH(private, public) == <<"dh", {private, public[2]}>>

wgHash(parts) == <<"hash", parts>>

wgHMAC(key, data) == <<"hmac", key, data>>

wgKDF1(ck, input) == wgHMAC(wgHMAC(ck, input), <<"01">>)

\* The new chaining key and the key to seal with.
wgKDF2(ck, input) == LET temp == wgHMAC(ck, input)
                         k1   == wgHMAC(temp, <<"01">>)
                     IN  <<k1, wgHMAC(temp, <<k1, "02">>)>>

\* Sealed under a key for which the nonce is always zero.
wgSeal(key, plaintext, aad) == [key |-> key, plaintext |-> plaintext, aad |-> aad]

\* Seconds and nanoseconds, most significant first: the two words of
\* 0x400000000000000a + Unix time, then the nanoseconds.
wgTAI64N(now) == <<2^30, 10 + now[1], now[2]>>

\* memcmp on two timestamps.
Newer(a, b) == \E i \in DOMAIN a : a[i] > b[i] /\ \A j \in 1 .. i - 1 : a[j] = b[j]

\* No timestamp has been seen.
NoTimestamp == <<0, 0, 0>>

\* Mutant: the hash is not carried on over encrypted_static.
MutbuildWGInitiation(peer, static, eph, senderIndex, now) ==
    LET ck0 == wgHash(<<"construction">>)
        h0  == wgHash(<<wgHash(<<ck0, "identifier">>), peer>>)
        h1  == wgHash(<<h0, Pub(eph)>>)
        k1  == wgKDF2(wgKDF1(ck0, Pub(eph)), ECDH(eph, peer))
        k2  == wgKDF2(k1[1], ECDH(static, peer))
        msg == [type |-> "initiation", sender |-> senderIndex,
                ephemeral |-> Pub(eph),
                encrypted_static    |-> wgSeal(k1[2], Pub(static), h1),
                encrypted_timestamp |-> wgSeal(k2[2], wgTAI64N(now), h1)]
    IN  [msg |-> msg, mac1 |-> wgHMAC(wgHash(<<"mac1----", peer>>), msg)]

\* The initiation of one probe: to the public key peer, from the private key
\* static, with a fresh ephemeral key and sender index.  mac2 is always zero.
buildWGInitiation(peer, static, eph, senderIndex, now) ==
    LET ck0 == wgHash(<<"construction">>)
        h0  == wgHash(<<wgHash(<<ck0, "identifier">>), peer>>)
        h1  == wgHash(<<h0, Pub(eph)>>)
        k1  == wgKDF2(wgKDF1(ck0, Pub(eph)), ECDH(eph, peer))
        encryptedStatic == wgSeal(k1[2], Pub(static), h1)
        h2  == wgHash(<<h1, encryptedStatic>>)
        k2  == wgKDF2(k1[1], ECDH(static, peer))
        msg == [type |-> "initiation", sender |-> senderIndex,
                ephemeral |-> Pub(eph),
                encrypted_static    |-> encryptedStatic,
                encrypted_timestamp |-> wgSeal(k2[2], wgTAI64N(now), h2)]
    IN  [msg |-> msg, mac1 |-> wgHMAC(wgHash(<<"mac1----", peer>>), msg)]

-----------------------------------------------------------------------------
(* The responder's half.                                                   *)

\* aead.Open: the plaintext, if the key and the additional data are right.
Opened(key, sealed, aad) ==
    IF sealed.key = key /\ sealed.aad = aad THEN {sealed.plaintext} ELSE {}

\* The n outputs of the Noise HKDF, each chained to the one before.
KDF(ck, input) == LET temp  == wgHMAC(ck, input)
                      first == wgHMAC(temp, <<"01">>)
                  IN  <<first, wgHMAC(temp, <<first, "02">>)>>

\* Who sent the initiation and when, for a responder that can decrypt it.
consumeInitiation(responder, packet) ==
    LET ck  == wgHash(<<"construction">>)
        h   == wgHash(<<wgHash(<<wgHash(<<ck, "identifier">>), Pub(responder)>>),
                        packet.msg.ephemeral>>)
        k1  == KDF(KDF(ck, packet.msg.ephemeral)[1],
                   ECDH(responder, packet.msg.ephemeral))
        Times(staticPub) ==
            Opened(KDF(k1[1], ECDH(responder, staticPub))[2],
                   packet.msg.encrypted_timestamp,
                   wgHash(<<h, packet.msg.encrypted_static>>))
    IN  UNION {{[static |-> s, timestamp |-> t] : t \in Times(s)} :
                 s \in Opened(k1[2], packet.msg.encrypted_static, h)}

\* "a responder silently discards any packet whose mac1 does not check out".
MAC1OK(responder, packet) ==
    /\ packet.msg.type = "initiation"
    /\ packet.mac1 = wgHMAC(wgHash(<<"mac1----", Pub(responder)>>), packet.msg)

-----------------------------------------------------------------------------
(* What comes back.  The receiver index is that of a response only.        *)

Reply(type, whole, receiver) == [type |-> type, whole |-> whole, receiver |-> receiver]

\* Mutant: the receiver index is not compared.
MutvalidateResponse(senderIndex, reply) == reply.type = "response" /\ reply.whole

\* Type 2, of the right length, for our session.  A cookie reply, an empty
\* datagram and everything else are errors.
validateResponse(senderIndex, reply) == /\ reply.type = "response"
                                        /\ reply.whole
                                        /\ reply.receiver = senderIndex

\* A cookie reply of the right length counts as an answer.
acceptAnonymous(senderIndex, reply) ==
    validateResponse(senderIndex, reply) \/ (reply.type = "cookie" /\ reply.whole)
=============================================================================
