---------------------------- MODULE MCNodeCheck ----------------------------
(***************************************************************************)
(* Two rounds on each of these files: a mixed fleet with two targets of    *)
(* one name; the two flavours of wireguard with an address that lacks its  *)
(* port; files with one target its prober rejects, for each reason; one    *)
(* with an unknown proto; an empty one.                                    *)
(***************************************************************************)
EXTENDS NodeCheck

MCParams == [known |-> TRUE, payload |-> FALSE, payload_hex |-> "none",
             public_key |-> "good", attempts |-> 0, allow_anonymous |-> FALSE]

T(name, addr, proto) == [name |-> name, addr |-> addr, sni |-> "", proto |-> proto,
                         ported |-> TRUE, params |-> MCParams]

Mixed == <<T(2, "a", ""), [T(1, "b", "tls") EXCEPT !.sni = "site"],
           [T(1, "c", "udp") EXCEPT !.params.attempts = 10]>>

Guards == <<[T(2, "d", "wireguard") EXCEPT !.params.allow_anonymous = TRUE],
            T(1, "e", "wireguard"), [T(3, "f", "") EXCEPT !.ported = FALSE]>>

BadParams == {[MCParams EXCEPT !.known = FALSE],
              [MCParams EXCEPT !.payload = TRUE, !.payload_hex = "good"],
              [MCParams EXCEPT !.payload_hex = "bad"],
              [MCParams EXCEPT !.attempts = 11],
              [MCParams EXCEPT !.attempts = -1]}

Rejected == {[T(2, "c", "udp") EXCEPT !.params = p] : p \in BadParams}
            \cup {[T(2, "e", "wireguard") EXCEPT !.params.public_key = "none"],
                  T(2, "", "udp"), T(2, "g", "quic")}

MCFiles == {Mixed, Guards, <<>>} \cup {<<T(1, "a", ""), t>> : t \in Rejected}

MCCommands == Command
=============================================================================
