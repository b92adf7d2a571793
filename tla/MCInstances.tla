----------------------------- MODULE MCInstances -----------------------------
(* A small instance of Instances: configurations on both sides of the bounds
   the check draws, of which four are accepted. *)
EXTENDS Instances, TLC

Good == [Defaults EXCEPT !.CERT_CHAIN_PEM = "good", !.DH_PARAMS_PEM = "good"]

\* Accepted: on the default port, on another port and deaf to signals, on a port
\* of which another program holds version 6, and without a file OpenSSL needs.
MCUsable == {Good,
             [Good EXCEPT !.PORT = 1025, !.CLOSE_ON_SIGINT = 0,
                          !.MAX_HANDLERS = 32, !.BUFFER_SIZE = MinBuffer],
             [Good EXCEPT !.PORT = 1026],
             [Good EXCEPT !.DH_PARAMS_PEM = "missing"]}

MCRefused == {Defaults,
              [Good EXCEPT !.CERT_CHAIN_PEM = "missing"],
              [Good EXCEPT !.PORT = 1024],
              [Good EXCEPT !.BACKLOG = 128],
              [Good EXCEPT !.TIMEOUT = 0],
              [Good EXCEPT !.TIMEOUT = 301],
              [Good EXCEPT !.REUSE_TIME = 19, !.TIMEOUT = 19],
              [Good EXCEPT !.MAX_HANDLERS = 15],
              [Good EXCEPT !.MAX_HANDLERS = 33],
              [Good EXCEPT !.FLOW_CONTROL = 0, !.MAX_HANDLERS = 0],
              [Good EXCEPT !.ACKNOWLEDGE = 0, !.RETRIES = 0],
              [Good EXCEPT !.BUFFER_SIZE = MinBuffer - 1]}

\* Instances differ in nothing but their names.
MCSymmetry == Permutations(Chirps)

MCOffered == MCUsable \cup MCRefused
MCOutside == {<<1026, "v6">>}
MCNone    == {}
=============================================================================
