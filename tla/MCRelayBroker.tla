---------------------------- MODULE MCRelayBroker ----------------------------
(* Model values for the relay broker.  Connections and requests are         *)
(* interchangeable.                                                         *)
EXTENDS RelayBroker, TLC

Symmetry == Permutations(Conn) \cup Permutations(Req)

=============================================================================
