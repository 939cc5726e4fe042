------------------------------- MODULE MCRelay -------------------------------
(* Small instances of Relay.                                               *)
EXTENDS RelayInvariant, TLC

CONSTANTS s1, s2, s3, s4, c1, c2, dHost, dGuest

FourSockets == {s1, s2, s3, s4}
ThreeSockets == {s1, s2, s3}

FourSymmetry == Permutations(FourSockets) \cup Permutations({c1, c2})

=============================================================================
