------------------------- MODULE MCStreamTransport --------------------------
(***************************************************************************)
(* Instances of StreamTransport for TLC.                                   *)
(***************************************************************************)
EXTENDS StreamTransport, TLC

CONSTANTS o1, o2

AllKinds == {"event", "terminal", "malformed"}
WellFormedKinds == {"event", "terminal"}
SecondEvent == {2}
ObserverSymmetry == Permutations(Observers)

=============================================================================
