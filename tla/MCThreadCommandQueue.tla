------------------------ MODULE MCThreadCommandQueue ------------------------
(* Threads that push calls of two sizes, waited for and not, into a buffer *)
(* that has room for two of the larger and one of the smaller.             *)
EXTENDS ThreadCommandQueue

CONSTANTS p1, p2, p3

ThreeProducers == {p1, p2, p3}
TwoSizes == { [Size |-> 24, WaitFlag |-> TRUE], [Size |-> 40, WaitFlag |-> FALSE] }
OneSize == { [Size |-> 40, WaitFlag |-> FALSE] }
=============================================================================
