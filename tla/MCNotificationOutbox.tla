------------------------ MODULE MCNotificationOutbox ------------------------
(* Small instances of NotificationOutbox for TLC.                             *)
EXTENDS NotificationOutbox, TLC

CONSTANTS u1, u2, u3, d1, d2

OneEvent == {1}
TwoEvents == {1, 2}

StaffOnly == [e \in Events |-> Permission]
CustomerOnly == [e \in Events |-> u3]

Symmetry == Permutations(Passes) \cup Permutations(StaffUsers)
=============================================================================
