----------------------------- MODULE MCAccounts -----------------------------
(* Small instances of Accounts for TLC.                                       *)
EXTENDS Accounts, TLC

CONSTANTS u1, u2, manager, r1, r2, r3

StaffRoles == {"OWNER", "CUSTOMER", manager}
Seeded == {"OWNER", "CUSTOMER"}
\* Managers look after employees and roles.
ManagersRun ==
    [x \in StaffRoles |->
        IF x = manager THEN {"employees.create", "employees.update", "roles.create", "roles.delete"}
        ELSE {}]
OneToken == {1}
Symmetry == Permutations(Requests)
=============================================================================
