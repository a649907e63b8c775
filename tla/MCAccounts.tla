----------------------------- MODULE MCAccounts -----------------------------
(* Instances of Accounts for TLC.                                          *)
EXTENDS Accounts, TLC

\* A role that is not seeded.
MCSeeded == {"USER", "SUPER_ADMIN"}
MCRoles  == MCSeeded \cup {"AUDITOR"}

Change(e, r, a) == [email |-> e, role |-> r, active |-> a]

\* One field, two and three of them; with each kind of role; to what may be so already.
MCUpdates == {
    Change(Keep, Keep, FALSE), Change(Keep, "USER", Keep), Change("e2", Keep, Keep),
    Change(Keep, "SUPER_ADMIN", TRUE), Change(Keep, "AUDITOR", Keep),
    Change("e2", "AUDITOR", Keep), Change("e1", "AUDITOR", FALSE), Change("e1", "USER", TRUE) }

Symmetry == Permutations(Handlers) \cup Permutations(Backends)
=============================================================================
