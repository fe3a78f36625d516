---------------------------- MODULE MCMockCredits ----------------------------
(* MockCredits on small instances. *)
EXTENDS MockCredits

\* A negative charge, nothing to charge, a charge the credits can cover and
\* one they cannot.
MCCharge == {-1, 0, 1, 3}

\* Two grants, and an amount that takes credit away.
MCGrant == {-1, 1, 2}

\* In threads: a negative charge, and one that no grant covers.
MCChargeThreaded == {-1, 2}
==============================================================================
