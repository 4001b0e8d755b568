----------------------------- MODULE MCMembership -----------------------------
EXTENDS Membership

\* Members but the founder and cases are interchangeable in every property; the
\* requests are too, but the liveness property rules a SYMMETRY set out.
=============================================================================
