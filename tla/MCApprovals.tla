----------------------------- MODULE MCApprovals -----------------------------
\* Approvals on small instances.
EXTENDS Approvals, TLC
=============================================================================
