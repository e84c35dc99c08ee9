----------------------------- MODULE MCLockdown -----------------------------
EXTENDS Lockdown
=============================================================================
