---------------------------- MODULE MCUnwindArm ----------------------------
EXTENDS UnwindArm, TLC
=============================================================================
