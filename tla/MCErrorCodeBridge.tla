-------------------------- MODULE MCErrorCodeBridge --------------------------
EXTENDS ErrorCodeBridge

\* A domain below zero, which a configuration cannot write.
WithNegative == {-1, 0}
=============================================================================
