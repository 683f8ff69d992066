--------------------------- MODULE MCVerifyLaunch ---------------------------
EXTENDS VerifyLaunch
=============================================================================
