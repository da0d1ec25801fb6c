------------------------------ MODULE MCBringup ------------------------------
EXTENDS Bringup
=============================================================================
