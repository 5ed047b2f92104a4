-------------------------- MODULE MCManagerLoop --------------------------
EXTENDS ManagerLoop, TLC
=============================================================================
