---------------------------- MODULE MCFleetLock ----------------------------
EXTENDS MachineState, TLC

CONSTANTS a, b, c, o, u
=============================================================================
