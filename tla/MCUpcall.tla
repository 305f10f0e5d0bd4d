------------------------------ MODULE MCUpcall ------------------------------
\* The program returns from its faults, is nested two deep, and runs out of
\* exception stack at the third.
EXTENDS Upcall
=============================================================================
