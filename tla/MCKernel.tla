------------------------------ MODULE MCKernel ------------------------------
(* Small instances of Kernel: two processors, so that liveness can be checked *)
(* as well; the proofs of KernelProofs are for any number.                    *)
EXTENDS Kernel

CONSTANTS bsp, ap1

TwoCpus == {bsp, ap1}
=============================================================================
