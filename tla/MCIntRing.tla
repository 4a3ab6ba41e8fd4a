------------------------------ MODULE MCIntRing ------------------------------
(* IntRing with the kernel's frames, for TLC.                              *)
EXTENDS IntRing

CONSTANTS controlled, uncontrolled

\* GAMBIT_FLOW_CONTROLLED_LEN, and a short ring for the rest.
Sizes == [r \in Rings |-> IF r = controlled THEN 10 ELSE 7]

\* IDE: the controller.  Keyboard: a scan code.  UART: the port and one of
\* two causes, 0 and 4.
KernelFrames == [r \in Rings |-> IF r = controlled
                                 THEN {<<3, 1, 0>>, <<3, 1, 1>>}
                                 ELSE {<<1, 1, 0>>, <<2, 2, 1, 0>>, <<2, 2, 1, 4>>}]

=============================================================================
