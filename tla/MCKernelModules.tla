--------------------------- MODULE MCKernelModules ---------------------------
(***************************************************************************)
(* The kernel modules with two files: one may be closed while the other is *)
(* being opened.                                                           *)
(***************************************************************************)
EXTENDS KernelModules

CONSTANTS f1, f2

TwoFiles == {f1, f2}

=============================================================================
