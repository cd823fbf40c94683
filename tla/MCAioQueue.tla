----------------------------- MODULE MCAioQueue -----------------------------
(***************************************************************************)
(* AioQueue with three iocbs: AioQueueFaults.cfg.                          *)
(***************************************************************************)
EXTENDS AioQueue

============================================================================
