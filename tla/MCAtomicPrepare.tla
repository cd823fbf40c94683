-------------------------- MODULE MCAtomicPrepare --------------------------
(***************************************************************************)
(* AtomicPrepare with two or three connectors and two CRTCs.  Each CRTC    *)
(* has a primary plane of its own and there is an overlay plane that works *)
(* with both, listed first or last, or a primary plane works with both.    *)
(***************************************************************************)
EXTENDS AtomicPrepare

OneEncoder == [1 .. 1 -> SUBSET Crtc]

Primary(c) == [primary |-> TRUE, crtcs |-> {c}]
Overlay    == [primary |-> FALSE, crtcs |-> Crtc]
Shared     == [primary |-> TRUE, crtcs |-> Crtc]
UsualPlanes ==
  {<<Primary(0), Primary(1), Overlay>>, <<Overlay, Primary(1), Primary(0)>>,
   <<Shared, Primary(1)>>}

============================================================================
