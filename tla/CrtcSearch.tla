----------------------------- MODULE CrtcSearch -----------------------------
(***************************************************************************)
(* modeset_find_crtc(), the same in every drm-howto program: which CRTC a  *)
(* connector gets, given those the outputs already on the list use.        *)
(*                                                                         *)
(* A CRTC is its index in res->crtcs.  What the kernel reports of a        *)
(* connector is a record: bound, the CRTC its current encoder is on (or    *)
(* NoCrtc), and encoders, for each of its encoders the set of CRTCs that   *)
(* encoder can be put on (possible_crtcs).                                 *)
(***************************************************************************)
EXTENDS Naturals, Sequences, FiniteSetsExt

CONSTANT NumCrtc    \* res->count_crtcs

Crtc   == 0 .. NumCrtc - 1
NoCrtc == NumCrtc

\* The CRTCs some encoder of the connector can be put on.
Drives(conn) == UNION {conn.encoders[i] : i \in DOMAIN conn.encoders}

ConnectorsWith(Encoders) ==
  {conn \in [bound : Crtc \cup {NoCrtc}, encoders : Encoders] :
     conn.bound # NoCrtc => conn.bound \in Drives(conn)}

\* The second half: the first encoder, of those drmModeGetEncoder() returned,
\* that some unused CRTC works with, and of these the first CRTC.
FirstEncoderOnly(conn, used, got) ==                      \* stops after one
  LET free == IF 1 \in got THEN conn.encoders[1] \ used ELSE {}
  IN  IF free = {} THEN NoCrtc ELSE Min(free)
FirstUnused(conn, used, got) ==                           \* any encoder will do
  LET free == Crtc \ used
  IN  IF free = {} THEN NoCrtc ELSE Min(free)
FirstFree(conn, used, got) ==
  LET usable == {i \in got : conn.encoders[i] \ used # {}}
  IN  IF usable = {} THEN NoCrtc ELSE Min(conn.encoders[Min(usable)] \ used)

\* The first half keeps the current encoder's CRTC if no other output uses it.
BoundUnchecked(conn, used) == conn.bound # NoCrtc         \* does not look
BoundFree(conn, used) == conn.bound # NoCrtc /\ conn.bound \notin used

FindCrtc(conn, used, got) ==
  IF BoundFree(conn, used) THEN conn.bound ELSE FirstFree(conn, used, got)

============================================================================
