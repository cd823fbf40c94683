------------------------------ MODULE DrmCrtc ------------------------------
(***************************************************************************)
(* The kernel's side of a double-buffered DRM output, as the drm-howto     *)
(* programs use it (drmModeSetCrtc, drmModePageFlip, an atomic commit,     *)
(* drmHandleEvent's read).  It is external to the repository: what is      *)
(* modelled is what the programs rely on and their comments describe.      *)
(*                                                                         *)
(* Every output owns one CRTC and two framebuffers, 0 and 1.  A CRTC scans *)
(* out one framebuffer; a page flip replaces it at the next vertical blank *)
(* and then posts one event on the DRM file descriptor.                    *)
(***************************************************************************)
EXTENDS Naturals

CONSTANT Output     \* the outputs: a connector with the CRTC found for it

VARIABLES
  scanout,          \* scanout[o]: the buffer o's CRTC displays, or Saved or Off
  flip,             \* flip[o]: the buffer queued for the next vblank, or NoFlip
  events            \* events[o]: flip events of o posted and not yet read

crtcVars == <<scanout, flip, events>>

Buf    == {0, 1}
Saved  == 2         \* the configuration the CRTC had before the program started
Off    == 3         \* no framebuffer: the CRTC is disabled
NoFlip == 2

CrtcTypeOK ==
  /\ scanout \in [Output -> Buf \cup {Saved, Off}]
  /\ flip    \in [Output -> Buf \cup {NoFlip}]
  /\ events  \in [Output -> Nat]

CrtcInit ==
  /\ scanout = [o \in Output |-> Saved]
  /\ flip    = [o \in Output |-> NoFlip]
  /\ events  = [o \in Output |-> 0]

\* drmModeSetCrtc: the configuration changes at once.
SetCrtc(o, b) == scanout' = [scanout EXCEPT ![o] = b]

\* A flip is accepted when no flip is queued (else EBUSY) and the CRTC is on.
CanFlip(o) == flip[o] = NoFlip /\ scanout[o] # Off

PageFlip(o, b) ==
  /\ CanFlip(o)
  /\ flip' = [flip EXCEPT ![o] = b]

\* The vertical blank of o's CRTC completes the flip and posts its event.
\* A CRTC disabled in the meantime stays off, and the event still comes.
Vblank(o) ==
  /\ flip[o] # NoFlip
  /\ scanout' = [scanout EXCEPT ![o] = IF @ = Off THEN Off ELSE flip[o]]
  /\ flip'    = [flip EXCEPT ![o] = NoFlip]
  /\ events'  = [events EXCEPT ![o] = @ + 1]

\* The event queue, drained: one read returns every event posted so far.
NoEvents == [o \in Output |-> 0]
Readable == \E o \in Output : events[o] > 0

============================================================================
