------------------------------ MODULE KmsRoutes ------------------------------
(***************************************************************************)
(* What the legacy mode-setting calls do to the display: which CRTC each   *)
(* connector is routed to, and which framebuffer each CRTC shows.  This is *)
(* the kernel, as the drm-howto programs rely on it.  A display is a       *)
(* record: route, by connector, and shows, by CRTC.                        *)
(***************************************************************************)
EXTENDS CrtcSearch

CONSTANT NumConnector   \* res->count_connectors

Connector == 1 .. NumConnector

\* Framebuffers: one a program made for a connector, the one a CRTC showed
\* before, or none.
Fb(c, b) == <<"fb", c, b>>
Old(x)   == <<"old", x, 0>>
Off      == <<"off", 0, 0>>
Framebuffers(bufs) ==
  ({"fb"} \X Connector \X bufs) \cup ({"old"} \X Crtc \X {0}) \cup {Off}

Displays(bufs) ==
  [route : [Connector -> Crtc \cup {NoCrtc}],
   shows : [Crtc -> Framebuffers(bufs)]]

\* A CRTC is on if some connector is routed to it.
Initially(route) ==
  [route |-> route,
   shows |-> [x \in Crtc |-> IF \E c \in Connector : route[c] = x
                             THEN Old(x) ELSE Off]]

\* drmModeSetCrtc(x, fb, {c}): c is taken from where it was, the connectors
\* that were on x are turned off, and so is a CRTC left without connectors.
SetCrtc(d, x, fb, c) ==
  LET route == [e \in Connector |-> IF e = c THEN x
                                    ELSE IF d.route[e] = x THEN NoCrtc
                                    ELSE d.route[e]]
  IN  [route |-> route,
       shows |-> [y \in Crtc |-> IF y = x THEN fb
                                 ELSE IF \E e \in Connector : route[e] = y
                                 THEN d.shows[y] ELSE Off]]

\* drmModeRmFB, and the end of the program, turn off what shows the framebuffer.
Remove(d, fbs) ==
  [route |-> [c \in Connector |->
                IF d.route[c] \in Crtc /\ d.shows[d.route[c]] \in fbs
                THEN NoCrtc ELSE d.route[c]],
   shows |-> [x \in Crtc |-> IF d.shows[x] \in fbs THEN Off ELSE d.shows[x]]]

==============================================================================
