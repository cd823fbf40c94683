---------------------------- MODULE VsyncPrepare ----------------------------
(***************************************************************************)
(* modeset_prepare() of modeset-vsync.c: one device per usable connector,  *)
(* with a CRTC of its own and two mapped framebuffers, and the unwinding   *)
(* when a call fails half-way; then main()'s end, which gives it all back. *)
(* The same functions, line for line, make modeset-double-buffered.c.      *)
(***************************************************************************)
EXTENDS CrtcSearch

CONSTANTS
  NumConnector,     \* res->count_connectors
  Encoders          \* the encoder lists a connector may have

ASSUME PrepareAssumption ==
  /\ NumCrtc \in Nat /\ NumConnector \in Nat
  /\ Encoders \subseteq Seq(SUBSET Crtc)

VARIABLES
  calls_fail,       \* whether calls on the DRM descriptor may fail in this run
  conns,            \* what the kernel reports of each connector
  i,                \* the connector modeset_prepare() is at
  step,             \* what it does next with that connector
  buf,              \* the framebuffer modeset_create_fb() is making
  crtc,             \* the crtc of each device
  modeset_list,     \* the connectors whose device is linked into the list
  held              \* held[c]: what the device of c holds of each buffer

card == <<calls_fail, conns>>
vars == <<card, i, step, buf, crtc, modeset_list, held>>

Connector == 1 .. NumConnector
Buf       == {0, 1}
Resource  == {"handle", "fb", "map"} \X Buf
OfBuf(b)  == {"handle", "fb", "map"} \X {b}

Steps == {"connector", "crtc", "dumb", "addfb", "map", "cleanup", "done"}

TypeOK ==
  /\ calls_fail \in BOOLEAN
  /\ conns \in [Connector -> ConnectorsWith(Encoders)]
  /\ i \in 1 .. NumConnector + 1
  /\ step \in Steps
  /\ buf \in Buf
  /\ crtc \in [Connector -> Crtc \cup {NoCrtc}]
  /\ modeset_list \subseteq Connector
  /\ held \in [Connector -> SUBSET Resource]

Init ==
  /\ calls_fail \in BOOLEAN
  /\ conns \in [Connector -> ConnectorsWith(Encoders)]
  /\ i = 1
  /\ step = "connector"
  /\ buf = 0
  /\ crtc = [c \in Connector |-> NoCrtc]
  /\ modeset_list = {}
  /\ held = [c \in Connector |-> {}]

\* The CRTCs that are taken: those of the devices on the list.
UsedNewest == {crtc[c] : c \in modeset_list \cap {i - 1}} \* only the list's head
Used == {crtc[c] : c \in modeset_list}

----------------------------------------------------------------------------
(* modeset_prepare(): the loop over the connectors *)

MoreOffByOne == i <= NumConnector + 1                     \* <= for <
More == i <= NumConnector

\* No monitor, no mode, or drmModeGetConnector() fails: continue.
SkipConnector ==
  /\ step = "connector" /\ More
  /\ i' = i + 1
  /\ UNCHANGED <<card, step, buf, crtc, modeset_list, held>>

TakeConnector ==
  /\ step = "connector" /\ More
  /\ step' = "crtc"
  /\ UNCHANGED <<card, i, buf, crtc, modeset_list, held>>

EndPrepare ==
  /\ step = "connector" /\ ~More
  /\ step' = "cleanup"
  /\ UNCHANGED <<card, i, buf, crtc, modeset_list, held>>

----------------------------------------------------------------------------
(* modeset_setup_dev() *)

\* modeset_setup_dev() fails: the device is freed, on to the next connector.
DropDevice ==
  /\ i' = i + 1
  /\ step' = "connector"

\* The encoders drmModeGetEncoder() returns.
Got == IF calls_fail THEN SUBSET (DOMAIN conns[i].encoders)
                    ELSE {DOMAIN conns[i].encoders}

\* modeset_find_crtc().  If the current encoder cannot be retrieved, the
\* connector counts as unbound.
SetupCrtc ==
  /\ step = "crtc"
  /\ \E got \in Got, c \in {conns[i]} \cup
        (IF calls_fail THEN {[conns[i] EXCEPT !.bound = NoCrtc]} ELSE {}) :
       LET found == FindCrtc(c, Used, got)
       IN  /\ crtc' = [crtc EXCEPT ![i] = found]
           /\ IF found = NoCrtc THEN DropDevice
                                ELSE step' = "dumb" /\ UNCHANGED i
  /\ buf' = 0
  /\ UNCHANGED <<card, modeset_list, held>>

\* A call of modeset_create_fb() fails and jumps to a label that undoes what
\* the function has done (made) to the buffer; modeset_setup_dev() destroys the
\* first framebuffer if it was the second that failed.
KeepsFirst(made) == held' = [held EXCEPT ![i] = @ \ (made \X {buf})]
Unwind(made) ==
  held' = [held EXCEPT ![i] =
             (@ \ (made \X {buf})) \ (IF buf = 1 THEN OfBuf(0) ELSE {})]

FailFb(made) ==
  /\ calls_fail
  /\ Unwind(made)
  /\ DropDevice
  /\ UNCHANGED buf

Acquire(kind) == held' = [held EXCEPT ![i] = @ \cup {<<kind, buf>>}]

\* DRM_IOCTL_MODE_CREATE_DUMB
CreateDumb ==
  /\ step = "dumb"
  /\ \/ Acquire("handle") /\ step' = "addfb" /\ UNCHANGED <<i, buf>>
     \/ FailFb({})
  /\ UNCHANGED <<card, crtc, modeset_list>>

\* drmModeAddFB; err_destroy
AddFB ==
  /\ step = "addfb"
  /\ \/ Acquire("fb") /\ step' = "map" /\ UNCHANGED <<i, buf>>
     \/ FailFb({"handle"})
  /\ UNCHANGED <<card, crtc, modeset_list>>

\* DRM_IOCTL_MODE_MAP_DUMB and mmap; err_fb.  The second buffer completes the
\* device, which is linked into the list.
MapBuffer ==
  /\ step = "map"
  /\ \/ /\ Acquire("map")
        /\ IF buf = 0
             THEN step' = "dumb" /\ buf' = 1 /\ UNCHANGED <<i, modeset_list>>
             ELSE /\ step' = "connector" /\ i' = i + 1
                  /\ modeset_list' = modeset_list \cup {i}
                  /\ UNCHANGED buf
     \/ FailFb({"fb", "handle"}) /\ UNCHANGED modeset_list
  /\ UNCHANGED <<card, crtc>>

----------------------------------------------------------------------------
(* modeset_cleanup(): both framebuffers of every device are destroyed *)

DestroyDevice(c) ==
  /\ step = "cleanup" /\ c \in modeset_list
  /\ held' = [held EXCEPT ![c] = (@ \ OfBuf(0)) \ OfBuf(1)]
  /\ modeset_list' = modeset_list \ {c}
  /\ UNCHANGED <<card, i, step, buf, crtc>>

Exit ==
  /\ step = "cleanup" /\ modeset_list = {}
  /\ step' = "done"
  /\ UNCHANGED <<card, i, buf, crtc, modeset_list, held>>

----------------------------------------------------------------------------

Next ==
  \/ SkipConnector
  \/ TakeConnector
  \/ EndPrepare
  \/ SetupCrtc
  \/ CreateDumb
  \/ AddFB
  \/ MapBuffer
  \/ \E c \in Connector : DestroyDevice(c)
  \/ Exit

Spec == Init /\ [][Next]_vars

----------------------------------------------------------------------------

\* "check that no other device already uses this CRTC": no two outputs are
\* driven by one CRTC, nor an output by a CRTC its encoders cannot be put on.
CrtcsDistinct ==
  \A c, d \in modeset_list : crtc[c] = crtc[d] => c = d
CrtcsFit ==
  \A c \in modeset_list : crtc[c] \in Drives(conns[c])

\* Whatever fails and wherever: a device on the list holds both its buffers
\* entirely, and a connector that was given up holds nothing at all.
Settled(c) == c < i \/ step = "connector"
NothingLeaks ==
  \A c \in Connector :
    Settled(c) => held[c] = IF c \in modeset_list THEN Resource ELSE {}

\* Unless calls fail, the search gives up on a connector only if every CRTC it
\* could use is taken.
SearchComplete ==
  [][~calls_fail /\ step = "crtc" /\ step' = "connector"
       => Drives(conns[i]) \subseteq Used]_vars

\* What makes them inductive: only connectors already passed are on the list,
\* and the device being set up has a CRTC that is still free and holds exactly
\* what the calls made so far have given it.
Busy == step \notin {"connector", "cleanup", "done"}
Made(kinds) == (kinds \X {buf}) \cup (IF buf = 1 THEN OfBuf(0) ELSE {})

HeldSoFar ==
  IF step \in {"connector", "crtc"} THEN {}
  ELSE IF step = "dumb"  THEN Made({})
  ELSE IF step = "addfb" THEN Made({"handle"})
  ELSE Made({"handle", "fb"})

ListPassed == \A c \in modeset_list : c < i
HalfMade ==
  Busy => /\ More
          /\ held[i] = HeldSoFar
          /\ \A c \in Connector : c > i => held[c] = {}
CrtcChosen ==
  step \in {"dumb", "addfb", "map"} =>
    /\ crtc[i] \notin Used
    /\ crtc[i] \in Drives(conns[i])

IInv ==
  /\ TypeOK
  /\ CrtcsDistinct
  /\ CrtcsFit
  /\ NothingLeaks
  /\ ListPassed
  /\ HalfMade
  /\ CrtcChosen

============================================================================
