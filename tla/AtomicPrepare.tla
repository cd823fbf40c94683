--------------------------- MODULE AtomicPrepare ---------------------------
(***************************************************************************)
(* modeset_prepare() of modeset-atomic.c: an output needs a CRTC, a        *)
(* primary plane that works with it, the property blob of its mode, the    *)
(* properties of its three objects and two framebuffers; each is got by    *)
(* calls that may fail, one after the other.  The plane is searched by the *)
(* index of the CRTC, which modeset_find_crtc() saves beside its id (here  *)
(* a CRTC's id is its index) on one of its two paths.                      *)
(***************************************************************************)
EXTENDS CrtcSearch

CONSTANTS
  NumConnector,     \* res->count_connectors
  Encoders,         \* the encoder lists a connector may have
  Planes,           \* the plane lists the card may have
  CallsFail         \* whether the calls on the DRM descriptor may fail

ASSUME AtomicPrepareAssumption ==
  /\ NumCrtc \in Nat /\ NumConnector \in Nat
  /\ Encoders \subseteq Seq(SUBSET Crtc)
  /\ Planes \subseteq Seq([primary : BOOLEAN, crtcs : SUBSET Crtc])
  /\ CallsFail \in BOOLEAN

VARIABLES
  conns,            \* what the kernel reports of each connector
  planes,           \* ... and of each plane: its type and possible_crtcs
  i,                \* the connector modeset_prepare() is at
  step,             \* what modeset_output_create() does next with it
  buf,              \* the buffer modeset_setup_framebuffers() is at
  crtc,             \* four fields of each struct modeset_output
  crtc_index,
  plane,
  held,             \* the kernel objects and the memory it owns
  output_list       \* the connectors whose output is linked into the list

outVars == <<crtc, crtc_index, plane>>
vars == <<conns, planes, i, step, buf, outVars, held, output_list>>

Connector == 1 .. NumConnector
NoPlane   == 0

\* What an output can own: the blob of its mode; the properties of its objects;
\* of each buffer the dumb buffer, the framebuffer made of it and the mapping.
Blob     == <<"blob", 0>>
Props    == {<<"connector", 0>>, <<"crtc", 0>>, <<"plane", 0>>}
OfBuf(b) == {"handle", "fb", "map"} \X {b}
Resource == {Blob} \cup Props \cup OfBuf(0) \cup OfBuf(1)

ObjectSteps == {"connector_props", "crtc_props", "plane_props"}
BufferSteps == {"dumb", "addfb", "map", "mmap"}
Steps == {"open", "resources", "connector", "blob", "crtc", "plane", "cleanup",
          "done", "crashed"} \cup ObjectSteps \cup BufferSteps

TypeOK ==
  /\ conns \in [Connector -> ConnectorsWith(Encoders)]
  /\ planes \in Planes
  /\ i \in 1 .. NumConnector + 1
  /\ step \in Steps
  /\ buf \in {0, 1}
  /\ crtc \in [Connector -> Crtc \cup {NoCrtc}]
  /\ crtc_index \in [Connector -> Crtc \cup {0}]
  /\ plane \in [Connector -> DOMAIN planes \cup {NoPlane}]
  /\ held \in [Connector -> SUBSET Resource]
  /\ output_list \subseteq Connector

\* Outputs are zeroed when allocated.
Init ==
  /\ conns \in [Connector -> ConnectorsWith(Encoders)]
  /\ planes \in Planes
  /\ i = 1
  /\ step = "open"
  /\ buf = 0
  /\ crtc = [c \in Connector |-> NoCrtc]
  /\ crtc_index = [c \in Connector |-> 0]
  /\ plane = [c \in Connector |-> NoPlane]
  /\ held = [c \in Connector |-> {}]
  /\ output_list = {}

Used == {crtc[c] : c \in output_list}

----------------------------------------------------------------------------
(* modeset_open(), and modeset_prepare() *)

\* The card cannot be opened, cannot do what the program needs, or refuses one
\* of the two capabilities; then its resources cannot be retrieved.
OpenCard ==
  /\ step \in {"open", "resources"}
  /\ \/ step' = IF step = "open" THEN "resources" ELSE "connector"
     \/ CallsFail /\ step' = "done"
  /\ UNCHANGED <<conns, planes, i, buf, outVars, held, output_list>>

MoreOffByOne == i <= NumConnector + 1                     \* <= for <
More == i <= NumConnector

\* drmModeGetConnector() fails, or modeset_output_create() finds no monitor
\* or no mode and frees the output at once.
SkipConnector ==
  /\ step = "connector" /\ More
  /\ i' = i + 1
  /\ UNCHANGED <<conns, planes, step, buf, outVars, held, output_list>>

TakeConnector ==
  /\ step = "connector" /\ More
  /\ step' = "blob"
  /\ UNCHANGED <<conns, planes, i, buf, outVars, held, output_list>>

\* Without an output modeset_prepare() fails, and main() ends at once: in this
\* model the cleanup of an empty list.
EndPrepare ==
  /\ step = "connector" /\ ~More
  /\ step' = "cleanup"
  /\ UNCHANGED <<conns, planes, i, buf, outVars, held, output_list>>

----------------------------------------------------------------------------
(* modeset_output_create() *)

Acquire(r) == held' = [held EXCEPT ![i] = @ \cup {r}]

\* What the labels of modeset_output_create() give back, each and what follows
\* it, ...
OutError == {}
OutBlob  == {Blob}
OutObj   == Props \cup OutBlob

\* ... those of modeset_setup_objects(), ...
OutConn  == {}
OutCrtc  == {<<"connector", 0>>}
OutPlaneOnly == {<<"crtc", 0>>}                           \* does not fall through
OutPlane == {<<"crtc", 0>>} \cup OutCrtc

\* ... and those of modeset_create_fb().
ErrDestroy == {<<"handle", buf>>}
ErrFb      == {<<"fb", buf>>} \cup ErrDestroy

\* A call fails: the labels give back what they name, the output is freed, and
\* modeset_prepare() goes on with the next connector.
Fail(labels) ==
  /\ held' = [held EXCEPT ![i] = @ \ labels]
  /\ i' = i + 1
  /\ step' = "connector"
  /\ UNCHANGED output_list

Proceed(to) == step' = to /\ UNCHANGED <<i, output_list>>

\* drmModeCreatePropertyBlob; out_error
CreateBlob ==
  /\ step = "blob"
  /\ \/ Acquire(Blob) /\ Proceed("crtc")
     \/ CallsFail /\ Fail(OutError)
  /\ UNCHANGED <<conns, planes, buf, outVars>>

\* The encoders drmModeGetEncoder() returns.
Got == IF CallsFail THEN SUBSET (DOMAIN conns[i].encoders)
                    ELSE {DOMAIN conns[i].encoders}

\* modeset_find_crtc() leaves crtc_index alone when it keeps the CRTC of the
\* current encoder, and saves it when it has searched for another; out_blob.
SetupCrtc ==
  /\ step = "crtc"
  /\ \E got \in Got, c \in {conns[i]} \cup
        (IF CallsFail THEN {[conns[i] EXCEPT !.bound = NoCrtc]} ELSE {}) :
       LET found == FindCrtc(c, Used, got)
       IN  /\ crtc' = [crtc EXCEPT ![i] = found]
           /\ crtc_index' = IF BoundFree(c, Used) \/ found = NoCrtc
                              THEN crtc_index
                              ELSE [crtc_index EXCEPT ![i] = found]
           /\ IF found = NoCrtc THEN Fail(OutBlob)
                                ELSE Proceed("plane") /\ UNCHANGED held
  /\ UNCHANGED <<conns, planes, buf, plane>>

\* modeset_find_plane(): the first primary plane that works with the CRTC of
\* index crtc_index, of those drmModeGetPlane() returned.
AnyType(p) == TRUE                                        \* takes any type
IsPrimary(p) == planes[p].primary

UsableAnywhere(got) == {p \in got : IsPrimary(p)}         \* on any CRTC
Usable(got) == {p \in got : IsPrimary(p) /\ crtc_index[i] \in planes[p].crtcs}

\* The planes get_property_value() is asked about, without a look at whether
\* drmModeObjectGetProperties() or drmModeGetProperty() returned anything: those
\* that work with the CRTC, up to the one that is taken.
Asked(got) == {p \in got : /\ crtc_index[i] \in planes[p].crtcs
                           /\ \A q \in Usable(got) : p <= q}

FindPlaneCrashes ==
  /\ step = "plane" /\ CallsFail
  /\ \E got \in SUBSET (DOMAIN planes) : Asked(got) # {}
  /\ step' = "crashed"
  /\ UNCHANGED <<conns, planes, i, buf, outVars, held, output_list>>

FindPlane ==
  /\ step = "plane"
  /\ \E got \in IF CallsFail THEN SUBSET (DOMAIN planes) ELSE {DOMAIN planes} :
       IF Usable(got) = {}
         THEN Fail(OutBlob) /\ UNCHANGED plane
         ELSE /\ plane' = [plane EXCEPT ![i] = Min(Usable(got))]
              /\ Proceed("connector_props")
              /\ UNCHANGED held
  /\ UNCHANGED <<conns, planes, buf, crtc, crtc_index>>

\* modeset_setup_objects(): modeset_get_object_properties() of each object in
\* turn.  If one has none, a label gives back those of the ones before; out_blob.
ConnectorProps ==
  /\ step = "connector_props"
  /\ \/ Acquire(<<"connector", 0>>) /\ Proceed("crtc_props")
     \/ CallsFail /\ Fail(OutConn \cup OutBlob)
  /\ UNCHANGED <<conns, planes, buf, outVars>>

CrtcProps ==
  /\ step = "crtc_props"
  /\ \/ Acquire(<<"crtc", 0>>) /\ Proceed("plane_props")
     \/ CallsFail /\ Fail(OutCrtc \cup OutBlob)
  /\ UNCHANGED <<conns, planes, buf, outVars>>

PlaneProps ==
  /\ step = "plane_props"
  /\ \/ Acquire(<<"plane", 0>>) /\ Proceed("dumb") /\ buf' = 0
     \/ CallsFail /\ Fail(OutPlane \cup OutBlob) /\ UNCHANGED buf
  /\ UNCHANGED <<conns, planes, outVars>>

\* modeset_setup_framebuffers(): modeset_create_fb() of one buffer and then of
\* the other.  A call on the second fails: the first is destroyed too; out_obj.
FailFb(labels) ==
  /\ CallsFail
  /\ Fail(labels \cup (IF buf = 1 THEN OfBuf(0) ELSE {}) \cup OutObj)
  /\ UNCHANGED buf

CreateDumb ==
  /\ step = "dumb"
  /\ \/ Acquire(<<"handle", buf>>) /\ Proceed("addfb") /\ UNCHANGED buf
     \/ FailFb({})
  /\ UNCHANGED <<conns, planes, outVars>>

AddFB ==
  /\ step = "addfb"
  /\ \/ Acquire(<<"fb", buf>>) /\ Proceed("map") /\ UNCHANGED buf
     \/ FailFb(ErrDestroy)
  /\ UNCHANGED <<conns, planes, outVars>>

MapDumb ==
  /\ step = "map"
  /\ \/ Proceed("mmap") /\ UNCHANGED <<buf, held>>
     \/ FailFb(ErrFb)
  /\ UNCHANGED <<conns, planes, outVars>>

\* The second mapping completes the output, which modeset_prepare() links into
\* the list.
Mmap ==
  /\ step = "mmap"
  /\ \/ /\ Acquire(<<"map", buf>>)
        /\ \/ buf = 0 /\ Proceed("dumb") /\ buf' = 1
           \/ /\ buf = 1
              /\ output_list' = output_list \cup {i}
              /\ i' = i + 1 /\ step' = "connector"
              /\ UNCHANGED buf
     \/ FailFb(ErrFb)
  /\ UNCHANGED <<conns, planes, outVars>>

----------------------------------------------------------------------------
(* modeset_cleanup(): modeset_output_destroy() of every output *)

DestroyOutput(c) ==
  /\ step = "cleanup" /\ c \in output_list
  /\ held' = [held EXCEPT ![c] = @ \ (Props \cup OfBuf(0) \cup OfBuf(1) \cup {Blob})]
  /\ output_list' = output_list \ {c}
  /\ UNCHANGED <<conns, planes, i, step, buf, outVars>>

Exit ==
  /\ step = "cleanup" /\ output_list = {}
  /\ step' = "done"
  /\ UNCHANGED <<conns, planes, i, buf, outVars, held, output_list>>

----------------------------------------------------------------------------

Next ==
  \/ OpenCard
  \/ SkipConnector
  \/ TakeConnector
  \/ EndPrepare
  \/ CreateBlob
  \/ SetupCrtc
  \/ FindPlane
  \/ FindPlaneCrashes
  \/ ConnectorProps
  \/ CrtcProps
  \/ PlaneProps
  \/ CreateDumb
  \/ AddFB
  \/ MapDumb
  \/ Mmap
  \/ \E c \in Connector : DestroyOutput(c)
  \/ Exit

Spec == Init /\ [][Next]_vars

----------------------------------------------------------------------------

\* Whatever fails and wherever: an output on the list owns all it needs, and a
\* connector that was given up owns nothing.
Settled(c) == c < i \/ step = "connector"
NothingLeaks ==
  \A c \in Connector :
    Settled(c) => held[c] = IF c \in output_list THEN Resource ELSE {}

\* "check if the plane can be used by our CRTC": it is a primary plane, and it
\* works with the CRTC the output was given.
PlanesFit ==
  \A c \in output_list : /\ planes[plane[c]].primary
                         /\ crtc[c] \in planes[plane[c]].crtcs

\* No two outputs share a plane: each shows its own framebuffer.
PlanesDistinct ==
  \A c, d \in output_list : plane[c] = plane[d] => c = d

\* No CRTC was in use when the program started, so modeset_find_crtc() always
\* searched and saved the index with the id.
Unbound == \A c \in Connector : conns[c].bound = NoCrtc

\* On such a card every output gets a primary plane that works with its CRTC ...
FitUnlessBound == Unbound => PlanesFit

\* A card on which a primary plane works with one CRTC only.
OwnPrimary ==
  \A p \in DOMAIN planes : planes[p].primary => \A x, y \in planes[p].crtcs : x = y

\* ... and, if it is also a card on which primary planes are not shared, one
\* that no other output has: modeset_find_plane() never asks whether a plane is
\* taken, so only the CRTCs keep the outputs apart.
DistinctUnlessBound == Unbound /\ OwnPrimary => PlanesDistinct

============================================================================
