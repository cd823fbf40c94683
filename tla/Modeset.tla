------------------------------- MODULE Modeset -------------------------------
(***************************************************************************)
(* modeset.c, from the opening of the card to the end, and with it what    *)
(* the four programs made from it share: outputs are set up one connector  *)
(* after the other, each CRTC is saved and set, something is drawn, and    *)
(* everything is given back.  The variants say where they differ.          *)
(*                                                                         *)
(* modeset_list is filled at the head, connector by connector, so that the *)
(* loops over it go through the connectors downwards.                      *)
(***************************************************************************)
EXTENDS KmsRoutes

CONSTANTS
  Encoders,         \* the encoder lists a connector may have
  ModeCounts,       \* the numbers of modes a connector may have
  Heights,          \* how many hundred lines a mode may have
  Rounds            \* how often modeset_draw() draws, 50 times

ASSUME ModesetAssumption ==
  /\ NumCrtc \in Nat /\ NumConnector \in Nat
  /\ Encoders \subseteq Seq(SUBSET Crtc)
  /\ ModeCounts \subseteq Nat \ {0} /\ Heights \subseteq Nat
  /\ Rounds \in Nat \ {0}

VARIABLES
  program,          \* which program this is
  calls_fail,       \* whether the calls on the DRM descriptor may fail
  conns,            \* what the kernel reports of each connector
  phase,            \* where main() is
  i,                \* the connector modeset_prepare() is at
  modeset_list,     \* the connectors whose device is linked into the list
  todo,             \* the devices main() or modeset_draw() has yet to visit
  crtc,             \* fields of struct modeset_dev
  height,
  front_buf,
  saved_crtc,
  held,             \* held[c]: what the device of c holds of each buffer
  round,            \* how often modeset_draw() has drawn
  display           \* the kernel: routes and CRTCs

devVars == <<crtc, height, front_buf, saved_crtc, held>>
envVars == <<program, calls_fail, conns>>
vars == <<envVars, phase, i, modeset_list, todo, devVars, round, display>>

Programs == {"modeset", "modeset13", "cairo", "list_mode", "double"}

Double   == program = "double"
Bufs     == IF Double THEN {0, 1} ELSE {0}
Kinds    == {"handle", "fb", "map"}
Null     == <<"null", 0, 0>>          \* what a failing drmModeGetCrtc() returns

\* modes[0] is looked at only if there is one; modeset13.c takes its index from
\* the command line, or 13, and does not compare it with count_modes.
ModeIndex == IF program \in {"modeset13", "cairo"} THEN 1 ELSE 0
ModeListed(c) == ModeIndex < conns[c].modes

Reported ==
  {[bound |-> conn.bound, encoders |-> conn.encoders, modes |-> n] :
     conn \in ConnectorsWith(Encoders), n \in ModeCounts}
Routes == [c \in Connector |-> conns[c].bound]

TypeOK ==
  /\ program \in Programs
  /\ calls_fail \in BOOLEAN
  /\ conns \in [Connector -> Reported]
  /\ phase \in {"open", "prepare", "modeset", "draw", "cleanup", "done", "crashed"}
  /\ i \in 1 .. NumConnector + 1
  /\ modeset_list \subseteq Connector
  /\ todo \subseteq modeset_list
  /\ crtc \in [Connector -> Crtc \cup {NoCrtc}]
  /\ height \in [Connector -> Nat]
  /\ front_buf \in [Connector -> Bufs]
  /\ saved_crtc \in [Connector -> Framebuffers(Bufs) \cup {Null}]
  /\ held \in [Connector -> SUBSET (Kinds \X Bufs)]
  /\ round \in 0 .. Max({Rounds, 3})
  /\ display \in Displays(Bufs)

Init ==
  /\ program \in Programs
  /\ calls_fail \in BOOLEAN
  /\ conns \in [Connector -> Reported]
  /\ phase = "open"
  /\ i = 1
  /\ modeset_list = {}
  /\ todo = {}
  /\ crtc = [c \in Connector |-> NoCrtc]
  /\ height = [c \in Connector |-> 0]
  /\ front_buf = [c \in Connector |-> 0]
  /\ saved_crtc = [c \in Connector |-> Null]
  /\ held = [c \in Connector |-> {}]
  /\ round = 0
  /\ display = Initially(Routes)

----------------------------------------------------------------------------
(* modeset_open() and modeset_prepare() *)

\* The card cannot be opened, or has no dumb buffers.
Open ==
  /\ phase = "open"
  /\ phase' \in {"prepare"} \cup (IF calls_fail THEN {"done"} ELSE {})
  /\ UNCHANGED <<envVars, i, modeset_list, todo, devVars, round, display>>

NoResources ==
  /\ phase = "prepare" /\ i = 1 /\ calls_fail
  /\ phase' = "done"
  /\ UNCHANGED <<envVars, i, modeset_list, todo, devVars, round, display>>

More == phase = "prepare" /\ i <= NumConnector
NextConnector == i' = i + 1

\* The connector cannot be retrieved, has no monitor or no mode.
SkipConnector ==
  /\ More
  /\ NextConnector
  /\ UNCHANGED <<envVars, phase, modeset_list, todo, devVars, round, display>>

EndPrepare ==
  /\ phase = "prepare" /\ ~More
  /\ phase' = "modeset"
  /\ todo'  = modeset_list
  /\ UNCHANGED <<envVars, i, modeset_list, devVars, round, display>>

----------------------------------------------------------------------------
(* modeset_setup_dev() and what it calls *)

\* The CRTCs modeset_find_crtc() may find, depending on the encoders
\* drmModeGetEncoder() returns.
Used == {crtc[c] : c \in modeset_list}
Found ==
  LET all  == DOMAIN conns[i].encoders
      gots == IF calls_fail THEN SUBSET all ELSE {all}
      lost == IF calls_fail THEN {[conns[i] EXCEPT !.bound = NoCrtc]} ELSE {}
  IN  {FindCrtc(c, Used, got) : c \in {conns[i]} \cup lost, got \in gots}

NoCrtcLeft ==
  /\ More
  /\ NoCrtc \in Found
  /\ NextConnector
  /\ UNCHANGED <<envVars, phase, modeset_list, todo, devVars, round, display>>

\* modeset_create_fb() makes four calls; what it has when one of them fails,
\* and what the label it then jumps to gives back.
CreateCalls == {"create", "addfb", "prepare_map", "mmap"}
Made(call)  == CASE call = "create" -> {}
                 [] call = "addfb"  -> {"handle"}
                 [] OTHER           -> {"handle", "fb"}
UndoneHandle(call) == Made(call) \cap {"handle"}          \* err_fb: forgotten
Undone(call) == CASE call = "create" -> {}
                  [] call = "addfb"  -> {"handle"}         \* err_destroy
                  [] OTHER           -> {"fb", "handle"}   \* err_fb

\* A mode that is not listed is whatever the memory holds, and may be refused.
MayFail(c) == calls_fail \/ ~ModeListed(c)

\* The buffer b fails; a first buffer is destroyed if the second fails.
FbFails ==
  /\ More /\ MayFail(i)
  /\ Found # {NoCrtc}
  /\ \E b \in Bufs, call \in CreateCalls :
       held' = [held EXCEPT ![i] = (Made(call) \ Undone(call)) \X {b}]
  /\ NextConnector
  /\ UNCHANGED <<envVars, phase, modeset_list, todo, crtc, height, front_buf,
                 saved_crtc, round, display>>

HeightsOf(c) == IF ModeListed(c) THEN Heights ELSE Heights \cup {0}

SetupDevice ==
  /\ More
  /\ \E found \in Found \ {NoCrtc}, h \in HeightsOf(i) :
       /\ crtc' = [crtc EXCEPT ![i] = found]
       /\ height' = [height EXCEPT ![i] = h]
  /\ held' = [held EXCEPT ![i] = Kinds \X Bufs]
  /\ modeset_list' = modeset_list \cup {i}
  /\ NextConnector
  /\ UNCHANGED <<envVars, phase, todo, front_buf, saved_crtc, round, display>>

Prepare == NoResources \/ SkipConnector \/ EndPrepare
Setup   == NoCrtcLeft \/ FbFails \/ SetupDevice

----------------------------------------------------------------------------
(* main(): the modeset loop *)

\* What drmModeSetCrtc() makes of the display: there is no framebuffer 0, so
\* that it cannot turn an output off.
SetOutcomes(c, fb, may_fail) ==
  (IF fb = Off THEN {} ELSE {SetCrtc(display, crtc[c], fb, c)})
    \cup (IF fb = Off \/ may_fail THEN {display} ELSE {})

SavedAfter(c) == Fb(c, front_buf[c])                      \* saved after the set
SavedOf(c) == display.shows[crtc[c]]

ModesetDevice ==
  /\ phase = "modeset" /\ todo # {}
  /\ LET c == Max(todo)
     IN  /\ todo' = todo \ {c}
         /\ \E saved \in {SavedOf(c)} \cup (IF calls_fail THEN {Null} ELSE {}) :
              saved_crtc' = [saved_crtc EXCEPT ![c] = saved]
         /\ display' \in SetOutcomes(c, Fb(c, front_buf[c]), MayFail(c))
  /\ UNCHANGED <<envVars, phase, i, modeset_list, crtc, height, front_buf, held,
                 round>>

EndModeset ==
  /\ phase = "modeset" /\ todo = {}
  /\ phase' = "draw"
  /\ todo'  = modeset_list
  /\ UNCHANGED <<envVars, i, modeset_list, devVars, round, display>>

Main == ModesetDevice \/ EndModeset

----------------------------------------------------------------------------
(* modeset_draw(): every line of every buffer, Rounds times *)

DrawRound ==
  /\ phase = "draw" /\ round < Rounds
  /\ round' = round + 1
  /\ UNCHANGED <<envVars, phase, i, modeset_list, todo, devVars, display>>

EndDraw ==
  /\ phase = "draw" /\ round = Rounds
  /\ phase' = "cleanup"
  /\ UNCHANGED <<envVars, i, modeset_list, todo, devVars, round, display>>

Draw == DrawRound \/ EndDraw

----------------------------------------------------------------------------
(* modeset_cleanup() *)

FbsOf(c) == {Fb(c, b) : b \in Bufs}

CleanupDevice ==
  /\ phase = "cleanup" /\ modeset_list # {}
  /\ LET c == Max(modeset_list)
     IN  /\ saved_crtc[c] # Null
         /\ \E restored \in SetOutcomes(c, saved_crtc[c], calls_fail) :
              display' = Remove(restored, FbsOf(c))
         /\ modeset_list' = modeset_list \ {c}
         /\ todo' = todo \ {c}
         /\ held' = [held EXCEPT ![c] = {}]
  /\ UNCHANGED <<envVars, phase, i, crtc, height, front_buf, saved_crtc, round>>

\* The process ends, and with it the descriptor and its framebuffers.
Crash ==
  /\ phase'   = "crashed"
  /\ display' = Remove(display, UNION {FbsOf(c) : c \in Connector})

\* iter->saved_crtc is dereferenced without a look.
CleanupCrashes ==
  /\ phase = "cleanup" /\ modeset_list # {}
  /\ saved_crtc[Max(modeset_list)] = Null
  /\ Crash
  /\ UNCHANGED <<envVars, i, modeset_list, todo, devVars, round>>

Exit ==
  /\ phase = "cleanup" /\ modeset_list = {}
  /\ phase' = "done"
  /\ UNCHANGED <<envVars, i, modeset_list, todo, devVars, round, display>>

Cleanup == CleanupDevice \/ CleanupCrashes \/ Exit

----------------------------------------------------------------------------
ModesetNext ==
  /\ program = "modeset"
  /\ Open \/ Prepare \/ Setup \/ Main \/ Draw \/ Cleanup

=============================================================================
