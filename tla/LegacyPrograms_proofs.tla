------------------------ MODULE LegacyPrograms_proofs ------------------------
(***************************************************************************)
(* For every graphics card: what the five programs without page flips hold *)
(* of each device, that the buffer painted is not the one shown, and that  *)
(* they leave the display as they found it if nothing stands in the way.   *)
(***************************************************************************)
EXTENDS TLAPS, LegacyPrograms, NextColor, WellFoundedInduction

----------------------------------------------------------------------------
(* Colours *)

\* That comparison finds every overflow, whatever the step, if it fits in a byte:
\* the programs' steps are less than 20.
THEOREM ColorsAreSmooth ==
  ASSUME NEW up \in BOOLEAN, NEW cur \in Byte, NEW step \in Byte
  PROVE  Smooth(up, cur, step)
<1>1. CASE up
  <2>1. CASE cur + step < 256
    <3>1. Next8(up, cur, step) = cur + step
      BY <1>1, <2>1 DEF Next8, Byte
    <3>2. ~(Next8(up, cur, step) < cur)
      BY <2>1, <3>1 DEF Byte
    <3>3. cur + step \in Byte
      BY <2>1 DEF Byte
    <3> QED
      BY <1>1, <3>1, <3>2, <3>3 DEF Smooth, NextColor, Turns
  <2>2. CASE cur + step >= 256
    <3>1. Next8(up, cur, step) = cur + step - 256
      BY <1>1, <2>2 DEF Next8, Byte
    <3>2. Next8(up, cur, step) < cur
      BY <2>2, <3>1 DEF Byte
    <3>3. cur + step \notin Byte
      BY <2>2 DEF Byte
    <3> QED
      BY <1>1, <3>1, <3>2, <3>3 DEF Smooth, NextColor, Turns
  <2> QED
    BY <2>1, <2>2 DEF Byte
<1>2. CASE ~up
  <2>1. CASE cur >= step
    <3>1. Next8(up, cur, step) = cur - step
      BY <1>2, <2>1 DEF Next8, Byte
    <3>2. ~(Next8(up, cur, step) > cur)
      BY <2>1, <3>1 DEF Byte
    <3>3. cur - step \in Byte
      BY <2>1 DEF Byte
    <3> QED
      BY <1>2, <3>1, <3>2, <3>3 DEF Smooth, NextColor, Turns
  <2>2. CASE cur < step
    <3>1. Next8(up, cur, step) = cur - step + 256
      BY <1>2, <2>2 DEF Next8, Byte
    <3>2. Next8(up, cur, step) > cur
      BY <2>2, <3>1 DEF Byte
    <3>3. cur - step \notin Byte
      BY <2>2 DEF Byte
    <3> QED
      BY <1>2, <3>1, <3>2, <3>3 DEF Smooth, NextColor, Turns
  <2> QED
    BY <2>1, <2>2 DEF Byte
<1> QED
  BY <1>1, <1>2

----------------------------------------------------------------------------
(* The searches and the order of the list *)

Less == {ss \in Nat \X Nat : ss[1] < ss[2]}

\* Every nonempty set of naturals has a first element (the searches of
\* modeset_find_crtc() go upwards from 0).
LEMMA LessWellFounded == IsWellFoundedOn(Less, Nat)
  BY NatLessThanWellFounded, Zenon DEF OpToRel, Less

\* Membership in Less, for the pair of an element and a smaller one.
LEMMA LessPair ==
  ASSUME NEW m \in Nat, NEW n \in Nat, m < n
  PROVE  <<m, n>> \in Less
<1>1. <<m, n>> \in Nat \X Nat
  OBVIOUS
<1>2. <<m, n>>[1] < <<m, n>>[2]
  OBVIOUS
<1>3. QED
  BY <1>1, <1>2, Zenon DEF Less

\* What a loop finds first is one of the things it looks for.
LEMMA MinIsElement ==
  ASSUME NEW S \in SUBSET Nat, S # {}
  PROVE  Min(S) \in S
<1>1. PICK m \in S : \A n \in S : <<n, m>> \notin Less
  BY LessWellFounded, WFMin, Zenon
<1>2. ASSUME NEW n \in S PROVE m <= n
  <2>1. m \in Nat /\ n \in Nat
    OBVIOUS
  <2>2. ~(n < m)
    BY <1>1, <2>1, LessPair
  <2>3. QED
    BY <2>1, <2>2
<1>3. QED
  BY <1>2 DEF Min

\* The loops over modeset_list begin with the connector linked last.
LEMMA MaxIsElement ==
  ASSUME NumConnector \in Nat, NEW S \in SUBSET Connector, S # {}
  PROVE  Max(S) \in S
<1> DEFINE back == {NumConnector - c : c \in S}
<1>1. back \in SUBSET Nat /\ back # {}
  <2>1. \A c \in S : NumConnector - c \in Nat
    BY DEF Connector
  <2> QED
    BY <2>1
<1>2. PICK m \in back : \A n \in back : <<n, m>> \notin Less
  BY <1>1, LessWellFounded, WFMin, Zenon
<1>3. PICK c \in S : m = NumConnector - c
  BY <1>2
<1>4. ASSUME NEW d \in S PROVE c >= d
  <2>1. ~(NumConnector - d < m)
    BY <1>1, <1>2, LessPair
  <2> QED
    BY <1>3, <2>1 DEF Connector
<1> QED
  BY <1>4 DEF Max

\* CRTC indices are naturals, and "none" is not one of them.
LEMMA CrtcIndices == Crtc \in SUBSET Nat /\ NoCrtc \notin Crtc
  BY ModesetAssumption DEF Crtc, NoCrtc

\* The fields of what the kernel reports of a connector.
LEMMA ConnectorFields ==
  ASSUME TypeOK, NEW c \in Connector
  PROVE  /\ conns[c].bound \in Crtc \cup {NoCrtc}
         /\ DOMAIN conns[c].encoders \in SUBSET Nat
         /\ \A k \in DOMAIN conns[c].encoders : conns[c].encoders[k] \in SUBSET Crtc
<1>1. conns[c] \in Reported
  BY DEF TypeOK
<1>2. PICK conn \in ConnectorsWith(Encoders) :
        conns[c].bound = conn.bound /\ conns[c].encoders = conn.encoders
  BY <1>1 DEF Reported
<1>3. conn.bound \in Crtc \cup {NoCrtc} /\ conn.encoders \in Encoders
  BY <1>2 DEF ConnectorsWith
<1>4. conn.encoders \in Seq(SUBSET Crtc)
  BY <1>3, ModesetAssumption
<1>5. DOMAIN conn.encoders = 1 .. Len(conn.encoders) /\ Len(conn.encoders) \in Nat
  BY <1>4
<1> QED
  BY <1>2, <1>3, <1>4, <1>5

\* modeset_find_crtc() finds a CRTC that no other device has, and if no call
\* fails, the one the connector is on, unless another device has it.
LEMMA FoundFits ==
  ASSUME TypeOK, i \in Connector, NEW found \in Found \ {NoCrtc}
  PROVE  /\ found \in Crtc \ Used
         /\ ~calls_fail /\ conns[i].bound \notin Used => conns[i].bound \in {found, NoCrtc}
<1> DEFINE conn == conns[i]
           all  == DOMAIN conn.encoders
<1>1. PICK c \in {conn, [conn EXCEPT !.bound = NoCrtc]}, got \in SUBSET all :
        found = FindCrtc(c, Used, got) /\ (~calls_fail => c = conn)
  BY DEF Found
<1>2. conn \in Reported
  BY DEF TypeOK
<1>3. c.bound \in {conn.bound, NoCrtc} /\ c.encoders = conn.encoders
  BY <1>1, <1>2 DEF Reported
<1>4. CASE BoundFree(c, Used)
  BY <1>1, <1>3, <1>4, ConnectorFields DEF FindCrtc, BoundFree
<1>5. CASE ~BoundFree(c, Used)
  <2> DEFINE usable == {k \in got : conn.encoders[k] \ Used # {}}
             free   == conn.encoders[Min(usable)] \ Used
  <2>1. found = FirstFree(c, Used, got)
    BY <1>1, <1>5 DEF FindCrtc
  <2>2. usable # {} /\ found = Min(free)
    BY <1>3, <2>1 DEF FirstFree
  <2>3. usable \in SUBSET Nat
    BY ConnectorFields
  <2>4. Min(usable) \in usable
    BY <2>2, <2>3, MinIsElement
  <2>5. free # {} /\ free \in SUBSET Crtc
    BY <2>4, ConnectorFields
  <2>6. Min(free) \in free
    BY <2>5, CrtcIndices, MinIsElement
  <2>7. found \in Crtc \ Used
    BY <2>2, <2>5, <2>6
  <2> QED
    BY <1>1, <1>5, <2>7 DEF BoundFree
<1> QED
  BY <1>4, <1>5

----------------------------------------------------------------------------
(* The inductive invariant *)

\* Devices are linked in the order of their connectors; each has a CRTC, and
\* no two the same.  Until the cleanup, all that have a CRTC are linked.
BeforeCleanup == phase \in {"open", "prepare", "modeset", "draw"}
Linked ==
  /\ \A c \in modeset_list \cup Outputs : c < i
  /\ program # "list_mode" => modeset_list \subseteq Outputs
  /\ program = "list_mode" => phase \in {"open", "prepare", "done"}
  /\ BeforeCleanup => Outputs \subseteq modeset_list
  /\ \A c, d \in Outputs : crtc[c] = crtc[d] => c = d
  /\ phase = "done" => calls_fail \/ program = "list_mode" \/ modeset_list = {}

\* Nothing is set before the modeset loop.
Untouched ==
  phase \in {"open", "prepare"} \/ program = "list_mode" => display = Initially(Routes)

\* A buffer on a screen is the front buffer of its device, on its CRTC.
FrontShown ==
  BeforeCleanup =>
    \A c \in Connector, x \in Crtc, b \in Bufs :
      display.shows[x] = Fb(c, b) =>
        c \in modeset_list /\ x = crtc[c] /\ b = front_buf[c]

\* If no call fails and no connector is on another's CRTC: an output gets the
\* CRTC its connector is on, if it is on any; ...
BoundKept == \A c \in Outputs : conns[c].bound \in {crtc[c], NoCrtc}

\* ... a connector is where it was, or shows its buffer on its own CRTC, ...
Shows(c) == display.shows[crtc[c]] \in FbsOf(c)
Taken(c) == c \in modeset_list /\ display.route[c] = crtc[c] /\ Shows(c)
RoutesKept ==
  \A c \in Connector : display.route[c] = conns[c].bound \/ Taken(c)

\* ... a CRTC shows what it did, or the buffer of the connector that is on it, ...
ShowsKept ==
  \A x \in Crtc :
    \/ display.shows[x] = Initially(Routes).shows[x]
    \/ \E c \in modeset_list : crtc[c] = x /\ Taken(c)

\* ... and what is saved is what the CRTC showed at first.
Set == phase \in {"draw", "cleanup"}
SavedFirst ==
  \A c \in modeset_list :
    /\ Set \/ (phase = "modeset" /\ c \notin todo)
         => saved_crtc[c] = Initially(Routes).shows[crtc[c]]
    /\ phase = "modeset" /\ c \in todo => ~Shows(c)

Restorable ==
  ~calls_fail /\ NoneTaken =>
    /\ BoundKept
    /\ phase # "crashed" => RoutesKept /\ ShowsKept /\ SavedFirst

NoCrash == WellUsed /\ NoneTaken => phase # "crashed"

IInv ==
  /\ TypeOK
  /\ Linked
  /\ NothingLeaks
  /\ Untouched
  /\ FrontShown
  /\ Restorable
  /\ NoCrash

----------------------------------------------------------------------------
(* The display *)

\* Framebuffers of different devices, or of a device and the card, differ.
LEMMA FbsDiffer ==
  ASSUME NEW c, NEW b, NEW d, NEW a, NEW x
  PROVE  /\ Fb(c, b) = Fb(d, a) => c = d /\ b = a
         /\ Fb(c, b) # Old(x) /\ Fb(c, b) # Off /\ Fb(c, b) # Null
         /\ Old(x) # Off /\ Old(x) # Null /\ Off # Null
  BY DEF Fb, Old, Off, Null

\* What each CRTC shows at first is the card's.
LEMMA FirstShown ==
  ASSUME NEW x \in Crtc
  PROVE  /\ Initially(Routes).shows[x] \in {Old(x), Off}
         /\ Initially(Routes).shows[x] = Old(x)
              <=> \E c \in Connector : conns[c].bound = x
         /\ \A c \in Connector : Initially(Routes).shows[x] \notin FbsOf(c)
         /\ Initially(Routes).shows[x] # Null
<1>1. /\ Initially(Routes).shows[x] \in {Old(x), Off}
      /\ Initially(Routes).shows[x] = Old(x)
           <=> \E c \in Connector : conns[c].bound = x
  BY FbsDiffer DEF Initially, Routes
<1> QED
  BY <1>1, FbsDiffer DEF FbsOf

\* The kernel keeps a display a display.
LEMMA InitiallyType ==
  ASSUME TypeOK
  PROVE  Initially(Routes) \in Displays(Bufs)
<1>1. Routes \in [Connector -> Crtc \cup {NoCrtc}]
  BY ConnectorFields DEF Routes
<1>2. \A x \in Crtc : Initially(Routes).shows[x] \in Framebuffers(Bufs)
  BY FirstShown DEF Framebuffers, Old
<1> QED
  BY <1>1, <1>2 DEF Displays, Initially

LEMMA SetCrtcType ==
  ASSUME NEW d \in Displays(Bufs), NEW x \in Crtc, NEW fb \in Framebuffers(Bufs),
         NEW c \in Connector
  PROVE  SetCrtc(d, x, fb, c) \in Displays(Bufs)
<1>1. /\ d.route \in [Connector -> Crtc \cup {NoCrtc}]
      /\ d.shows \in [Crtc -> Framebuffers(Bufs)]
  BY DEF Displays
<1>2. Off \in Framebuffers(Bufs)
  BY DEF Framebuffers
<1> QED
  BY <1>1, <1>2 DEF SetCrtc, Displays

LEMMA RemoveType ==
  ASSUME NEW d \in Displays(Bufs), NEW fbs
  PROVE  Remove(d, fbs) \in Displays(Bufs)
<1>1. /\ d.route \in [Connector -> Crtc \cup {NoCrtc}]
      /\ d.shows \in [Crtc -> Framebuffers(Bufs)]
  BY DEF Displays
<1>2. Off \in Framebuffers(Bufs)
  BY DEF Framebuffers
<1> QED
  BY <1>1, <1>2 DEF Remove, Displays

----------------------------------------------------------------------------
(* main() goes on, or modeset_prepare(), without touching device or display *)

\* The steps of main() from one of its loops to the next.
Onwards ==
  \/ phase = "open"    /\ phase' = "prepare" /\ UNCHANGED todo
  \/ phase = "prepare" /\ phase' = "modeset" /\ program # "list_mode" /\ todo' = modeset_list
  \/ phase = "modeset" /\ phase' = "draw" /\ todo = {} /\ todo' = modeset_list
       /\ program # "list_mode"
  \/ phase = "draw"    /\ phase' = "cleanup" /\ UNCHANGED todo
  \/ phase = "cleanup" /\ phase' = "done" /\ modeset_list = {} /\ UNCHANGED todo
  \/ phase \in {"open", "prepare"} /\ phase' = "done" /\ UNCHANGED todo
       /\ (calls_fail \/ program = "list_mode")
  \/ UNCHANGED phase /\ todo' \in {todo, modeset_list} /\ (phase = "modeset" => UNCHANGED todo)

Moves ==
  /\ Onwards
  /\ i' = i \/ (i' = i + 1 /\ i <= NumConnector)
  /\ round' = round \/ (round' = round + 1 /\ (round < Rounds \/ round < 3))
  /\ UNCHANGED <<envVars, modeset_list, devVars, display>>

\* The bound on the rounds is the number of them, or of the passes.
LEMMA RoundsMax == Max({Rounds, 3}) = IF Rounds >= 3 THEN Rounds ELSE 3
<1>1. Rounds \in Nat
  BY ModesetAssumption
<1> DEFINE m == IF Rounds >= 3 THEN Rounds ELSE 3
<1>2. m \in {Rounds, 3} /\ \A y \in {Rounds, 3} : m >= y
  BY <1>1
<1>3. \A n \in {Rounds, 3} : (\A y \in {Rounds, 3} : n >= y) => n = m
  BY <1>1
<1> QED
  BY <1>2, <1>3 DEF Max

LEMMA MovesOk == IInv /\ Moves => IInv'
<1> SUFFICES ASSUME IInv, Moves PROVE IInv'
  OBVIOUS
<1> USE DEF IInv, Moves, Onwards, envVars, devVars
<1>1. TypeOK'
  <2>1. round' \in 0 .. Max({Rounds, 3})
    BY RoundsMax, ModesetAssumption DEF TypeOK
  <2>2. i' \in 1 .. NumConnector + 1
    BY ModesetAssumption DEF TypeOK
  <2>3. conns' = conns /\ program' = program /\ Bufs' = Bufs /\ Reported' = Reported
    BY DEF Bufs, Double, Reported
  <2> QED
    BY <2>1, <2>2, <2>3 DEF TypeOK
<1>2. Outputs' = Outputs /\ Bufs' = Bufs /\ Routes' = Routes
  BY DEF Outputs, Bufs, Double, Routes
<1>3. Linked'
  <2>1. i' >= i /\ i \in Nat /\ i' \in Nat
    BY DEF TypeOK
  <2>2. \A c \in modeset_list \cup Outputs : c < i'
    BY <2>1 DEF TypeOK, Linked, Outputs, Connector
  <2>3. /\ program' # "list_mode" => modeset_list' \subseteq Outputs'
        /\ program' = "list_mode" => phase' \in {"open", "prepare", "done"}
        /\ BeforeCleanup' => Outputs' \subseteq modeset_list'
        /\ phase' = "done" => calls_fail' \/ program' = "list_mode" \/ modeset_list' = {}
    BY <1>2 DEF Linked, BeforeCleanup
  <2> QED
    BY <1>2, <2>2, <2>3 DEF Linked
<1>4. NothingLeaks'
  BY <1>2 DEF NothingLeaks, TypeOK
<1>5. Untouched'
  BY <1>2 DEF Untouched, Linked
<1>6. FrontShown'
  BY <1>2 DEF FrontShown, BeforeCleanup
<1>7. Restorable'
  <2> SUFFICES ASSUME ~calls_fail, NoneTaken
               PROVE  BoundKept' /\ (phase' # "crashed" => RoutesKept' /\ ShowsKept' /\ SavedFirst')
    BY <1>2 DEF Restorable, NoneTaken
  <2>1. BoundKept'
    BY <1>2 DEF Restorable, BoundKept
  <2> SUFFICES ASSUME phase # "crashed" PROVE RoutesKept' /\ ShowsKept' /\ SavedFirst'
    BY <2>1
  <2>2. RoutesKept' /\ ShowsKept'
    BY <1>2 DEF Restorable, RoutesKept, ShowsKept, Taken, Shows, FbsOf
  <2>3. SavedFirst'
    <3>1. CASE phase = "prepare" /\ phase' = "modeset"
      <4>1. ASSUME NEW c \in modeset_list PROVE ~Shows(c)'
        <5>1. c \in Connector /\ crtc[c] \in Crtc /\ display = Initially(Routes)
          BY <3>1 DEF TypeOK, Linked, Outputs, Untouched
        <5> QED
          BY <1>2, <5>1, FirstShown DEF Shows, FbsOf
      <4> QED
        BY <3>1, <4>1 DEF SavedFirst, Set
    <3>2. CASE ~(phase = "prepare" /\ phase' = "modeset")
      BY <1>2, <3>2 DEF Restorable, SavedFirst, Set, Shows, FbsOf, TypeOK
    <3> QED
      BY <3>1, <3>2
  <2> QED
    BY <2>2, <2>3
<1>8. NoCrash'
  BY <1>2 DEF NoCrash, NoneTaken, WellUsed
<1> QED
  BY <1>1, <1>3, <1>4, <1>5, <1>6, <1>7, <1>8

----------------------------------------------------------------------------
(* modeset_prepare() and modeset_setup_dev() *)

\* modeset_list_mode.c links devices that have nothing.
LEMMA ListModesOk == IInv /\ program = "list_mode" /\ ListModes => IInv'
<1> SUFFICES ASSUME IInv, program = "list_mode", ListModes PROVE IInv'
  OBVIOUS
<1> USE DEF IInv, ListModes, More, NextConnector, envVars, devVars
<1>1. i \in Connector /\ i < i' /\ \A c \in Connector : c < i => c < i'
  BY ModesetAssumption DEF TypeOK, Connector
<1>2. Outputs' = Outputs /\ Bufs' = Bufs /\ Routes' = Routes /\ Reported' = Reported
  BY DEF Outputs, Bufs, Double, Routes, Reported
<1>3. TypeOK'
  <2>1. i' \in 1 .. NumConnector + 1
    BY <1>1, ModesetAssumption DEF Connector
  <2>2. modeset_list' \subseteq Connector /\ todo' \subseteq modeset_list'
    BY <1>1 DEF TypeOK
  <2> QED
    BY <1>2, <2>1, <2>2 DEF TypeOK
<1>4. Linked'
  BY <1>1, <1>2 DEF Linked, BeforeCleanup, TypeOK, Outputs
<1>5. NothingLeaks'
  BY <1>2 DEF NothingLeaks
<1>6. Untouched'
  BY <1>2 DEF Untouched
<1>7. FrontShown'
  BY <1>2 DEF FrontShown, BeforeCleanup
<1>8. Restorable'
  <2> SUFFICES ASSUME ~calls_fail, NoneTaken
               PROVE  BoundKept' /\ RoutesKept' /\ ShowsKept' /\ SavedFirst'
    BY <1>2 DEF Restorable, NoneTaken
  <2>1. BoundKept' /\ RoutesKept' /\ ShowsKept'
    BY <1>2 DEF Restorable, BoundKept, RoutesKept, ShowsKept, Taken, Shows, FbsOf
  <2> QED
    BY <2>1 DEF SavedFirst, Set
<1>9. NoCrash'
  BY DEF NoCrash
<1> QED
  BY <1>3, <1>4, <1>5, <1>6, <1>7, <1>8, <1>9

\* modeset_create_fb() fails and has given back what it had.
LEMMA FbFailsOk == IInv /\ FbFails => IInv'
<1> SUFFICES ASSUME IInv, FbFails PROVE IInv'
  OBVIOUS
<1>1. held' = held
  <2>1. PICK b \in Bufs, call \in CreateCalls :
          held' = [held EXCEPT ![i] = (Made(call) \ Undone(call)) \X {b}]
    BY DEF FbFails
  <2>2. Made(call) \ Undone(call) = {}
    BY DEF CreateCalls, Made, Undone
  <2>3. i \in Connector /\ i \notin modeset_list
    BY DEF FbFails, More, IInv, TypeOK, Connector, Linked
  <2>4. held[i] = {}
    BY <2>3 DEF IInv, NothingLeaks, FbFails, More
  <2> QED
    BY <2>1, <2>2, <2>3, <2>4 DEF IInv, TypeOK
<1>2. Moves
  BY <1>1 DEF FbFails, More, NextConnector, Moves, Onwards, devVars
<1> QED
  BY <1>2, MovesOk

LEMMA SetupDeviceOk == IInv /\ program # "list_mode" /\ SetupDevice => IInv'
<1> SUFFICES ASSUME IInv, program # "list_mode", SetupDevice PROVE IInv'
  OBVIOUS
<1> USE DEF SetupDevice, More, NextConnector, envVars
<1>1. PICK found \in Found \ {NoCrtc}, h \in HeightsOf(i) :
        /\ crtc' = [crtc EXCEPT ![i] = found]
        /\ height' = [height EXCEPT ![i] = h]
  OBVIOUS
<1>2. TypeOK /\ i \in Connector /\ i' = i + 1
  BY DEF IInv, TypeOK, Connector
<1>3. i \notin modeset_list \cup Outputs
  BY <1>2 DEF IInv, Linked, Connector
<1>4. /\ found \in Crtc \ Used
      /\ ~calls_fail /\ conns[i].bound \notin Used => conns[i].bound \in {found, NoCrtc}
  BY <1>1, <1>2, FoundFits
<1>5. modeset_list = Outputs
  BY DEF IInv, Linked, BeforeCleanup
<1>6. /\ Outputs' = Outputs \cup {i} /\ Bufs' = Bufs /\ Routes' = Routes /\ Reported' = Reported
      /\ crtc'[i] = found /\ \A c \in Outputs : crtc'[c] = crtc[c] /\ c # i
  BY <1>1, <1>2, <1>3, <1>4 DEF Outputs, Bufs, Double, Routes, Reported, TypeOK
<1>7. TypeOK'
  <2>1. h \in Nat
    BY ModesetAssumption DEF HeightsOf
  <2>2. i' \in 1 .. NumConnector + 1
    BY <1>2, ModesetAssumption DEF Connector
  <2>3. modeset_list' \subseteq Connector /\ todo' \subseteq modeset_list'
    BY <1>2 DEF TypeOK
  <2>4. crtc' \in [Connector -> Crtc \cup {NoCrtc}] /\ height' \in [Connector -> Nat]
    BY <1>1, <1>2, <1>4, <2>1 DEF TypeOK
  <2>5. held' \in [Connector -> SUBSET (Kinds \X Bufs)]
    BY <1>2 DEF TypeOK
  <2> QED
    BY <1>2, <1>6, <2>2, <2>3, <2>4, <2>5 DEF TypeOK
<1>8. Linked'
  <2>1. \A c, d \in Outputs' : crtc'[c] = crtc'[d] => c = d
    BY <1>4, <1>5, <1>6 DEF IInv, Linked, Used
  <2>2. \A c \in Outputs' : c < i'
    BY <1>2, <1>6 DEF IInv, Linked, TypeOK, Outputs, Connector
  <2> QED
    BY <1>5, <1>6, <2>1, <2>2 DEF Linked
<1>9. NothingLeaks'
  BY <1>2, <1>6 DEF IInv, TypeOK, NothingLeaks
<1>10. display = Initially(Routes)
  BY DEF IInv, Untouched
<1>11. Untouched'
  BY <1>6, <1>10 DEF Untouched
<1>12. FrontShown'
  BY <1>6, <1>10, FirstShown DEF FrontShown, FbsOf
<1>13. Restorable'
  <2> SUFFICES ASSUME ~calls_fail, NoneTaken'
               PROVE  BoundKept' /\ RoutesKept' /\ ShowsKept' /\ SavedFirst'
    BY DEF Restorable
  <2>1. NoneTaken
    BY <1>6 DEF NoneTaken
  <2>2. conns[i].bound \notin Used
    <3> SUFFICES ASSUME NEW c \in modeset_list, crtc[c] = conns[i].bound PROVE FALSE
      BY DEF Used
    <3> QED
      BY <1>2, <1>3, <1>5, <2>1 DEF NoneTaken
  <2>3. BoundKept'
    BY <1>4, <1>6, <2>1, <2>2 DEF IInv, Restorable, BoundKept
  <2>4. RoutesKept' /\ ShowsKept'
    BY <1>6, <1>10 DEF RoutesKept, ShowsKept, Initially, Routes
  <2> QED
    BY <2>3, <2>4 DEF SavedFirst, Set
<1>14. NoCrash'
  BY DEF NoCrash
<1> QED
  BY <1>7, <1>8, <1>9, <1>11, <1>12, <1>13, <1>14 DEF IInv

----------------------------------------------------------------------------
(* drmModeSetCrtc() *)

\* The fields of the display.
LEMMA DisplayFields ==
  ASSUME TypeOK
  PROVE  /\ display = [route |-> display.route, shows |-> display.shows]
         /\ display.route \in [Connector -> Crtc \cup {NoCrtc}]
         /\ display.shows \in [Crtc -> Framebuffers(Bufs)]
  BY DEF TypeOK, Displays

\* Whatever the routes are, a CRTC that is not set goes on or is turned off.
LEMMA SetShows ==
  ASSUME TypeOK, NEW x \in Crtc, NEW fb, NEW c \in Connector,
         NEW d, d = SetCrtc(display, x, fb, c)
  PROVE  /\ d.shows[x] = fb
         /\ \A y \in Crtc \ {x} : d.shows[y] \in {display.shows[y], Off}
  BY DEF SetCrtc

\* If no output is on the CRTC of another, then only one connector is ever on
\* the CRTC of a device, and a CRTC without connectors is off.
LEMMA OwnRoute ==
  ASSUME IInv, ~calls_fail, NoneTaken, phase # "crashed", program # "list_mode",
         NEW c \in modeset_list
  PROVE  /\ c \in Connector /\ crtc[c] \in Crtc
         /\ display.route[c] \in {crtc[c], NoCrtc}
         /\ \A e \in Connector : display.route[e] = crtc[c] => e = c
<1> USE DEF IInv, Restorable
<1>1. c \in Connector /\ crtc[c] \in Crtc /\ c \in Outputs
  BY DEF TypeOK, Linked, Outputs
<1>2. display.route[c] \in {crtc[c], NoCrtc}
  BY <1>1 DEF RoutesKept, BoundKept, Taken
<1>3. ASSUME NEW e \in Connector, display.route[e] = crtc[c]
      PROVE  e = c
  <2>1. CASE display.route[e] = conns[e].bound
    BY <1>1, <1>3, <2>1 DEF NoneTaken
  <2>2. CASE Taken(e)
    BY <1>1, <1>3, <2>2 DEF Taken, Linked, Outputs
  <2> QED
    BY <2>1, <2>2 DEF RoutesKept
<1> QED
  BY <1>1, <1>2, <1>3

LEMMA OffIfUnrouted ==
  ASSUME IInv, ~calls_fail, NoneTaken, phase # "crashed", program # "list_mode",
         NEW x \in Crtc, \A e \in Connector : display.route[e] # x
  PROVE  display.shows[x] = Off
<1> USE DEF IInv, Restorable
<1>1. ASSUME NEW e \in Connector PROVE conns[e].bound # x
  <2>1. CASE Taken(e)
    <3>1. e \in Outputs /\ crtc[e] # x
      BY <2>1 DEF Taken, Linked
    <3> QED
      BY <3>1, CrtcIndices DEF BoundKept
  <2> QED
    BY <2>1 DEF RoutesKept
<1>2. display.shows[x] = Initially(Routes).shows[x]
  BY DEF ShowsKept, Taken, TypeOK
<1> QED
  BY <1>1, <1>2, FirstShown

\* So setting the CRTC of a device changes this CRTC and its connector only.
LEMMA SetAlone ==
  ASSUME IInv, ~calls_fail, NoneTaken, phase # "crashed", program # "list_mode",
         NEW c \in modeset_list, NEW fb, NEW d, d = SetCrtc(display, crtc[c], fb, c)
  PROVE  /\ \A e \in Connector : d.route[e] = IF e = c THEN crtc[c] ELSE display.route[e]
         /\ \A y \in Crtc : d.shows[y] = IF y = crtc[c] THEN fb ELSE display.shows[y]
<1>1. /\ c \in Connector /\ crtc[c] \in Crtc
      /\ display.route[c] \in {crtc[c], NoCrtc}
      /\ \A e \in Connector : display.route[e] = crtc[c] => e = c
  BY OwnRoute
<1>2. \A e \in Connector : d.route[e] = IF e = c THEN crtc[c] ELSE display.route[e]
  BY <1>1 DEF SetCrtc
<1>3. ASSUME NEW y \in Crtc, y # crtc[c]
      PROVE  d.shows[y] = display.shows[y]
  <2>1. d.shows[y] = IF \E e \in Connector : d.route[e] = y THEN display.shows[y] ELSE Off
    BY <1>3 DEF SetCrtc
  <2>2. CASE \E e \in Connector : d.route[e] = y
    BY <2>1, <2>2
  <2>3. CASE \A e \in Connector : d.route[e] # y
    <3>1. \A e \in Connector : display.route[e] # y
      BY <1>1, <1>2, <1>3, <2>3, CrtcIndices
    <3> QED
      BY <2>1, <2>3, <3>1, OffIfUnrouted
  <2> QED
    BY <2>2, <2>3
<1>4. d.shows[crtc[c]] = fb
  BY <1>1 DEF SetCrtc
<1> QED
  BY <1>2, <1>3, <1>4

\* A device puts one of its buffers on its CRTC, or fails to.
LEMMA SetOwn ==
  ASSUME IInv, ~calls_fail, NoneTaken, phase # "crashed", program # "list_mode",
         NEW c \in modeset_list, NEW b \in Bufs, NEW may_fail,
         display' \in SetOutcomes(c, Fb(c, b), may_fail),
         UNCHANGED <<envVars, modeset_list, crtc>>
  PROVE  /\ RoutesKept' /\ ShowsKept'
         /\ \A d \in modeset_list \ {c} : Shows(d)' = Shows(d)
<1> USE DEF envVars
<1>1. Routes' = Routes /\ \A d : FbsOf(d)' = FbsOf(d)
  BY DEF Routes, FbsOf, Bufs, Double
<1>2. RoutesKept /\ ShowsKept
  BY DEF IInv, Restorable
<1>3. CASE display' = display
  BY <1>1, <1>2, <1>3 DEF RoutesKept, ShowsKept, Taken, Shows
<1>4. CASE display' = SetCrtc(display, crtc[c], Fb(c, b), c)
  <2>1. /\ \A e \in Connector : display'.route[e] = IF e = c THEN crtc[c] ELSE display.route[e]
        /\ \A y \in Crtc : display'.shows[y] = IF y = crtc[c] THEN Fb(c, b)
                                                       ELSE display.shows[y]
    BY <1>4, SetAlone
  <2>2. \A d \in modeset_list : d \in Connector /\ crtc[d] \in Crtc /\ (crtc[d] = crtc[c] => d = c)
    BY DEF IInv, TypeOK, Linked, Outputs
  <2>3. Taken(c)'
    <3>1. Fb(c, b) \in FbsOf(c)
      BY DEF FbsOf
    <3> QED
      BY <1>1, <2>1, <2>2, <3>1 DEF Taken, Shows
  <2>4. ASSUME NEW d \in modeset_list, d # c PROVE Shows(d)' = Shows(d) /\ Taken(d)' = Taken(d)
    <3>1. display'.shows[crtc[d]] = display.shows[crtc[d]] /\ display'.route[d] = display.route[d]
      BY <2>1, <2>2, <2>4
    <3> QED
      BY <1>1, <3>1 DEF Taken, Shows
  <2>5. RoutesKept'
    BY <1>2, <2>1, <2>3, <2>4 DEF RoutesKept, Taken
  <2>6. ShowsKept'
    <3> SUFFICES ASSUME NEW y \in Crtc
                 PROVE  \/ display'.shows[y] = Initially(Routes).shows[y]
                        \/ \E d \in modeset_list : crtc[d] = y /\ Taken(d)'
      BY <1>1 DEF ShowsKept
    <3>1. CASE y = crtc[c]
      BY <2>3, <3>1
    <3>2. CASE y # crtc[c]
      BY <1>2, <2>1, <2>4, <3>2 DEF ShowsKept
    <3> QED
      BY <3>1, <3>2
  <2> QED
    BY <2>4, <2>5, <2>6
<1> QED
  BY <1>3, <1>4 DEF SetOutcomes

\* What a device shows is its front buffer, whether the call succeeds or not.
LEMMA FrontStaysShown ==
  ASSUME IInv, BeforeCleanup, program # "list_mode",
         NEW c \in modeset_list, NEW b \in Bufs, NEW may_fail,
         display' \in SetOutcomes(c, Fb(c, b), may_fail),
         front_buf' = [front_buf EXCEPT ![c] = IF display' # display THEN b ELSE @],
         UNCHANGED <<program, modeset_list, crtc>>
  PROVE  FrontShown'
<1> USE DEF IInv
<1>1. c \in Connector /\ crtc[c] \in Crtc /\ Bufs' = Bufs
  BY DEF TypeOK, Linked, Outputs, Bufs, Double
<1>2. CASE display' = display
  <2>1. front_buf' = front_buf
    BY <1>1, <1>2 DEF TypeOK
  <2> QED
    BY <1>1, <1>2, <2>1 DEF FrontShown
<1>3. CASE display' # display
  <2>1. display' = SetCrtc(display, crtc[c], Fb(c, b), c)
    BY <1>3 DEF SetOutcomes
  <2>2. /\ display'.shows[crtc[c]] = Fb(c, b)
        /\ \A y \in Crtc \ {crtc[c]} : display'.shows[y] \in {display.shows[y], Off}
    BY <1>1, <2>1, SetShows
  <2>3. front_buf'[c] = b /\ \A e \in Connector \ {c} : front_buf'[e] = front_buf[e]
    BY <1>1, <1>3 DEF TypeOK
  <2>4. ASSUME NEW e \in Connector, NEW x \in Crtc, NEW a \in Bufs, display'.shows[x] = Fb(e, a)
        PROVE  e \in modeset_list /\ x = crtc[e] /\ a = front_buf'[e]
    <3>1. CASE x = crtc[c]
      BY <2>2, <2>3, <2>4, <3>1, FbsDiffer
    <3>2. CASE x # crtc[c]
      <4>1. display.shows[x] = Fb(e, a)
        BY <2>2, <2>4, <3>2, FbsDiffer
      <4>2. e \in modeset_list /\ x = crtc[e] /\ a = front_buf[e]
        BY <2>4, <4>1 DEF FrontShown
      <4> QED
        BY <2>3, <3>2, <4>2
    <3> QED
      BY <3>1, <3>2
  <2> QED
    BY <1>1, <2>4 DEF FrontShown
<1> QED
  BY <1>2, <1>3

\* The outcomes of a call are displays.
LEMMA OutcomesType ==
  ASSUME TypeOK, NEW c \in Connector, crtc[c] \in Crtc, NEW fb \in Framebuffers(Bufs),
         NEW may_fail
  PROVE  SetOutcomes(c, fb, may_fail) \subseteq Displays(Bufs)
<1>1. display \in Displays(Bufs)
  BY DEF TypeOK
<1>2. SetCrtc(display, crtc[c], fb, c) \in Displays(Bufs)
  BY <1>1, SetCrtcType
<1> QED
  BY <1>1, <1>2 DEF SetOutcomes

----------------------------------------------------------------------------
(* The modeset loop *)

LEMMA ModesetDeviceOk == IInv /\ program # "list_mode" /\ ModesetDevice => IInv'
<1> SUFFICES ASSUME IInv, program # "list_mode", ModesetDevice PROVE IInv'
  OBVIOUS
<1> DEFINE c == Max(todo)
<1>1. c \in todo /\ c \in modeset_list
  BY MaxIsElement, ModesetAssumption DEF ModesetDevice, IInv, TypeOK
<1> HIDE DEF c
<1> USE DEF envVars
<1>2. /\ phase = "modeset" /\ todo' = todo \ {c}
      /\ \E saved \in {SavedOf(c)} \cup (IF calls_fail THEN {Null} ELSE {}) :
            saved_crtc' = [saved_crtc EXCEPT ![c] = saved]
      /\ display' \in SetOutcomes(c, Fb(c, front_buf[c]), MayFail(c))
      /\ UNCHANGED <<envVars, phase, i, modeset_list, crtc, height, front_buf, held, round>>
  BY DEF ModesetDevice, c
<1>3. PICK saved \in {SavedOf(c)} \cup (IF calls_fail THEN {Null} ELSE {}) :
        saved_crtc' = [saved_crtc EXCEPT ![c] = saved]
  BY <1>2
<1>4. /\ Outputs' = Outputs /\ Bufs' = Bufs /\ Routes' = Routes /\ Reported' = Reported
      /\ \A d : FbsOf(d)' = FbsOf(d)
  BY <1>2 DEF Outputs, Bufs, Double, Routes, Reported, FbsOf
<1>5. /\ TypeOK /\ c \in Connector /\ crtc[c] \in Crtc /\ front_buf[c] \in Bufs
      /\ Fb(c, front_buf[c]) \in Framebuffers(Bufs)
  BY <1>1 DEF IInv, TypeOK, Linked, Outputs, Fb, Framebuffers
<1>6. TypeOK'
  <2>1. display' \in Displays(Bufs)
    BY <1>2, <1>5, OutcomesType
  <2>2. saved \in Framebuffers(Bufs) \cup {Null}
    BY <1>5, DisplayFields DEF SavedOf
  <2> QED
    BY <1>2, <1>3, <1>4, <1>5, <2>1, <2>2 DEF TypeOK
<1>7. Linked' /\ NothingLeaks' /\ Untouched' /\ NoCrash'
  BY <1>2, <1>4 DEF IInv, Linked, BeforeCleanup, NothingLeaks, Untouched, NoCrash
<1>8. FrontShown'
  <2>1. front_buf' = [front_buf EXCEPT ![c] = IF display' # display THEN front_buf[c] ELSE @]
    BY <1>2, <1>5 DEF TypeOK
  <2> QED
    BY <1>1, <1>2, <1>5, <2>1, FrontStaysShown DEF BeforeCleanup
<1>9. Restorable'
  <2> SUFFICES ASSUME ~calls_fail, NoneTaken
               PROVE  BoundKept' /\ RoutesKept' /\ ShowsKept' /\ SavedFirst'
    BY <1>2, <1>4 DEF Restorable, NoneTaken
  <2>1. BoundKept'
    BY <1>2, <1>4 DEF IInv, Restorable, BoundKept
  <2>2. /\ RoutesKept' /\ ShowsKept'
        /\ \A d \in modeset_list \ {c} : Shows(d)' = Shows(d)
    BY <1>1, <1>2, <1>5, SetOwn
  <2>3. ShowsKept /\ SavedFirst
    BY <1>2 DEF IInv, Restorable
  <2>4. saved = Initially(Routes).shows[crtc[c]]
    <3>1. ~Shows(c) /\ saved = display.shows[crtc[c]]
      BY <1>1, <1>2, <2>3 DEF SavedFirst, SavedOf
    <3>2. \A d \in modeset_list : crtc[d] = crtc[c] => d = c
      BY <1>1 DEF IInv, Linked
    <3> QED
      BY <1>5, <2>3, <3>1, <3>2 DEF ShowsKept, Taken
  <2>5. ASSUME NEW d \in modeset_list, d \notin todo'
        PROVE  saved_crtc'[d] = Initially(Routes).shows[crtc[d]]
    <3>1. CASE d = c
      BY <1>3, <1>5, <2>4, <3>1 DEF TypeOK
    <3>2. CASE d # c
      <4>1. d \in Connector /\ saved_crtc'[d] = saved_crtc[d]
        BY <1>3, <1>5, <3>2 DEF TypeOK
      <4> QED
        BY <1>2, <2>3, <2>5, <3>2, <4>1 DEF SavedFirst
    <3> QED
      BY <3>1, <3>2
  <2>6. ASSUME NEW d \in modeset_list, d \in todo' PROVE ~Shows(d)'
    BY <1>2, <2>2, <2>3, <2>6 DEF SavedFirst
  <2>7. SavedFirst'
    BY <1>2, <1>4, <2>5, <2>6 DEF SavedFirst, Set
  <2> QED
    BY <2>1, <2>2, <2>7
<1> QED
  BY <1>6, <1>7, <1>8, <1>9 DEF IInv

----------------------------------------------------------------------------
(* The exchange of the buffers *)

LEMMA DrawBackOk == IInv /\ Double /\ DrawBack => IInv'
<1> SUFFICES ASSUME IInv, Double, DrawBack PROVE IInv'
  OBVIOUS
<1> DEFINE c == Max(todo)
<1>1. c \in todo /\ c \in modeset_list
  BY MaxIsElement, ModesetAssumption DEF DrawBack, IInv, TypeOK
<1> HIDE DEF c
<1> USE DEF envVars
<1>2. /\ phase = "draw" /\ todo' = todo \ {c} /\ program # "list_mode"
      /\ display' \in SetOutcomes(c, Fb(c, BackBuffer(c)), MayFail(c))
      /\ front_buf' = [front_buf EXCEPT ![c] = Exchanged(c, display' # display)]
      /\ UNCHANGED <<envVars, phase, i, modeset_list, crtc, height, saved_crtc, held, round>>
  BY DEF DrawBack, c, Double
<1>3. /\ Outputs' = Outputs /\ Bufs' = Bufs /\ Routes' = Routes /\ Reported' = Reported
  BY <1>2 DEF Outputs, Bufs, Double, Routes, Reported
<1>4. /\ TypeOK /\ c \in Connector /\ crtc[c] \in Crtc /\ BackBuffer(c) \in Bufs
      /\ Fb(c, BackBuffer(c)) \in Framebuffers(Bufs)
  <2>1. TypeOK /\ c \in Connector /\ crtc[c] \in Crtc
    BY <1>1, <1>2 DEF IInv, TypeOK, Linked, Outputs
  <2>2. BackBuffer(c) \in Bufs
    BY <2>1 DEF BackBuffer, Bufs, TypeOK
  <2> QED
    BY <2>1, <2>2 DEF Fb, Framebuffers
<1>5. front_buf' = [front_buf EXCEPT ![c] = IF display' # display THEN BackBuffer(c) ELSE @]
  BY <1>2, <1>4 DEF Exchanged, TypeOK
<1>6. TypeOK'
  <2>1. display' \in Displays(Bufs)
    BY <1>2, <1>4, OutcomesType
  <2>2. front_buf' \in [Connector -> Bufs]
    BY <1>4, <1>5 DEF TypeOK
  <2> QED
    BY <1>2, <1>3, <1>4, <2>1, <2>2 DEF TypeOK
<1>7. Linked' /\ NothingLeaks' /\ Untouched' /\ NoCrash'
  BY <1>2, <1>3 DEF IInv, Linked, BeforeCleanup, NothingLeaks, Untouched, NoCrash
<1>8. FrontShown'
  BY <1>1, <1>2, <1>4, <1>5, FrontStaysShown DEF BeforeCleanup
<1>9. Restorable'
  <2> SUFFICES ASSUME ~calls_fail, NoneTaken
               PROVE  BoundKept' /\ RoutesKept' /\ ShowsKept' /\ SavedFirst'
    BY <1>2, <1>3 DEF Restorable, NoneTaken
  <2>1. BoundKept'
    BY <1>2, <1>3 DEF IInv, Restorable, BoundKept
  <2>2. RoutesKept' /\ ShowsKept'
    BY <1>1, <1>2, <1>4, SetOwn
  <2>3. SavedFirst'
    BY <1>2, <1>3 DEF IInv, Restorable, SavedFirst, Set
  <2> QED
    BY <2>1, <2>2, <2>3
<1> QED
  BY <1>6, <1>7, <1>8, <1>9 DEF IInv

----------------------------------------------------------------------------
(* modeset_cleanup() *)

\* What a device shows, it shows with its connector on its own CRTC; removing
\* its framebuffers turns off that CRTC and no other.
LEMMA OwnShown ==
  ASSUME IInv, ~calls_fail, NoneTaken, phase # "crashed", program # "list_mode",
         NEW c \in modeset_list, NEW x \in Crtc, display.shows[x] \in FbsOf(c)
  PROVE  x = crtc[c]
<1>1. display.shows[x] # Initially(Routes).shows[x]
  BY FirstShown, c \in Connector DEF IInv, TypeOK
<1>2. PICK d \in modeset_list : crtc[d] = x /\ Taken(d)
  BY <1>1 DEF IInv, Restorable, ShowsKept
<1>3. display.shows[x] \in FbsOf(d)
  BY <1>2 DEF Taken, Shows
<1>4. d = c
  BY <1>3, FbsDiffer DEF FbsOf
<1> QED
  BY <1>2, <1>4

\* A device that is taken off the list leaves its connector and its CRTC as
\* they were at first, and the others as they are.
LEMMA DeviceRestored ==
  ASSUME IInv, ~calls_fail, NoneTaken, phase = "cleanup", program # "list_mode",
         NEW c \in modeset_list, NEW restored \in SetOutcomes(c, saved_crtc[c], calls_fail),
         NEW d, d = Remove(restored, FbsOf(c))
  PROVE  /\ \A e \in Connector : d.route[e] = IF e = c THEN conns[c].bound ELSE display.route[e]
         /\ \A x \in Crtc : d.shows[x] = IF x = crtc[c] THEN Initially(Routes).shows[x]
                                                      ELSE display.shows[x]
<1>1. /\ TypeOK /\ BoundKept /\ RoutesKept /\ ShowsKept /\ SavedFirst
      /\ saved_crtc[c] = Initially(Routes).shows[crtc[c]]
  BY DEF IInv, Restorable, SavedFirst, Set
<1>2. /\ c \in Connector /\ crtc[c] \in Crtc /\ c \in Outputs
      /\ display.route[c] \in {crtc[c], NoCrtc}
      /\ \A e \in Connector : display.route[e] = crtc[c] => e = c
  BY OwnRoute DEF Outputs
<1>3. conns[c].bound \in {crtc[c], NoCrtc}
  BY <1>1, <1>2 DEF BoundKept
<1>4. \A x \in Crtc : display.shows[x] \in FbsOf(c) => x = crtc[c]
  BY OwnShown
<1>5. CASE saved_crtc[c] = Off
  <2>1. conns[c].bound = NoCrtc
    BY <1>1, <1>2, <1>3, <1>5, FirstShown, FbsDiffer
  <2>2. restored = display
    BY <1>5 DEF SetOutcomes
  <2>3. CASE Shows(c)
    <3>1. \A x \in Crtc : d.shows[x] = IF x = crtc[c] THEN Off ELSE display.shows[x]
      BY <1>2, <1>4, <2>2, <2>3 DEF Remove, Shows
    <3>2. \A e \in Connector : d.route[e] = IF display.route[e] = crtc[c] THEN NoCrtc
                                                             ELSE display.route[e]
      BY <1>2, <1>4, <2>2, <2>3 DEF Remove, Shows
    <3>3. \A e \in Connector : d.route[e] = IF e = c THEN NoCrtc ELSE display.route[e]
      BY <1>2, <3>2
    <3> QED
      BY <1>1, <1>5, <2>1, <3>1, <3>3
  <2>4. CASE ~Shows(c)
    <3>1. \A x \in Crtc : display.shows[x] \notin FbsOf(c)
      BY <1>4, <2>4 DEF Shows
    <3>2. /\ \A x \in Crtc : d.shows[x] = display.shows[x]
          /\ \A e \in Connector : d.route[e] = display.route[e]
      BY <2>2, <3>1 DEF Remove
    <3>3. display.route[c] = conns[c].bound
      BY <1>1, <1>2, <2>4 DEF RoutesKept, Taken
    <3>4. display.shows[crtc[c]] = Initially(Routes).shows[crtc[c]]
      <4>1. \A e \in modeset_list : crtc[e] = crtc[c] => e = c
        BY DEF IInv, Linked
      <4> QED
        BY <1>1, <1>2, <2>4, <4>1 DEF ShowsKept, Taken
    <3> QED
      BY <3>2, <3>3, <3>4
  <2> QED
    BY <2>3, <2>4
<1>6. CASE saved_crtc[c] # Off
  <2>1. saved_crtc[c] = Old(crtc[c])
    BY <1>1, <1>2, <1>6, FirstShown
  <2>2. conns[c].bound = crtc[c]
    BY <1>1, <1>2, <2>1, FirstShown DEF NoneTaken
  <2>3. restored = SetCrtc(display, crtc[c], saved_crtc[c], c)
    BY <1>6 DEF SetOutcomes
  <2>4. /\ \A e \in Connector : restored.route[e] = IF e = c THEN crtc[c] ELSE display.route[e]
        /\ \A x \in Crtc : restored.shows[x] = IF x = crtc[c] THEN saved_crtc[c]
                                                         ELSE display.shows[x]
    BY <2>3, SetAlone
  <2>5. \A x \in Crtc : restored.shows[x] \notin FbsOf(c)
    BY <1>1, <1>2, <1>4, <2>4, FirstShown
  <2>6. /\ \A x \in Crtc : d.shows[x] = restored.shows[x]
        /\ \A e \in Connector : d.route[e] = restored.route[e]
    BY <2>5 DEF Remove
  <2> QED
    BY <1>1, <2>2, <2>4, <2>6
<1> QED
  BY <1>5, <1>6

LEMMA CleanupDeviceOk == IInv /\ CleanupDevice => IInv'
<1> SUFFICES ASSUME IInv, CleanupDevice PROVE IInv'
  OBVIOUS
<1> DEFINE c == Max(modeset_list)
<1>1. c \in modeset_list /\ c \in Connector
  BY MaxIsElement, ModesetAssumption DEF CleanupDevice, IInv, TypeOK
<1> HIDE DEF c
<1> USE DEF envVars
<1>2. /\ phase = "cleanup" /\ saved_crtc[c] # Null
      /\ modeset_list' = modeset_list \ {c} /\ todo' = todo \ {c}
      /\ held' = [held EXCEPT ![c] = {}]
      /\ UNCHANGED <<envVars, phase, i, crtc, height, front_buf, saved_crtc, round>>
  BY DEF CleanupDevice, c
<1>3. PICK restored \in SetOutcomes(c, saved_crtc[c], calls_fail) :
        display' = Remove(restored, FbsOf(c))
  BY DEF CleanupDevice, c
<1>4. /\ Outputs' = Outputs /\ Bufs' = Bufs /\ Routes' = Routes /\ Reported' = Reported
      /\ \A d : FbsOf(d)' = FbsOf(d)
  BY <1>2 DEF Outputs, Bufs, Double, Routes, Reported, FbsOf
<1>5. TypeOK /\ program # "list_mode" /\ crtc[c] \in Crtc
  BY <1>1, <1>2 DEF IInv, Linked, Outputs
<1>6. TypeOK'
  <2>1. saved_crtc[c] \in Framebuffers(Bufs)
    BY <1>1, <1>2, <1>5 DEF TypeOK
  <2>2. restored \in Displays(Bufs)
    BY <1>1, <1>5, <2>1, OutcomesType
  <2>3. display' \in Displays(Bufs)
    BY <1>3, <2>2, RemoveType
  <2>4. held' \in [Connector -> SUBSET (Kinds \X Bufs)]
    BY <1>2, <1>5 DEF TypeOK
  <2> QED
    BY <1>2, <1>4, <1>5, <2>3, <2>4 DEF TypeOK
<1>7. Linked' /\ Untouched' /\ NoCrash' /\ FrontShown'
  BY <1>2, <1>4, <1>5 DEF IInv, Linked, BeforeCleanup, Untouched, NoCrash, FrontShown
<1>8. NothingLeaks'
  BY <1>1, <1>2, <1>4, <1>5 DEF IInv, NothingLeaks, TypeOK
<1>9. Restorable'
  <2> SUFFICES ASSUME ~calls_fail, NoneTaken
               PROVE  BoundKept' /\ RoutesKept' /\ ShowsKept' /\ SavedFirst'
    BY <1>2, <1>4 DEF Restorable, NoneTaken
  <2>1. BoundKept /\ RoutesKept /\ ShowsKept /\ SavedFirst
    BY <1>2 DEF IInv, Restorable
  <2>2. /\ \A e \in Connector : display'.route[e] = IF e = c THEN conns[c].bound
                                                            ELSE display.route[e]
        /\ \A x \in Crtc : display'.shows[x] = IF x = crtc[c] THEN Initially(Routes).shows[x]
                                                            ELSE display.shows[x]
    BY <1>1, <1>2, <1>3, <1>5, DeviceRestored
  <2>3. ASSUME NEW e \in modeset_list \ {c}, Taken(e) PROVE Taken(e)'
    <3>1. e \in Connector /\ crtc[e] \in Crtc /\ crtc[e] # crtc[c]
      BY <1>1, <1>5, <2>3 DEF IInv, Linked, Outputs
    <3> QED
      BY <1>2, <1>4, <2>2, <2>3, <3>1 DEF Taken, Shows
  <2>4. BoundKept' /\ SavedFirst'
    BY <1>2, <1>4, <2>1 DEF BoundKept, SavedFirst, Set
  <2>5. RoutesKept'
    BY <1>2, <2>1, <2>2, <2>3 DEF RoutesKept, Taken
  <2>6. ShowsKept'
    <3> SUFFICES ASSUME NEW y \in Crtc
                 PROVE  \/ display'.shows[y] = Initially(Routes).shows[y]
                        \/ \E d \in modeset_list \ {c} : crtc[d] = y /\ Taken(d)'
      BY <1>2, <1>4 DEF ShowsKept
    <3>1. CASE y = crtc[c]
      BY <2>2, <3>1
    <3>2. CASE y # crtc[c]
      BY <2>1, <2>2, <2>3, <3>2 DEF ShowsKept
    <3> QED
      BY <3>1, <3>2
  <2> QED
    BY <2>4, <2>5, <2>6
<1> QED
  BY <1>6, <1>7, <1>8, <1>9 DEF IInv

----------------------------------------------------------------------------
(* Crashes *)

\* A crash leaves a display, and nothing else is promised after it.
LEMMA CrashOk ==
  ASSUME IInv, Crash, ~(WellUsed /\ NoneTaken), program # "list_mode",
         UNCHANGED <<envVars, i, modeset_list, todo, devVars, round>>
  PROVE  IInv'
<1> USE DEF IInv, Crash, envVars, devVars
<1>1. /\ Outputs' = Outputs /\ Bufs' = Bufs /\ Routes' = Routes /\ Reported' = Reported
  BY DEF Outputs, Bufs, Double, Routes, Reported
<1>2. TypeOK'
  <2>1. display' \in Displays(Bufs)
    BY RemoveType DEF TypeOK
  <2> QED
    BY <1>1, <2>1 DEF TypeOK
<1>3. Linked'
  BY <1>1 DEF Linked, BeforeCleanup
<1>4. NothingLeaks' /\ Untouched' /\ FrontShown'
  BY DEF NothingLeaks, Untouched, FrontShown, BeforeCleanup
<1>5. Restorable'
  BY <1>1 DEF Restorable, NoneTaken, BoundKept
<1>6. NoCrash'
  BY <1>1 DEF NoCrash, NoneTaken, WellUsed
<1> QED
  BY <1>2, <1>3, <1>4, <1>5, <1>6

\* modeset13.c: a mode with as many lines as the margins has a line at each.
LEMMA DrawCrashesOk == IInv /\ program = "modeset13" /\ DrawCrashes => IInv'
<1> SUFFICES ASSUME IInv, program = "modeset13", DrawCrashes PROVE IInv'
  OBVIOUS
<1>1. ASSUME WellUsed, NoneTaken PROVE FALSE
  <2>1. PICK c \in modeset_list : ~Inside(height[c], round) /\ round < Passes
    BY DEF DrawCrashes
  <2>2. height[c] >= Passes - 1 /\ height[c] \in Nat /\ round \in Nat
    BY <1>1, <2>1 DEF WellUsed, IInv, Linked, TypeOK, Outputs
  <2> QED
    BY <2>1, <2>2 DEF Inside, End, Passes
<1> QED
  BY <1>1, CrashOk DEF DrawCrashes

\* The cairo program without an output.
LEMMA DrawNothingOk == IInv /\ program = "cairo" /\ DrawNothing => IInv'
<1> SUFFICES ASSUME IInv, program = "cairo", DrawNothing PROVE IInv'
  OBVIOUS
<1>1. ~WellUsed
  BY DEF DrawNothing, IInv, Linked, BeforeCleanup, WellUsed
<1> QED
  BY <1>1, CrashOk DEF DrawNothing

\* A CRTC that could not be saved.
LEMMA CleanupCrashesOk == IInv /\ CleanupCrashes => IInv'
<1> SUFFICES ASSUME IInv, CleanupCrashes PROVE IInv'
  OBVIOUS
<1>1. program # "list_mode"
  BY DEF CleanupCrashes, IInv, Linked
<1>2. ASSUME WellUsed, NoneTaken PROVE FALSE
  <2> DEFINE c == Max(modeset_list)
  <2>1. c \in modeset_list
    BY MaxIsElement, ModesetAssumption DEF CleanupCrashes, IInv, TypeOK
  <2>2. saved_crtc[c] = Null
    BY DEF CleanupCrashes
  <2> HIDE DEF c
  <2>3. saved_crtc[c] = Initially(Routes).shows[crtc[c]] /\ crtc[c] \in Crtc
    BY <1>1, <1>2, <2>1 DEF CleanupCrashes, WellUsed, IInv, Restorable, SavedFirst, Set,
                            Linked, Outputs
  <2> QED
    BY <2>2, <2>3, FirstShown
<1> QED
  BY <1>1, <1>2, CrashOk DEF CleanupCrashes

----------------------------------------------------------------------------
(* Every step keeps the invariant *)

LEMMA InitOk == Init => IInv
<1> SUFFICES ASSUME Init PROVE IInv
  OBVIOUS
<1>1. TypeOK
  <2>1. Routes \in [Connector -> Crtc \cup {NoCrtc}]
    BY DEF Init, Routes, Reported, ConnectorsWith
  <2>2. \A x \in Crtc : Initially(Routes).shows[x] \in Framebuffers(Bufs)
    BY FirstShown DEF Framebuffers, Old
  <2>3. display \in Displays(Bufs)
    BY <2>1, <2>2 DEF Init, Initially, Displays
  <2>4. 0 \in 0 .. Max({Rounds, 3})
    BY RoundsMax, ModesetAssumption
  <2> QED
    BY <2>3, <2>4, ModesetAssumption DEF Init, TypeOK, Bufs
<1>2. Outputs = {} /\ modeset_list = {}
  BY CrtcIndices DEF Init, Outputs
<1>3. Linked /\ NothingLeaks /\ Untouched /\ NoCrash
  BY <1>2 DEF Init, Linked, NothingLeaks, Untouched, NoCrash
<1>4. FrontShown
  BY FirstShown DEF Init, FrontShown, FbsOf
<1>5. Restorable
  BY <1>2 DEF Init, Restorable, BoundKept, RoutesKept, ShowsKept, SavedFirst, Set,
              Initially, Routes
<1> QED
  BY <1>1, <1>3, <1>4, <1>5 DEF IInv

\* Which steps are only moves of main().
LEMMA MovesAre ==
  ASSUME IInv,
         \/ Open \/ NoResources \/ SkipConnector \/ NoCrtcLeft
         \/ program # "list_mode" /\ (EndPrepare \/ EndModeset)
         \/ DrawRound \/ EndDraw \/ DrawPass \/ EndDraw2 \/ DrawLine \/ EndRound
         \/ Exit \/ (program = "list_mode" /\ EndList)
  PROVE  Moves
<1> USE DEF Moves, Onwards, More, NextConnector, devVars, envVars
<1>1. CASE Open \/ NoResources \/ SkipConnector \/ NoCrtcLeft
  BY <1>1 DEF Open, NoResources, SkipConnector, NoCrtcLeft
<1>2. CASE program # "list_mode" /\ (EndPrepare \/ EndModeset)
  BY <1>2 DEF EndPrepare, EndModeset
<1>3. CASE DrawRound \/ EndDraw \/ DrawPass \/ EndDraw2 \/ DrawLine \/ EndRound
  BY <1>3 DEF DrawRound, EndDraw, DrawPass, EndDraw2, DrawLine, EndRound, Passes
<1>4. CASE Exit \/ (program = "list_mode" /\ EndList)
  BY <1>4 DEF Exit, EndList
<1> QED
  BY <1>1, <1>2, <1>3, <1>4

LEMMA InvariantHolds == Spec => []IInv
<1>1. IInv /\ [Next]_vars => IInv'
  <2> SUFFICES ASSUME IInv, [Next]_vars PROVE IInv'
    OBVIOUS
  <2>m. \/ Open \/ NoResources \/ SkipConnector \/ NoCrtcLeft
        \/ program # "list_mode" /\ (EndPrepare \/ EndModeset)
        \/ DrawRound \/ EndDraw \/ DrawPass \/ EndDraw2 \/ DrawLine \/ EndRound
        \/ Exit \/ (program = "list_mode" /\ EndList)
        => IInv'
    BY MovesAre, MovesOk
  <2>d. FbFails \/ CleanupDevice \/ CleanupCrashes => IInv'
    BY FbFailsOk, CleanupDeviceOk, CleanupCrashesOk
  <2>l. program # "list_mode" /\ (SetupDevice \/ ModesetDevice) => IInv'
    BY SetupDeviceOk, ModesetDeviceOk
  <2>1. CASE ModesetNext
    <3>1. /\ program # "list_mode"
          /\ Open \/ Prepare \/ Setup \/ Main \/ Draw \/ Cleanup
      BY <2>1 DEF ModesetNext
    <3> QED
      BY <2>m, <2>d, <2>l, <3>1 DEF Prepare, Setup, Main, Draw, Cleanup
  <2>2. CASE Modeset13Next
    <3>1. /\ program # "list_mode" /\ program = "modeset13"
          /\ \/ Open \/ Prepare \/ NoCrtcLeft \/ FbFails \/ SetupDevice \/ Main
             \/ DrawPass \/ DrawCrashes \/ EndDraw2 \/ Cleanup
      BY <2>2 DEF Modeset13Next, Open13, Prepare13, FindCrtc13, CreateFb13,
         SetupDevice13, Main13, Cleanup13
    <3> QED
      BY <2>m, <2>d, <2>l, <3>1, DrawCrashesOk DEF Prepare, Main, Cleanup
  <2>3. CASE CairoNext
    <3>1. /\ program # "list_mode" /\ program = "cairo"
          /\ \/ Open \/ Prepare \/ NoCrtcLeft \/ FbFails \/ SetupDevice \/ Main
             \/ DrawLine \/ DrawNothing \/ Cleanup
      BY <2>3 DEF CairoNext, OpenCairo, PrepareCairo, FindCrtcCairo,
         CreateFbCairo, SetupDeviceCairo, MainCairo, CleanupCairo
    <3> QED
      BY <2>m, <2>d, <2>l, <3>1, DrawNothingOk DEF Prepare, Main, Cleanup
  <2>4. CASE ListModeNext
    BY <2>m, <2>4, ListModesOk DEF ListModeNext, OpenList, SkipInList
  <2>5. CASE DoubleNext
    <3>1. /\ program # "list_mode" /\ Double
          /\ \/ Open \/ Prepare \/ NoCrtcLeft \/ FbFails \/ SetupDevice \/ Main
             \/ DrawBack \/ EndRound \/ EndDraw \/ Cleanup
      BY <2>5 DEF DoubleNext, Double, OpenDouble, PrepareDouble, FindCrtcDouble,
         CreateFbDouble, SetupDeviceDouble, MainDouble, EndDrawDouble, CleanupDouble
    <3> QED
      BY <2>m, <2>d, <2>l, <3>1, DrawBackOk DEF Prepare, Main, Cleanup
  <2>6. CASE UNCHANGED vars
    BY <2>6, MovesOk DEF vars, Moves, Onwards, envVars, devVars
  <2> QED
    BY <2>1, <2>2, <2>3, <2>4, <2>5, <2>6 DEF Next
<1> QED
  BY <1>1, InitOk, PTL DEF Spec

----------------------------------------------------------------------------
(* The theorems *)

\* Every variable stays in its type: in particular every CRTC found is one of
\* the card's, and what is saved is a framebuffer, or the null pointer of a
\* drmModeGetCrtc() that failed.
THEOREM TypeCorrect == Spec => []TypeOK
<1>1. IInv => TypeOK
  BY DEF IInv
<1> QED
  BY <1>1, InvariantHolds, PTL

\* A connector that modeset_create_fb() or modeset_setup_dev() gives up holds
\* nothing, and after modeset_cleanup() none does.
THEOREM NeverLeaks == Spec => []NothingLeaks
<1>1. IInv => NothingLeaks
  BY DEF IInv
<1> QED
  BY <1>1, InvariantHolds, PTL

\* modeset_draw() of modeset-double-buffered.c paints a buffer that no screen
\* shows, whichever drmModeSetCrtc() failed before.
THEOREM BackBufferStaysHidden == Spec => []BackBufferHidden
<1>1. IInv => BackBufferHidden
  <2> SUFFICES ASSUME IInv, Double, phase = "draw", NEW c \in modeset_list
               PROVE  display.shows[crtc[c]] # Fb(c, BackBuffer(c))
    BY DEF BackBufferHidden
  <2>1. c \in Connector /\ crtc[c] \in Crtc /\ front_buf[c] \in {0, 1}
    BY DEF IInv, TypeOK, Linked, Outputs, Double, Bufs
  <2>2. BackBuffer(c) \in Bufs /\ BackBuffer(c) # front_buf[c]
    BY <2>1 DEF BackBuffer, Bufs
  <2> QED
    BY <2>1, <2>2 DEF IInv, FrontShown, BeforeCleanup
<1> QED
  BY <1>1, InvariantHolds, PTL

\* If no call fails and no output was set on a CRTC that another connector was
\* on, modeset_cleanup() leaves every connector and every CRTC as main() found
\* them, and nothing crashes on the way.
THEOREM DisplayRestored == Spec => []LeavesAsFound
<1>1. IInv => LeavesAsFound
  <2> SUFFICES ASSUME IInv, WellUsed, NoneTaken, phase = "done"
               PROVE  display = Initially(Routes)
    BY DEF LeavesAsFound, IInv, NoCrash
  <2>1. CASE program = "list_mode"
    BY <2>1 DEF IInv, Untouched
  <2>2. CASE program # "list_mode"
    <3>1. modeset_list = {} /\ RoutesKept /\ ShowsKept
      BY <2>2 DEF IInv, Linked, WellUsed, Restorable
    <3>2. \A e \in Connector : display.route[e] = Routes[e]
      BY <3>1 DEF RoutesKept, Taken, Routes
    <3>3. \A x \in Crtc : display.shows[x] = Initially(Routes).shows[x]
      BY <3>1 DEF ShowsKept
    <3>4. TypeOK
      BY DEF IInv
    <3>5. display.route = Routes
      BY <3>2, <3>4, DisplayFields DEF Routes
    <3>6. display.shows = Initially(Routes).shows
      BY <3>3, <3>4, DisplayFields, InitiallyType DEF Displays
    <3> QED
      BY <3>4, <3>5, <3>6, DisplayFields DEF Initially
  <2> QED
    BY <2>1, <2>2
<1> QED
  BY <1>1, InvariantHolds, PTL

=============================================================================
