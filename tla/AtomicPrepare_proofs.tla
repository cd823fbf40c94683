------------------------ MODULE AtomicPrepare_proofs ------------------------
(***************************************************************************)
(* For every graphics card: no two outputs of modeset-atomic.c get the     *)
(* same CRTC, one that is given up keeps nothing, and if no CRTC was in    *)
(* use at first, each output gets a primary plane that works with its CRTC.*)
(***************************************************************************)
EXTENDS TLAPS, AtomicPrepare, WellFoundedInduction

----------------------------------------------------------------------------
(* The inductive invariant *)

\* Outputs are linked in the order of their connectors.
ListPassed == \A c \in output_list : c < i

\* The connector modeset_prepare() is at holds what the calls so far have
\* acquired, and those to come hold nothing.
Later      == ObjectSteps \cup BufferSteps
Busy       == {"blob", "crtc", "plane"} \cup Later
Unfinished == {"open", "resources"} \cup Busy
BufferHeld == CASE step = "addfb"           -> {<<"handle", buf>>}
                [] step \in {"map", "mmap"} -> {<<"handle", buf>>, <<"fb", buf>>}
                [] OTHER                    -> {}
HeldSoFar  == CASE step \in {"crtc", "plane", "connector_props"} -> {Blob}
                [] step = "crtc_props"   -> {Blob, <<"connector", 0>>}
                [] step = "plane_props"  -> {Blob, <<"connector", 0>>, <<"crtc", 0>>}
                [] step \in BufferSteps  -> {Blob} \cup Props \cup BufferHeld
                                              \cup (IF buf = 1 THEN OfBuf(0) ELSE {})
                [] OTHER -> {}
HalfMade ==
  /\ step \in Busy => More
  /\ step \in Unfinished =>
       \A c \in Connector : /\ c = i => held[c] = HeldSoFar
                            /\ c > i => held[c] = {}

\* No two outputs have the same CRTC.
CrtcsDistinct ==
  /\ \A c \in output_list : crtc[c] \in Crtc
  /\ \A c, d \in output_list : crtc[c] = crtc[d] => c = d

\* The CRTC that was found is free, and if it was searched for, its index is
\* the one modeset_find_plane() goes by.
CrtcChosen ==
  step \in {"plane"} \cup Later =>
    crtc[i] \in Crtc \ Used /\ (Unbound => crtc_index[i] = crtc[i])

\* So the planes fit, those of the outputs on the list and the one just found.
PlaneFits(c) ==
  /\ plane[c] \in DOMAIN planes
  /\ planes[plane[c]].primary
  /\ crtc[c] \in planes[plane[c]].crtcs
PlaneChosen ==
  Unbound =>
    /\ \A c \in output_list : PlaneFits(c)
    /\ step \in Later => PlaneFits(i)

IInv ==
  /\ TypeOK
  /\ ListPassed
  /\ HalfMade
  /\ NothingLeaks
  /\ CrtcsDistinct
  /\ CrtcChosen
  /\ PlaneChosen

\* The names of the steps are told apart throughout.
USE DEF Later, ObjectSteps, BufferSteps

----------------------------------------------------------------------------
(* The searches pick the first of a set of encoders, of CRTCs or of planes. *)

Less == {ss \in Nat \X Nat : ss[1] < ss[2]}

\* Every nonempty set of naturals has a first element (both searches go
\* upwards).
LEMMA LessWellFounded == IsWellFoundedOn(Less, Nat)
  BY NatLessThanWellFounded, Zenon DEF OpToRel, Less

\* Membership in Less, for the pair of an element and a smaller one.
LEMMA LessPair ==
  ASSUME NEW m \in Nat, NEW n \in Nat, m < n
  PROVE  <<m, n>> \in Less
<1>1. <<m, n>> \in Nat \X Nat
  OBVIOUS
<1>2. <<m, n>>[1] < <<m, n>>[2]
  OBVIOUS
<1>3. QED
  BY <1>1, <1>2, Zenon DEF Less

\* What a loop finds first is one of the things it looks for.
LEMMA MinIsElement ==
  ASSUME NEW S \in SUBSET Nat, S # {}
  PROVE  Min(S) \in S
<1>1. PICK m \in S : \A n \in S : <<n, m>> \notin Less
  BY LessWellFounded, WFMin, Zenon
<1>2. ASSUME NEW n \in S PROVE m <= n
  <2>1. m \in Nat /\ n \in Nat
    OBVIOUS
  <2>2. ~(n < m)
    BY <1>1, <2>1, LessPair
  <2>3. QED
    BY <2>1, <2>2
<1>3. QED
  BY <1>2 DEF Min

----------------------------------------------------------------------------
(* modeset_find_crtc() and modeset_find_plane() *)

\* CRTC indices are naturals, and "none" is not one of them.
LEMMA CrtcIndices == Crtc \in SUBSET Nat /\ NoCrtc \notin Crtc
  BY AtomicPrepareAssumption DEF Crtc, NoCrtc

\* What a successful search finds is a CRTC that no output on the list has.
LEMMA FoundFree ==
  ASSUME TypeOK, i \in Connector,
         NEW c \in {conns[i], [conns[i] EXCEPT !.bound = NoCrtc]},
         NEW got \in SUBSET (DOMAIN conns[i].encoders),
         NEW found, found = FindCrtc(c, Used, got), found # NoCrtc
  PROVE  found \in Crtc \ Used
<1>1. /\ conns[i].bound \in Crtc \cup {NoCrtc}
      /\ conns[i].encoders \in Seq(SUBSET Crtc)
      /\ c.bound \in {conns[i].bound, NoCrtc} /\ c.encoders = conns[i].encoders
  <2>1. conns[i] \in ConnectorsWith(Encoders)
    BY DEF TypeOK
  <2>2. /\ conns[i] \in [bound : Crtc \cup {NoCrtc}, encoders : Encoders]
    BY <2>1 DEF ConnectorsWith
  <2> QED
    BY <2>2, AtomicPrepareAssumption
<1>2. CASE BoundFree(c, Used)
  BY <1>1, <1>2 DEF FindCrtc, BoundFree
<1>3. CASE ~BoundFree(c, Used)
  <2> DEFINE enc    == conns[i].encoders
             usable == {k \in got : enc[k] \ Used # {}}
             free   == enc[Min(usable)] \ Used
  <2>1. usable # {} /\ found = Min(free)
    BY <1>1, <1>3 DEF FindCrtc, FirstFree
  <2>2. DOMAIN enc \in SUBSET Nat /\ \A k \in DOMAIN enc : enc[k] \in SUBSET Crtc
    BY <1>1
  <2>3. Min(usable) \in usable
    BY <2>1, <2>2, MinIsElement
  <2>4. free # {} /\ free \in SUBSET Crtc
    BY <2>2, <2>3
  <2>5. Min(free) \in free
    BY <2>4, CrtcIndices, MinIsElement
  <2> QED
    BY <2>1, <2>4, <2>5
<1> QED
  BY <1>2, <1>3

\* The plane that is taken is one of those that may be.
LEMMA FirstUsable ==
  ASSUME TypeOK, NEW got \in SUBSET (DOMAIN planes), Usable(got) # {}
  PROVE  Min(Usable(got)) \in Usable(got)
<1>1. planes \in Seq([primary : BOOLEAN, crtcs : SUBSET Crtc])
  BY AtomicPrepareAssumption DEF TypeOK
<1>2. DOMAIN planes \in SUBSET Nat
  BY <1>1
<1> QED
  BY <1>2, MinIsElement DEF Usable

----------------------------------------------------------------------------
(* modeset_output_create(), as far as its steps are alike *)

\* The connector modeset_prepare() is at.
LEMMA AtConnector ==
  ASSUME IInv, step \in Busy
  PROVE  /\ i \in Connector /\ i \notin output_list /\ i + 1 \in 1 .. NumConnector + 1
         /\ \A c \in output_list : c \in Connector /\ c < i
         /\ held[i] = HeldSoFar
         /\ \A c \in Connector : c > i => held[c] = {}
  BY AtomicPrepareAssumption
     DEF IInv, TypeOK, ListPassed, HalfMade, Unfinished, More, Connector

\* A step writes only the fields of the output it is at.
OthersKept ==
  /\ \A c \in Connector \ {i} :
       /\ crtc'[c] = crtc[c] /\ crtc_index'[c] = crtc_index[c]
       /\ plane'[c] = plane[c] /\ held'[c] = held[c]
  /\ UNCHANGED <<conns, planes>>

\* What was true of the outputs on the list still is.
LEMMA ListedKept ==
  ASSUME IInv, step \in Busy, OthersKept, UNCHANGED output_list
  PROVE  /\ Used' = Used /\ CrtcsDistinct' /\ Unbound' = Unbound
         /\ Unbound => \A c \in output_list : PlaneFits(c)'
<1>1. \A c \in output_list : c \in Connector \ {i}
  BY AtConnector
<1>2. \A c \in output_list : crtc'[c] = crtc[c] /\ plane'[c] = plane[c]
  BY <1>1 DEF OthersKept
<1>3. Used' = Used /\ CrtcsDistinct' /\ Unbound' = Unbound
  BY <1>2 DEF IInv, Used, CrtcsDistinct, OthersKept, Unbound
<1>4. Unbound => \A c \in output_list : PlaneFits(c)'
  BY <1>2 DEF IInv, PlaneChosen, PlaneFits, OthersKept
<1> QED
  BY <1>3, <1>4

\* The labels at the end give back all that the output has.
LEMMA FailOk ==
  ASSUME IInv, step \in Busy, TypeOK', OthersKept, NEW labels, Fail(labels),
         held[i] \subseteq labels
  PROVE  IInv'
<1>1. /\ i \in Connector /\ i \notin output_list /\ i' = i + 1 /\ step' = "connector"
      /\ \A c \in output_list : c \in Connector /\ c < i
      /\ \A c \in Connector : c > i => held[c] = {}
      /\ UNCHANGED output_list
  BY AtConnector DEF Fail
<1>2. held'[i] = {}
  BY <1>1 DEF IInv, TypeOK, Fail
<1>3. ListPassed' /\ HalfMade'
  BY <1>1 DEF ListPassed, HalfMade, Unfinished, Busy, Connector
<1>4. NothingLeaks'
  <2> SUFFICES ASSUME NEW c \in Connector
               PROVE  held'[c] = IF c \in output_list THEN Resource ELSE {}
    BY <1>1 DEF NothingLeaks
  <2>1. CASE c = i
    BY <1>1, <1>2, <2>1
  <2>2. CASE c < i
    BY <1>1, <2>2 DEF IInv, NothingLeaks, Settled, OthersKept, Connector
  <2>3. CASE c > i
    <3>1. c # i /\ c \notin output_list
      BY <1>1, <2>3 DEF Connector
    <3> QED
      BY <1>1, <2>3, <3>1 DEF OthersKept
  <2> QED
    BY <1>1, <2>1, <2>2, <2>3 DEF Connector
<1>5. CrtcsDistinct' /\ CrtcChosen' /\ PlaneChosen'
  BY <1>1, ListedKept DEF CrtcChosen, PlaneChosen
<1> QED
  BY <1>3, <1>4, <1>5 DEF IInv

\* One of its calls succeeds, short of the last.
LEMMA ProceedOk ==
  ASSUME IInv, step \in Busy, TypeOK', OthersKept, NEW to \in Busy, Proceed(to),
         held'[i] = HeldSoFar',
         to \in {"plane"} \cup Later =>
           crtc'[i] \in Crtc \ Used /\ (Unbound => crtc_index'[i] = crtc'[i]),
         Unbound /\ to \in Later => PlaneFits(i)'
  PROVE  IInv'
<1>1. /\ i \in Connector /\ i \notin output_list /\ i' = i /\ step' = to /\ i <= NumConnector
      /\ \A c \in output_list : c \in Connector /\ c < i
      /\ \A c \in Connector : c > i => held[c] = {}
      /\ UNCHANGED output_list
  BY AtConnector, AtomicPrepareAssumption DEF Proceed, Connector
<1>2. ListPassed' /\ HalfMade'
  BY <1>1 DEF ListPassed, HalfMade, More, OthersKept, Connector
<1>3. NothingLeaks'
  BY <1>1 DEF IInv, NothingLeaks, Settled, OthersKept, Connector, Busy
<1>4. CrtcsDistinct' /\ CrtcChosen'
  BY <1>1, ListedKept DEF CrtcChosen
<1>5. PlaneChosen'
  BY <1>1, ListedKept DEF PlaneChosen, PlaneFits
<1> QED
  BY <1>2, <1>3, <1>4, <1>5 DEF IInv

----------------------------------------------------------------------------
(* The steps of modeset_output_create() *)

LEMMA CreateBlobOk == IInv /\ CreateBlob => IInv'
<1> SUFFICES ASSUME IInv, CreateBlob PROVE IInv'
  OBVIOUS
<1> USE DEF CreateBlob, outVars
<1>1. step \in Busy
  BY DEF Busy
<1>2. i \in Connector /\ i + 1 \in 1 .. NumConnector + 1 /\ held[i] = {}
  BY <1>1, AtConnector DEF HeldSoFar
<1>3. CASE Acquire(Blob) /\ Proceed("crtc")
  <2>1. TypeOK'
    BY <1>2, <1>3 DEF IInv, TypeOK, Acquire, Proceed, Resource, Steps
  <2>2. OthersKept /\ held'[i] = {Blob}
    BY <1>2, <1>3 DEF IInv, TypeOK, Acquire, OthersKept
  <2>3. held'[i] = HeldSoFar'
    BY <1>3, <2>2 DEF HeldSoFar, Proceed
  <2> QED
    BY <1>1, <1>3, <2>1, <2>2, <2>3, ProceedOk DEF Busy
<1>4. CASE Fail(OutError)
  <2>1. TypeOK' /\ OthersKept
    BY <1>2, <1>4 DEF IInv, TypeOK, Fail, OutBlob, OutError, Steps, OthersKept
  <2> QED
    BY <1>1, <1>2, <1>4, <2>1, FailOk
<1> QED
  BY <1>3, <1>4

LEMMA SetupCrtcOk == IInv /\ SetupCrtc => IInv'
<1> SUFFICES ASSUME IInv, SetupCrtc PROVE IInv'
  OBVIOUS
<1>1. step \in Busy /\ step = "crtc" /\ UNCHANGED <<conns, planes, buf, plane>>
  BY DEF SetupCrtc, Busy
<1>2. i \in Connector /\ i + 1 \in 1 .. NumConnector + 1 /\ held[i] = {Blob}
  BY <1>1, AtConnector DEF HeldSoFar
<1>3. PICK got \in SUBSET (DOMAIN conns[i].encoders),
           c \in {conns[i], [conns[i] EXCEPT !.bound = NoCrtc]} :
        LET found == FindCrtc(c, Used, got)
        IN  /\ crtc' = [crtc EXCEPT ![i] = found]
            /\ crtc_index' = IF BoundFree(c, Used) \/ found = NoCrtc
                               THEN crtc_index
                               ELSE [crtc_index EXCEPT ![i] = found]
            /\ IF found = NoCrtc THEN Fail(OutBlob)
                                 ELSE Proceed("plane") /\ UNCHANGED held
  BY DEF SetupCrtc, Got
<1> DEFINE found == FindCrtc(c, Used, got)
<1>4. /\ crtc' = [crtc EXCEPT ![i] = found]
      /\ crtc_index' = IF BoundFree(c, Used) \/ found = NoCrtc
                         THEN crtc_index
                         ELSE [crtc_index EXCEPT ![i] = found]
      /\ found = NoCrtc => Fail(OutBlob)
      /\ found # NoCrtc => Proceed("plane") /\ UNCHANGED held
  BY <1>3
<1>5. found # NoCrtc => found \in Crtc \ Used
  BY <1>2, FoundFree DEF IInv
<1>6. Unbound => ~BoundFree(c, Used)
  <2>1. conns[i] \in [bound : Crtc \cup {NoCrtc}, encoders : Encoders]
    BY <1>2 DEF IInv, TypeOK, ConnectorsWith
  <2> QED
    BY <1>2, <2>1 DEF Unbound, BoundFree
<1> HIDE DEF found
<1>7. CASE found = NoCrtc
  <2>1. TypeOK' /\ OthersKept
    BY <1>1, <1>2, <1>4, <1>7 DEF IInv, TypeOK, Fail, OutBlob, OutError, Steps, OthersKept
  <2> QED
    BY <1>1, <1>2, <1>4, <1>7, <2>1, FailOk DEF OutBlob
<1>8. CASE found # NoCrtc
  <2>1. TypeOK' /\ OthersKept
    BY <1>1, <1>2, <1>4, <1>5, <1>8 DEF IInv, TypeOK, Proceed, Steps, OthersKept
  <2>2. held'[i] = HeldSoFar'
    BY <1>2, <1>4, <1>8 DEF HeldSoFar, Proceed
  <2>3. crtc'[i] = found /\ (Unbound => crtc_index'[i] = found)
    BY <1>2, <1>4, <1>6, <1>8 DEF IInv, TypeOK
  <2> QED
    BY <1>1, <1>4, <1>5, <1>8, <2>1, <2>2, <2>3, ProceedOk DEF Busy
<1> QED
  BY <1>7, <1>8

LEMMA FindPlaneOk == IInv /\ FindPlane => IInv'
<1> SUFFICES ASSUME IInv, FindPlane PROVE IInv'
  OBVIOUS
<1>1. step \in Busy /\ step = "plane" /\ UNCHANGED <<conns, planes, buf, crtc, crtc_index>>
  BY DEF FindPlane, Busy
<1>2. i \in Connector /\ i + 1 \in 1 .. NumConnector + 1 /\ held[i] = {Blob}
  BY <1>1, AtConnector DEF HeldSoFar
<1>3. PICK got \in SUBSET (DOMAIN planes) :
        IF Usable(got) = {}
          THEN Fail(OutBlob) /\ UNCHANGED plane
          ELSE /\ plane' = [plane EXCEPT ![i] = Min(Usable(got))]
               /\ Proceed("connector_props")
               /\ UNCHANGED held
  BY DEF FindPlane
<1>4. CASE Usable(got) = {}
  <2>1. Fail(OutBlob) /\ UNCHANGED plane
    BY <1>3, <1>4
  <2>2. TypeOK' /\ OthersKept
    BY <1>1, <1>2, <2>1 DEF IInv, TypeOK, Fail, Steps, OthersKept
  <2> QED
    BY <1>1, <1>2, <2>1, <2>2, FailOk DEF OutBlob
<1>5. CASE Usable(got) # {}
  <2> DEFINE found == Min(Usable(got))
  <2>1. found \in Usable(got)
    BY <1>5, FirstUsable DEF IInv
  <2>2. found \in DOMAIN planes /\ planes[found].primary /\ crtc_index[i] \in planes[found].crtcs
    BY <2>1 DEF Usable, IsPrimary
  <2>3. plane' = [plane EXCEPT ![i] = found] /\ Proceed("connector_props") /\ UNCHANGED held
    BY <1>3, <1>5
  <2> HIDE DEF found
  <2>4. TypeOK' /\ OthersKept
    BY <1>1, <1>2, <2>2, <2>3 DEF IInv, TypeOK, Proceed, Steps, OthersKept
  <2>5. held'[i] = HeldSoFar'
    BY <1>2, <2>3 DEF HeldSoFar, Proceed
  <2>6. crtc[i] \in Crtc \ Used /\ (Unbound => crtc_index[i] = crtc[i])
    BY <1>1 DEF IInv, CrtcChosen
  <2>7. Unbound => PlaneFits(i)'
    BY <1>1, <1>2, <2>2, <2>3, <2>6 DEF IInv, TypeOK, PlaneFits, Proceed
  <2> QED
    BY <1>1, <2>3, <2>4, <2>5, <2>6, <2>7, ProceedOk DEF Busy
<1> QED
  BY <1>4, <1>5

\* One more resource of the output it is at; the plane and the CRTC stay.
LEMMA AcquireOk ==
  ASSUME IInv, step \in Later, NEW r \in Resource, Acquire(r), buf' \in {0, 1},
         NEW to \in Later, Proceed(to), HeldSoFar' = HeldSoFar \cup {r},
         UNCHANGED <<conns, planes, outVars>>
  PROVE  IInv'
<1> USE DEF outVars
<1>1. step \in Busy /\ to \in Busy
  BY DEF Busy
<1>2. i \in Connector /\ held[i] = HeldSoFar
  BY <1>1, AtConnector
<1>3. held' = [held EXCEPT ![i] = held[i] \cup {r}]
  BY DEF Acquire
<1>4. to \in Steps
  BY DEF Steps
<1>5. TypeOK' /\ OthersKept /\ held'[i] = HeldSoFar'
  BY <1>2, <1>3, <1>4 DEF IInv, TypeOK, Proceed, OthersKept
<1>6. /\ crtc'[i] \in Crtc \ Used /\ (Unbound => crtc_index'[i] = crtc'[i])
      /\ Unbound => PlaneFits(i)'
  BY DEF IInv, CrtcChosen, PlaneChosen, PlaneFits, Proceed
<1> QED
  BY <1>1, <1>5, <1>6, ProceedOk

\* A label gives back what the output has.
LEMMA GiveUpOk ==
  ASSUME IInv, step \in Later, NEW labels, Fail(labels), HeldSoFar \subseteq labels,
         UNCHANGED <<conns, planes, buf, outVars>>
  PROVE  IInv'
<1> USE DEF outVars
<1>1. step \in Busy
  BY DEF Busy
<1>2. i \in Connector /\ i + 1 \in 1 .. NumConnector + 1 /\ held[i] = HeldSoFar
  BY <1>1, AtConnector
<1>3. TypeOK' /\ OthersKept
  BY <1>2 DEF IInv, TypeOK, Fail, OutBlob, OutError, Steps, OthersKept
<1> QED
  BY <1>1, <1>2, <1>3, FailOk

LEMMA SetupObjectsOk == IInv /\ (ConnectorProps \/ CrtcProps \/ PlaneProps) => IInv'
<1> SUFFICES ASSUME IInv, ConnectorProps \/ CrtcProps \/ PlaneProps PROVE IInv'
  OBVIOUS
<1>1. buf \in {0, 1}
  BY DEF IInv, TypeOK
<1>2. CASE ConnectorProps
  <2> USE <1>2 DEF ConnectorProps
  <2>1. CASE Acquire(<<"connector", 0>>) /\ Proceed("crtc_props")
    BY <1>1, <2>1, AcquireOk DEF HeldSoFar, Proceed, Resource, Props
  <2>2. CASE Fail(OutConn \cup OutBlob)
    BY <2>2, GiveUpOk DEF HeldSoFar, OutBlob
  <2> QED
    BY <2>1, <2>2
<1>3. CASE CrtcProps
  <2> USE <1>3 DEF CrtcProps
  <2>1. CASE Acquire(<<"crtc", 0>>) /\ Proceed("plane_props")
    BY <1>1, <2>1, AcquireOk DEF HeldSoFar, Proceed, Resource, Props
  <2>2. CASE Fail(OutCrtc \cup OutBlob)
    BY <2>2, GiveUpOk DEF HeldSoFar, OutCrtc, OutBlob
  <2> QED
    BY <2>1, <2>2
<1>4. CASE PlaneProps
  <2> USE <1>4 DEF PlaneProps
  <2>1. CASE Acquire(<<"plane", 0>>) /\ Proceed("dumb") /\ buf' = 0
    BY <1>1, <2>1, AcquireOk DEF HeldSoFar, BufferHeld, Proceed, Resource, Props
  <2>2. CASE Fail(OutPlane \cup OutBlob) /\ UNCHANGED buf
    BY <2>2, GiveUpOk DEF HeldSoFar, OutPlane, OutCrtc, OutBlob
  <2> QED
    BY <2>1, <2>2
<1> QED
  BY <1>2, <1>3, <1>4

\* The second mapping completes the output, which is linked into the list.
LEMMA OutputLinked ==
  ASSUME IInv, step = "mmap", buf = 1, Acquire(<<"map", 1>>),
         output_list' = output_list \cup {i}, step' = "connector", i' = i + 1,
         UNCHANGED <<conns, planes, buf, outVars>>
  PROVE  IInv'
<1> USE DEF outVars
<1>1. step \in Busy
  BY DEF Busy
<1>2. /\ i \in Connector /\ i \notin output_list /\ i + 1 \in 1 .. NumConnector + 1
      /\ \A c \in output_list : c \in Connector /\ c < i
      /\ \A c \in Connector : c > i => held[c] = {}
      /\ held[i] = HeldSoFar
  BY <1>1, AtConnector
<1>3. held' = [held EXCEPT ![i] = Resource]
  <2>1. HeldSoFar \cup {<<"map", 1>>} = Resource
    BY DEF HeldSoFar, BufferHeld, Resource, OfBuf
  <2> QED
    BY <1>2, <2>1 DEF Acquire
<1>4. TypeOK'
  <2>1. output_list' \subseteq Connector
    BY <1>2
  <2> QED
    BY <1>2, <1>3, <2>1 DEF IInv, TypeOK, Steps
<1>5. ListPassed' /\ HalfMade'
  BY <1>2 DEF ListPassed, HalfMade, Unfinished, Busy, Connector
<1>6. NothingLeaks'
  <2> SUFFICES ASSUME NEW c \in Connector
               PROVE  held'[c] = IF c \in output_list' THEN Resource ELSE {}
    BY DEF NothingLeaks
  <2>1. CASE c = i
    BY <1>2, <1>3, <2>1 DEF IInv, TypeOK
  <2>2. CASE c < i
    <3>1. c # i /\ held'[c] = held[c]
      BY <1>2, <1>3, <2>2 DEF IInv, TypeOK, Connector
    <3> QED
      BY <2>2, <3>1 DEF IInv, NothingLeaks, Settled
  <2>3. CASE c > i
    <3>1. c # i /\ c \notin output_list /\ held'[c] = held[c]
      BY <1>2, <1>3, <2>3 DEF IInv, TypeOK, Connector
    <3> QED
      BY <1>2, <2>3, <3>1
  <2> QED
    BY <1>2, <2>1, <2>2, <2>3 DEF Connector
<1>7. crtc[i] \in Crtc \ Used
  BY DEF IInv, CrtcChosen
<1>8. CrtcsDistinct' /\ CrtcChosen'
  BY <1>7 DEF IInv, CrtcsDistinct, CrtcChosen, Used
<1>9. PlaneChosen'
  BY DEF IInv, PlaneChosen, PlaneFits, Unbound
<1> QED
  BY <1>4, <1>5, <1>6, <1>8, <1>9 DEF IInv

\* modeset_create_fb(): an error in either buffer gives back what there is of
\* both.
LEMMA FailFbOk ==
  ASSUME IInv, step \in BufferSteps, NEW labels, FailFb(labels), BufferHeld \subseteq labels,
         UNCHANGED <<conns, planes, outVars>>
  PROVE  IInv'
<1> DEFINE all == labels \cup (IF buf = 1 THEN OfBuf(0) ELSE {}) \cup OutObj
<1>1. Fail(all) /\ UNCHANGED buf
  BY DEF FailFb
<1>2. step \in Later
  OBVIOUS
<1>3. HeldSoFar \subseteq all
  BY DEF HeldSoFar, OutObj, OutBlob
<1> HIDE DEF all
<1> QED
  BY <1>1, <1>2, <1>3, GiveUpOk

LEMMA CreateFbOk == IInv /\ (CreateDumb \/ AddFB \/ MapDumb \/ Mmap) => IInv'
<1> SUFFICES ASSUME IInv, CreateDumb \/ AddFB \/ MapDumb \/ Mmap PROVE IInv'
  OBVIOUS
<1>1. buf \in {0, 1}
  BY DEF IInv, TypeOK
<1>2. CASE CreateDumb
  <2> USE <1>2 DEF CreateDumb
  <2>1. CASE Acquire(<<"handle", buf>>) /\ Proceed("addfb") /\ UNCHANGED buf
    <3>1. HeldSoFar' = HeldSoFar \cup {<<"handle", buf>>}
      BY <2>1 DEF HeldSoFar, BufferHeld, Proceed
    <3> QED
      BY <1>1, <2>1, <3>1, AcquireOk DEF Resource, OfBuf
  <2>2. CASE FailFb({})
    BY <2>2, FailFbOk DEF BufferHeld
  <2> QED
    BY <2>1, <2>2
<1>3. CASE AddFB
  <2> USE <1>3 DEF AddFB
  <2>1. CASE Acquire(<<"fb", buf>>) /\ Proceed("map") /\ UNCHANGED buf
    <3>1. HeldSoFar' = HeldSoFar \cup {<<"fb", buf>>}
      BY <2>1 DEF HeldSoFar, BufferHeld, Proceed
    <3> QED
      BY <1>1, <2>1, <3>1, AcquireOk DEF Resource, OfBuf
  <2>2. CASE FailFb(ErrDestroy)
    BY <2>2, FailFbOk DEF BufferHeld, ErrDestroy
  <2> QED
    BY <2>1, <2>2
<1>4. CASE MapDumb
  <2> USE <1>4 DEF MapDumb
  <2>1. CASE Proceed("mmap") /\ UNCHANGED <<buf, held>>
    <3>1. HeldSoFar' = HeldSoFar \cup {<<"fb", buf>>}
      BY <2>1 DEF HeldSoFar, BufferHeld, Proceed
    <3>2. held' = [held EXCEPT ![i] = held[i] \cup {<<"fb", buf>>}]
      <4>1. step \in Busy
        BY DEF Busy
      <4>2. i \in Connector /\ <<"fb", buf>> \in held[i]
        BY <4>1, AtConnector DEF HeldSoFar, BufferHeld
      <4> QED
        BY <2>1, <4>2 DEF IInv, TypeOK
    <3> QED
      BY <1>1, <2>1, <3>1, <3>2, AcquireOk DEF Acquire, Resource, OfBuf
  <2>2. CASE FailFb(ErrFb)
    BY <2>2, FailFbOk DEF BufferHeld, ErrFb, ErrDestroy
  <2> QED
    BY <2>1, <2>2
<1>5. CASE Mmap
  <2> USE <1>5 DEF Mmap
  <2>1. CASE Acquire(<<"map", buf>>) /\ buf = 0 /\ Proceed("dumb") /\ buf' = 1
    <3>1. HeldSoFar' = HeldSoFar \cup {<<"map", buf>>}
      BY <2>1 DEF HeldSoFar, BufferHeld, Proceed, OfBuf
    <3> QED
      BY <1>1, <2>1, <3>1, AcquireOk DEF Resource, OfBuf
  <2>2. CASE /\ Acquire(<<"map", buf>>) /\ buf = 1
             /\ output_list' = output_list \cup {i}
             /\ i' = i + 1 /\ step' = "connector" /\ UNCHANGED buf
    BY <2>2, OutputLinked
  <2>3. CASE FailFb(ErrFb)
    BY <2>3, FailFbOk DEF BufferHeld, ErrFb, ErrDestroy
  <2> QED
    BY <2>1, <2>2, <2>3
<1> QED
  BY <1>2, <1>3, <1>4, <1>5

----------------------------------------------------------------------------
(* The steps of main(), modeset_prepare() and modeset_cleanup() *)

\* A step that writes no output.
LEMMA MoveOk ==
  ASSUME IInv, UNCHANGED <<conns, planes, buf, outVars, held, output_list>>,
         \/ OpenCard \/ SkipConnector \/ TakeConnector \/ EndPrepare \/ FindPlaneCrashes
         \/ Exit \/ UNCHANGED vars
  PROVE  IInv'
<1> USE DEF outVars, vars
<1>0. i \in Nat /\ i <= NumConnector + 1 /\ NumConnector \in Nat
  BY AtomicPrepareAssumption DEF IInv, TypeOK
<1>1. CASE UNCHANGED vars
  BY <1>1 DEF IInv, TypeOK, ListPassed, HalfMade, HeldSoFar, BufferHeld, More, NothingLeaks,
              Settled, CrtcsDistinct, CrtcChosen, Used, Unbound, PlaneChosen, PlaneFits
<1>2. CASE OpenCard \/ SkipConnector \/ TakeConnector \/ EndPrepare \/ FindPlaneCrashes \/ Exit
  <2> USE <1>2 DEF OpenCard, SkipConnector, TakeConnector, EndPrepare, FindPlaneCrashes, Exit
  <2>1. /\ i' \in 1 .. NumConnector + 1 /\ step' \in Steps /\ i' >= i
        /\ step' \notin Busy \ {"blob"}
    BY <1>0 DEF IInv, TypeOK, More, Busy, Steps
  <2>2. TypeOK' /\ ListPassed'
    BY <1>0, <2>1 DEF IInv, TypeOK, ListPassed, Connector
  <2>3. CrtcsDistinct' /\ CrtcChosen' /\ PlaneChosen'
    BY <2>1 DEF IInv, CrtcsDistinct, CrtcChosen, Unbound, PlaneChosen, PlaneFits, Busy
  <2>4. HalfMade' /\ NothingLeaks'
    <3>0. ASSUME OpenCard \/ TakeConnector, NEW c \in Connector
          PROVE  /\ c < i => held[c] = IF c \in output_list THEN Resource ELSE {}
                 /\ ~(c < i) => held[c] = {} /\ c \notin output_list
      <4>1. c \in Nat /\ (c < i \/ c = i \/ c > i)
        BY <1>0 DEF Connector
      <4>2. c < i => held[c] = IF c \in output_list THEN Resource ELSE {}
        BY DEF IInv, NothingLeaks, Settled
      <4>3. ~(c < i) => c \notin output_list
        BY DEF IInv, ListPassed
      <4>4. ~(c < i) => held[c] = {}
        BY <3>0, <4>1, <4>3 DEF IInv, HalfMade, HeldSoFar, Unfinished, Busy, NothingLeaks,
                                Settled
      <4> QED
        BY <4>2, <4>3, <4>4
    <3>1. CASE OpenCard
      <4>1. NothingLeaks'
        BY <3>0, <3>1 DEF NothingLeaks, Settled
      <4>2. step' \in {"resources", "connector", "done"} /\ i' = i
        BY <3>1
      <4>3. step' \notin Busy /\ HeldSoFar' = {}
        BY <4>2 DEF Busy, HeldSoFar
      <4>4. HalfMade'
        BY <1>0, <3>0, <3>1, <4>2, <4>3 DEF HalfMade, Connector
      <4> QED
        BY <4>1, <4>4
    <3>2. CASE SkipConnector \/ EndPrepare \/ FindPlaneCrashes \/ Exit
      BY <1>0, <3>2 DEF IInv, HalfMade, Unfinished, Busy, NothingLeaks, Settled
    <3>3. CASE TakeConnector
      <4>1. NothingLeaks'
        BY <3>0, <3>3 DEF NothingLeaks, Settled
      <4>2. HalfMade'
        BY <1>0, <3>0, <3>3 DEF HalfMade, HeldSoFar, More, Connector
      <4> QED
        BY <4>1, <4>2
    <3> QED
      BY <3>1, <3>2, <3>3
  <2> QED
    BY <2>2, <2>3, <2>4 DEF IInv
<1> QED
  BY <1>1, <1>2

LEMMA DestroyOutputOk ==
  ASSUME IInv, NEW c \in Connector, DestroyOutput(c)
  PROVE  IInv'
<1> USE DEF DestroyOutput, outVars
<1>1. held' = [held EXCEPT ![c] = {}]
  BY DEF IInv, TypeOK, Resource
<1>2. TypeOK'
  BY <1>1 DEF IInv, TypeOK
<1>3. ListPassed' /\ CrtcsDistinct' /\ CrtcChosen' /\ PlaneChosen' /\ HalfMade'
  BY DEF IInv, ListPassed, CrtcsDistinct, CrtcChosen, PlaneChosen, PlaneFits, Unbound,
         HalfMade, Unfinished, Busy
<1>4. NothingLeaks'
  BY <1>1 DEF IInv, TypeOK, NothingLeaks, Settled
<1> QED
  BY <1>2, <1>3, <1>4 DEF IInv

----------------------------------------------------------------------------
(* Every step keeps the invariant *)

\* main() starts with an empty list and nothing held.
LEMMA InitOk == Init => IInv
<1>1. 1 \in 1 .. NumConnector + 1
  BY AtomicPrepareAssumption
<1> QED
  BY <1>1 DEF Init, IInv, TypeOK, ListPassed, HalfMade, HeldSoFar, NothingLeaks, Settled,
              CrtcsDistinct, CrtcChosen, PlaneChosen, Busy, Steps

LEMMA InvariantHolds == Spec => []IInv
<1>1. IInv /\ [Next]_vars => IInv'
  <2> SUFFICES ASSUME IInv, [Next]_vars PROVE IInv'
    OBVIOUS
  <2>1. CASE OpenCard \/ SkipConnector \/ TakeConnector \/ EndPrepare \/ FindPlaneCrashes
             \/ Exit \/ UNCHANGED vars
    <3>1. UNCHANGED <<conns, planes, buf, outVars, held, output_list>>
      BY <2>1 DEF OpenCard, SkipConnector, TakeConnector, EndPrepare, FindPlaneCrashes, Exit,
                  vars
    <3> QED
      BY <2>1, <3>1, MoveOk
  <2>2. CASE CreateBlob \/ SetupCrtc \/ FindPlane \/ ConnectorProps \/ CrtcProps
             \/ PlaneProps \/ CreateDumb \/ AddFB \/ MapDumb \/ Mmap
    BY <2>2, CreateBlobOk, SetupCrtcOk, FindPlaneOk, SetupObjectsOk, CreateFbOk
  <2>3. CASE \E c \in Connector : DestroyOutput(c)
    BY <2>3, DestroyOutputOk
  <2> QED
    BY <2>1, <2>2, <2>3 DEF Next
<1> QED
  BY <1>1, InitOk, PTL DEF Spec

----------------------------------------------------------------------------
(* The theorems *)

\* modeset_prepare() is type correct; in particular it stops at the last
\* connector, and the plane it saves is one of the card's.
THEOREM TypeCorrect == Spec => []TypeOK
<1>1. IInv => TypeOK
  BY DEF IInv
<1> QED
  BY <1>1, InvariantHolds, PTL

\* The labels of modeset_output_create() and of the functions it calls give
\* back exactly what was taken.
THEOREM NothingEverLeaks == Spec => []NothingLeaks
<1>1. IInv => NothingLeaks
  BY DEF IInv
<1> QED
  BY <1>1, InvariantHolds, PTL

\* modeset_find_crtc() never gives two outputs the same CRTC.
THEOREM CrtcsNeverShared == Spec => []CrtcsDistinct
<1>1. IInv => CrtcsDistinct
  BY DEF IInv
<1> QED
  BY <1>1, InvariantHolds, PTL

\* If no CRTC was in use at first, modeset_find_plane() gives each output a
\* primary plane that works with the CRTC of the output.
THEOREM PlanesFitUnlessBound == Spec => []FitUnlessBound
<1>1. IInv => FitUnlessBound
  BY DEF IInv, PlaneChosen, PlaneFits, FitUnlessBound, PlanesFit
<1> QED
  BY <1>1, InvariantHolds, PTL

\* If also no primary plane works with two CRTCs, no two outputs get the same
\* plane, although modeset_find_plane() does not look at those of the others:
\* their CRTCs differ.
THEOREM PlanesDistinctUnlessBound == Spec => []DistinctUnlessBound
<1>1. IInv => DistinctUnlessBound
  <2> SUFFICES ASSUME IInv, Unbound, OwnPrimary, NEW c \in output_list,
                      NEW d \in output_list, plane[c] = plane[d]
               PROVE  c = d
    BY DEF DistinctUnlessBound, PlanesDistinct
  <2>1. PlaneFits(c) /\ PlaneFits(d)
    BY DEF IInv, PlaneChosen
  <2>2. crtc[c] = crtc[d]
    BY <2>1 DEF PlaneFits, OwnPrimary
  <2> QED
    BY <2>2 DEF IInv, CrtcsDistinct
<1> QED
  BY <1>1, InvariantHolds, PTL

=============================================================================
