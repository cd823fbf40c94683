------------------------ MODULE VsyncPrepare_proofs ------------------------
(***************************************************************************)
(* For every graphics card: modeset_prepare() gives every device a CRTC of *)
(* its own that its connector can use, and keeps nothing of a device it    *)
(* gives up, whichever of the calls fail.                                  *)
(***************************************************************************)
EXTENDS TLAPS, VsyncPrepare, WellFoundedInduction

\* What the kernel does is fixed at the start: no step changes either part.
USE DEF card

----------------------------------------------------------------------------
(* The search picks the first of a set of encoders, then of CRTCs. *)

Less == {ss \in Nat \X Nat : ss[1] < ss[2]}

\* Every nonempty set of naturals has a first element (the searches of
\* modeset_find_crtc() go upwards from 0).
LEMMA LessWellFounded == IsWellFoundedOn(Less, Nat)
  BY NatLessThanWellFounded, Zenon DEF OpToRel, Less

\* Membership in Less, for the pair of an element and a smaller one.
LEMMA LessPair ==
  ASSUME NEW m \in Nat, NEW n \in Nat, m < n
  PROVE  <<m, n>> \in Less
<1>1. <<m, n>> \in Nat \X Nat
  OBVIOUS
<1>2. <<m, n>>[1] < <<m, n>>[2]
  OBVIOUS
<1>3. QED
  BY <1>1, <1>2, Zenon DEF Less

\* What a loop finds first is one of the things it looks for.
LEMMA MinIsElement ==
  ASSUME NEW S \in SUBSET Nat, S # {}
  PROVE  Min(S) \in S
<1>1. PICK m \in S : \A n \in S : <<n, m>> \notin Less
  BY LessWellFounded, WFMin, Zenon
<1>2. ASSUME NEW n \in S PROVE m <= n
  <2>1. m \in Nat /\ n \in Nat
    OBVIOUS
  <2>2. ~(n < m)
    BY <1>1, <2>1, LessPair
  <2>3. QED
    BY <2>1, <2>2
<1>3. QED
  BY <1>2 DEF Min

----------------------------------------------------------------------------
(* modeset_find_crtc() *)

Conns == ConnectorsWith(Encoders)

\* CRTC indices are naturals, and "none" is not one of them.
LEMMA CrtcIndices == Crtc \in SUBSET Nat /\ NoCrtc \notin Crtc
  BY PrepareAssumption DEF Crtc, NoCrtc

\* The fields of what the kernel reports of a connector.
LEMMA ConnectorFields ==
  ASSUME NEW conn \in Conns
  PROVE  /\ conn.bound # NoCrtc => conn.bound \in Crtc /\ conn.bound \in Drives(conn)
         /\ DOMAIN conn.encoders \in SUBSET Nat
         /\ \A k \in DOMAIN conn.encoders : conn.encoders[k] \in SUBSET Crtc
<1>1. /\ conn.bound \in Crtc \cup {NoCrtc}
      /\ conn.encoders \in Encoders
      /\ conn.bound # NoCrtc => conn.bound \in Drives(conn)
  BY DEF Conns, ConnectorsWith
<1>2. conn.encoders \in Seq(SUBSET Crtc)
  BY <1>1, PrepareAssumption
<1>3. DOMAIN conn.encoders = 1 .. Len(conn.encoders) /\ Len(conn.encoders) \in Nat
  BY <1>2
<1>4. \A k \in 1 .. Len(conn.encoders) : conn.encoders[k] \in SUBSET Crtc
  BY <1>2
<1>5. QED
  BY <1>1, <1>3, <1>4

\* The second half of the search: an unused CRTC of an encoder, if any.
LEMMA FirstFreeFits ==
  ASSUME NEW conn \in Conns, NEW used, NEW got \in SUBSET (DOMAIN conn.encoders),
         NEW n, n = FirstFree(conn, used, got), n # NoCrtc
  PROVE  n \in Crtc /\ n \in Drives(conn) /\ n \notin used
<1> DEFINE usable == {k \in got : conn.encoders[k] \ used # {}}
<1>1. /\ DOMAIN conn.encoders \in SUBSET Nat
      /\ \A k \in DOMAIN conn.encoders : conn.encoders[k] \in SUBSET Crtc
  BY ConnectorFields
<1>2. usable \in SUBSET Nat /\ usable # {}
  BY <1>1 DEF FirstFree
<1>3. Min(usable) \in usable
  BY <1>2, MinIsElement
<1> DEFINE free == conn.encoders[Min(usable)] \ used
<1>4. Min(usable) \in DOMAIN conn.encoders /\ free # {}
  BY <1>3
<1>5. conn.encoders[Min(usable)] \subseteq Crtc
  BY <1>1, <1>4
<1>6. free \in SUBSET Nat
  BY <1>5, CrtcIndices
<1>7. Min(free) \in free
  BY <1>4, <1>6, MinIsElement
<1>8. n = Min(free)
  BY <1>2 DEF FirstFree
<1>9. QED
  BY <1>4, <1>5, <1>7, <1>8 DEF Drives

\* The whole search, successful.
LEMMA FindCrtcFits ==
  ASSUME NEW conn \in Conns, NEW used, NEW got \in SUBSET (DOMAIN conn.encoders),
         NEW n, n = FindCrtc(conn, used, got), n # NoCrtc
  PROVE  n \in Crtc /\ n \in Drives(conn) /\ n \notin used
<1>1. CASE BoundFree(conn, used)
  BY <1>1, ConnectorFields DEF FindCrtc, BoundFree
<1>2. CASE ~BoundFree(conn, used)
  BY <1>2, FirstFreeFits DEF FindCrtc
<1>3. QED
  BY <1>1, <1>2

\* The whole search, in vain: provided that every encoder was retrieved, all
\* the CRTCs the connector could use are taken.
LEMMA FindCrtcGivesUp ==
  ASSUME NEW conn \in Conns, NEW used,
         FindCrtc(conn, used, DOMAIN conn.encoders) = NoCrtc
  PROVE  Drives(conn) \subseteq used
<1> DEFINE got    == DOMAIN conn.encoders
           usable == {k \in got : conn.encoders[k] \ used # {}}
<1>1. /\ DOMAIN conn.encoders \in SUBSET Nat
      /\ \A k \in DOMAIN conn.encoders : conn.encoders[k] \in SUBSET Crtc
  BY ConnectorFields
<1>2. FirstFree(conn, used, got) = NoCrtc
  BY DEF FindCrtc, BoundFree
<1>3. usable = {}
  <2>1. SUFFICES ASSUME usable # {} PROVE FALSE
    OBVIOUS
  <2>2. usable \in SUBSET Nat
    BY <1>1
  <2>3. Min(usable) \in usable
    BY <2>1, <2>2, MinIsElement
  <2> DEFINE free == conn.encoders[Min(usable)] \ used
  <2>4. free # {} /\ free \subseteq Crtc
    BY <1>1, <2>3
  <2>5. free \in SUBSET Nat
    BY <2>4, CrtcIndices
  <2>6. Min(free) \in Crtc
    BY <2>4, <2>5, MinIsElement
  <2>7. FirstFree(conn, used, got) = Min(free)
    BY <2>1 DEF FirstFree
  <2>8. QED
    BY <1>2, <2>6, <2>7, CrtcIndices
<1>4. QED
  BY <1>3 DEF Drives

\* A connector whose current encoder cannot be retrieved is a connector too,
\* with the same encoders.
LEMMA Unbind ==
  ASSUME NEW conn \in Conns
  PROVE  LET c == [conn EXCEPT !.bound = NoCrtc]
         IN  c \in Conns /\ c.encoders = conn.encoders /\ Drives(c) = Drives(conn)
  BY DEF Conns, ConnectorsWith, Drives

----------------------------------------------------------------------------
(* The inductive invariant *)

\* modeset_prepare() starts with an empty list and nothing held.
LEMMA InitIInv == Init => IInv
<1>1. 1 \in 1 .. NumConnector + 1
  BY PrepareAssumption
<1>2. QED
  BY <1>1 DEF Init, IInv, TypeOK, CrtcsDistinct, CrtcsFit, NothingLeaks, ListPassed,
              HalfMade, CrtcChosen, Busy, Steps, Buf

\* What modeset_find_crtc() leaves behind, found or not.
LEMMA SetupCrtcResult ==
  ASSUME IInv, SetupCrtc
  PROVE  \E n \in Crtc \cup {NoCrtc} :
           /\ crtc' = [crtc EXCEPT ![i] = n]
           /\ n # NoCrtc => n \in Drives(conns[i]) /\ n \notin Used
           /\ IF n = NoCrtc THEN DropDevice ELSE step' = "dumb" /\ UNCHANGED i
<1>1. i \in Connector /\ conns[i] \in Conns
  BY PrepareAssumption DEF IInv, TypeOK, HalfMade, Busy, More, SetupCrtc, Connector, Conns
<1>2. PICK got \in Got, c \in {conns[i]} \cup {[conns[i] EXCEPT !.bound = NoCrtc]} :
        LET found == FindCrtc(c, Used, got)
        IN  /\ crtc' = [crtc EXCEPT ![i] = found]
            /\ IF found = NoCrtc THEN DropDevice ELSE step' = "dumb" /\ UNCHANGED i
  BY DEF SetupCrtc
<1>3. /\ c \in Conns
      /\ c.encoders = conns[i].encoders
      /\ Drives(c) = Drives(conns[i])
  BY <1>1, Unbind
<1>4. got \in SUBSET (DOMAIN c.encoders)
  BY <1>3 DEF Got
<1> DEFINE n == FindCrtc(c, Used, got)
<1>5. n # NoCrtc => n \in Crtc /\ n \in Drives(c) /\ n \notin Used
  BY <1>3, <1>4, FindCrtcFits
<1>6. QED
  BY <1>2, <1>3, <1>5

\* A failing call of modeset_create_fb(): the device is given up and holds
\* nothing any more.
LEMMA GiveUp ==
  ASSUME IInv, step \in {"dumb", "addfb", "map"},
         NEW made, FailFb(made), held[i] = Made(made),
         UNCHANGED <<card, crtc, modeset_list>>
  PROVE  IInv'
<1>1. i \in Connector /\ i \in Nat
  BY PrepareAssumption DEF IInv, TypeOK, HalfMade, Busy, More, Connector
<1>2. held' = [held EXCEPT ![i] = {}]
  BY DEF FailFb, Unwind, Made
<1>3. TypeOK'
  BY <1>1, <1>2, PrepareAssumption
     DEF IInv, TypeOK, FailFb, DropDevice, Steps, Connector
<1>4. CrtcsDistinct' /\ CrtcsFit'
  BY DEF IInv, CrtcsDistinct, CrtcsFit, Drives
<1>5. NothingLeaks'
  <2>1. \A c \in Connector :
          held'[c] = IF c = i THEN {} ELSE held[c]
    BY <1>2 DEF IInv, TypeOK
  <2>2. ASSUME NEW c \in Connector
        PROVE  held'[c] = IF c \in modeset_list THEN Resource ELSE {}
    BY <1>1, <2>1 DEF IInv, NothingLeaks, Settled, ListPassed, HalfMade, Busy, Connector
  <2>3. QED
    BY <2>2 DEF NothingLeaks
<1>6. ListPassed' /\ HalfMade' /\ CrtcChosen'
  BY <1>1 DEF IInv, TypeOK, ListPassed, HalfMade, CrtcChosen, Busy, FailFb, DropDevice, Connector
<1>7. QED
  BY <1>3, <1>4, <1>5, <1>6 DEF IInv

\* A successful call of modeset_create_fb() short of the last: the device holds
\* one thing more, and nothing else has changed but the step.
LEMMA Acquired ==
  ASSUME IInv, NEW kind \in {"handle", "fb"}, Acquire(kind),
         \/ step = "dumb" /\ kind = "handle" /\ step' = "addfb"
         \/ step = "addfb" /\ kind = "fb" /\ step' = "map",
         UNCHANGED <<card, i, buf, crtc, modeset_list>>
  PROVE  IInv'
<1>1. i \in Connector /\ i \in Nat
  BY PrepareAssumption DEF IInv, TypeOK, HalfMade, Busy, More, Connector
<1>2. <<kind, buf>> \in Resource
  BY DEF IInv, TypeOK, Resource
<1>3. TypeOK'
  BY <1>1, <1>2 DEF IInv, TypeOK, Acquire, Steps
<1>4. /\ held'[i] = held[i] \cup {<<kind, buf>>}
      /\ \A c \in Connector : c # i => held'[c] = held[c]
  BY <1>1 DEF IInv, TypeOK, Acquire
<1>5. CrtcsDistinct' /\ CrtcsFit' /\ ListPassed' /\ CrtcChosen'
  BY DEF IInv, CrtcsDistinct, CrtcsFit, ListPassed, CrtcChosen, Used
<1>6. NothingLeaks'
  BY <1>1, <1>4 DEF IInv, NothingLeaks, Settled, Connector
<1>7. HalfMade'
  <2>1. held[i] = Made(IF step = "dumb" THEN {} ELSE {"handle"})
    BY DEF IInv, HalfMade, Busy, HeldSoFar
  <2>2. held'[i] = Made(IF step = "dumb" THEN {"handle"} ELSE {"handle", "fb"})
    BY <1>4, <2>1 DEF Made
  <2>3. More /\ \A c \in Connector : c > i => held'[c] = {}
    BY <1>1, <1>4 DEF IInv, HalfMade, Busy, Connector
  <2>4. QED
    BY <2>2, <2>3 DEF HalfMade, Busy, HeldSoFar, Made, More
<1>8. QED
  BY <1>3, <1>5, <1>6, <1>7 DEF IInv

\* The first framebuffer is complete, on to the second.
LEMMA FirstMapped ==
  ASSUME IInv, step = "map", buf = 0, Acquire("map"), step' = "dumb", buf' = 1,
         UNCHANGED <<card, i, crtc, modeset_list>>
  PROVE  IInv'
<1>1. i \in Connector /\ i \in Nat
  BY PrepareAssumption DEF IInv, TypeOK, HalfMade, Busy, More, Connector
<1>2. <<"map", buf>> \in Resource
  BY DEF IInv, TypeOK, Resource
<1>3. TypeOK'
  BY <1>1, <1>2 DEF IInv, TypeOK, Acquire, Steps, Buf
<1>4. /\ held'[i] = held[i] \cup {<<"map", buf>>}
      /\ \A c \in Connector : c # i => held'[c] = held[c]
  BY <1>1 DEF IInv, TypeOK, Acquire
<1>5. CrtcsDistinct' /\ CrtcsFit' /\ ListPassed' /\ CrtcChosen'
  BY DEF IInv, CrtcsDistinct, CrtcsFit, ListPassed, CrtcChosen, Used
<1>6. NothingLeaks'
  BY <1>1, <1>4 DEF IInv, NothingLeaks, Settled, Connector
<1>7. HalfMade'
  <2>1. held[i] = {"handle", "fb"} \X {0}
    BY DEF IInv, HalfMade, Busy, HeldSoFar, Made
  <2>2. held'[i] = OfBuf(0)
    BY <1>4, <2>1 DEF OfBuf
  <2>3. More /\ \A c \in Connector : c > i => held'[c] = {}
    BY <1>1, <1>4 DEF IInv, HalfMade, Busy, Connector
  <2>4. QED
    BY <2>2, <2>3 DEF HalfMade, Busy, HeldSoFar, Made, More
<1>8. QED
  BY <1>3, <1>5, <1>6, <1>7 DEF IInv

\* The second framebuffer is complete, and with it the device: it is linked
\* into the list with a CRTC no other device there has.
LEMMA SecondMapped ==
  ASSUME IInv, step = "map", buf # 0, Acquire("map"), step' = "connector", i' = i + 1,
         modeset_list' = modeset_list \cup {i}, UNCHANGED <<card, buf, crtc>>
  PROVE  IInv'
<1>1. i \in Connector /\ i \in Nat /\ buf = 1
  BY PrepareAssumption DEF IInv, TypeOK, HalfMade, Busy, More, Connector, Buf
<1>2. <<"map", buf>> \in Resource
  BY DEF IInv, TypeOK, Resource
<1>3. TypeOK'
  <2>1. i' \in 1 .. NumConnector + 1
    BY <1>1, PrepareAssumption DEF Connector
  <2>2. modeset_list' \subseteq Connector
    BY <1>1 DEF IInv, TypeOK
  <2>3. QED
    BY <1>1, <1>2, <2>1, <2>2 DEF IInv, TypeOK, Acquire, Steps
<1>4. /\ held'[i] = held[i] \cup {<<"map", buf>>}
      /\ \A c \in Connector : c # i => held'[c] = held[c]
  BY <1>1 DEF IInv, TypeOK, Acquire
<1>5. CrtcsDistinct' /\ CrtcsFit'
  BY DEF IInv, CrtcsDistinct, CrtcsFit, CrtcChosen, Used
<1>6. held'[i] = Resource
  <2>1. held[i] = ({"handle", "fb"} \X {1}) \cup OfBuf(0)
    BY <1>1 DEF IInv, HalfMade, Busy, HeldSoFar, Made
  <2>2. QED
    BY <1>1, <1>4, <2>1 DEF OfBuf, Resource, Buf
<1>7. NothingLeaks'
  <2>1. ASSUME NEW c \in Connector
        PROVE  held'[c] = IF c \in modeset_list' THEN Resource ELSE {}
    <3>1. CASE c = i
      BY <1>6, <3>1
    <3>2. CASE c < i
      BY <1>1, <1>4, <3>2 DEF IInv, NothingLeaks, Settled, Connector
    <3>3. CASE c > i
      BY <1>1, <1>4, <3>3 DEF IInv, HalfMade, Busy, ListPassed, Connector
    <3>4. QED
      BY <1>1, <3>1, <3>2, <3>3 DEF Connector
  <2>2. QED
    BY <2>1 DEF NothingLeaks
<1>8. ListPassed' /\ HalfMade' /\ CrtcChosen'
  BY <1>1 DEF IInv, TypeOK, ListPassed, HalfMade, Busy, CrtcChosen, Connector
<1>9. QED
  BY <1>3, <1>5, <1>7, <1>8 DEF IInv

\* Each step of modeset_prepare() and of the cleanup keeps the invariant.
LEMMA IInvStep == IInv /\ [Next]_vars => IInv'
<1> SUFFICES ASSUME IInv, [Next]_vars PROVE IInv'
  OBVIOUS
<1>0. /\ i \in Nat /\ NumConnector \in Nat
      /\ 1 <= i /\ i <= NumConnector + 1
      /\ \A c : c \in Connector <=> c \in Nat /\ 1 <= c /\ c <= NumConnector
      /\ modeset_list \subseteq Connector
  BY PrepareAssumption DEF IInv, TypeOK, Connector
<1>1. CASE SkipConnector
  <2>1. TypeOK'
    BY <1>0, <1>1 DEF IInv, TypeOK, SkipConnector, More
  <2>2. CrtcsDistinct' /\ CrtcsFit'
    BY <1>1 DEF IInv, CrtcsDistinct, CrtcsFit, SkipConnector
  <2>3. NothingLeaks'
    BY <1>1 DEF IInv, NothingLeaks, Settled, SkipConnector
  <2>4. ListPassed'
    BY <1>0, <1>1 DEF IInv, ListPassed, SkipConnector
  <2>5. HalfMade' /\ CrtcChosen'
    BY <1>1 DEF IInv, HalfMade, Busy, CrtcChosen, SkipConnector
  <2>6. QED
    BY <2>1, <2>2, <2>3, <2>4, <2>5 DEF IInv
<1>2. CASE TakeConnector
  <2>1. TypeOK'
    BY <1>2 DEF IInv, TypeOK, TakeConnector, Steps
  <2>2. CrtcsDistinct' /\ CrtcsFit'
    BY <1>2 DEF IInv, CrtcsDistinct, CrtcsFit, TakeConnector
  <2>3. NothingLeaks' /\ ListPassed' /\ CrtcChosen'
    BY <1>0, <1>2 DEF IInv, NothingLeaks, Settled, ListPassed, CrtcChosen, TakeConnector
  <2>4. HalfMade'
    <3>1. \A c \in Connector : c >= i => held[c] = {}
      BY <1>0, <1>2 DEF IInv, NothingLeaks, Settled, ListPassed, TakeConnector
    <3>2. HeldSoFar' = {} /\ More' /\ i \in Connector
      BY <1>0, <1>2 DEF TakeConnector, More, HeldSoFar
    <3>3. QED
      BY <1>0, <1>2, <3>1, <3>2 DEF HalfMade, TakeConnector
  <2>5. QED
    BY <2>1, <2>2, <2>3, <2>4 DEF IInv
<1>3. CASE EndPrepare
  <2>1. TypeOK'
    BY <1>3 DEF IInv, TypeOK, EndPrepare, Steps
  <2>2. CrtcsDistinct' /\ CrtcsFit'
    BY <1>3 DEF IInv, CrtcsDistinct, CrtcsFit, EndPrepare
  <2>3. NothingLeaks' /\ ListPassed' /\ HalfMade' /\ CrtcChosen'
    BY <1>0, <1>3 DEF IInv, NothingLeaks, Settled, ListPassed, HalfMade, Busy, CrtcChosen,
                      EndPrepare
  <2>4. QED
    BY <2>1, <2>2, <2>3 DEF IInv
<1>4. CASE SetupCrtc
  <2>1. PICK n \in Crtc \cup {NoCrtc} :
          /\ crtc' = [crtc EXCEPT ![i] = n]
          /\ n # NoCrtc => n \in Drives(conns[i]) /\ n \notin Used
          /\ IF n = NoCrtc THEN DropDevice ELSE step' = "dumb" /\ UNCHANGED i
    BY <1>4, SetupCrtcResult
  <2>2. step = "crtc" /\ UNCHANGED <<card, modeset_list, held>> /\ buf' = 0
    BY <1>4 DEF SetupCrtc
  <2>3. More /\ i \in Connector /\ i \notin modeset_list /\ held[i] = {}
    <3>1. HeldSoFar = {} /\ Busy
      BY <2>2 DEF HeldSoFar, Busy
    <3>2. More /\ held[i] = {}
      BY <3>1 DEF IInv, HalfMade
    <3>3. QED
      BY <1>0, <3>2 DEF IInv, ListPassed, More
  <2>4. \A c \in Connector : c > i => c \notin modeset_list /\ held[c] = {}
    BY <1>0, <2>2 DEF IInv, HalfMade, Busy, ListPassed
  <2>5. \A c \in modeset_list : crtc'[c] = crtc[c]
    BY <2>1, <2>3 DEF IInv, TypeOK
  <2>6. CrtcsDistinct' /\ CrtcsFit' /\ Used' = Used
    BY <2>2, <2>5 DEF IInv, CrtcsDistinct, CrtcsFit, Used
  <2>7. TypeOK'
    BY <1>0, <2>1, <2>2, <2>3 DEF IInv, TypeOK, DropDevice, Steps, Buf, More
  <2>8. NothingLeaks' /\ ListPassed'
    <3>1. ASSUME NEW c \in Connector
          PROVE  held[c] = IF c \in modeset_list THEN Resource ELSE {}
      <4>1. CASE c < i
        BY <4>1 DEF IInv, NothingLeaks, Settled
      <4>2. CASE ~(c < i)
        <5>1. c = i \/ c > i
          BY <1>0, <4>2
        <5>2. QED
          BY <2>3, <2>4, <5>1
      <4>3. QED
        BY <4>1, <4>2
    <3>2. NothingLeaks'
      BY <2>2, <3>1 DEF NothingLeaks
    <3>3. ListPassed'
      BY <1>0, <2>1, <2>2 DEF IInv, ListPassed, DropDevice
    <3>4. QED
      BY <3>2, <3>3
  <2>9. HalfMade'
    <3>1. CASE n = NoCrtc
      BY <2>1, <3>1 DEF HalfMade, Busy, DropDevice
    <3>2. CASE n # NoCrtc
      <4>1. step' = "dumb" /\ i' = i
        BY <2>1, <3>2
      <4>2. HeldSoFar' = {}
        BY <2>2, <4>1 DEF HeldSoFar, Made
      <4>3. QED
        BY <2>2, <2>3, <2>4, <4>1, <4>2 DEF HalfMade, More
    <3>3. QED
      BY <3>1, <3>2
  <2>10. CrtcChosen'
    BY <2>1, <2>2, <2>3, <2>6 DEF IInv, TypeOK, CrtcChosen, DropDevice
  <2>11. QED
    BY <2>6, <2>7, <2>8, <2>9, <2>10 DEF IInv
<1>5. CASE CreateDumb
  <2>1. CASE Acquire("handle") /\ step' = "addfb" /\ UNCHANGED <<i, buf>>
    BY <1>0, <1>5, <2>1, Acquired DEF CreateDumb
  <2>2. CASE FailFb({})
    BY <1>5, <2>2, GiveUp DEF CreateDumb, IInv, HalfMade, Busy, HeldSoFar
  <2>3. QED
    BY <1>5, <2>1, <2>2 DEF CreateDumb
<1>6. CASE AddFB
  <2>1. CASE Acquire("fb") /\ step' = "map" /\ UNCHANGED <<i, buf>>
    BY <1>0, <1>6, <2>1, Acquired DEF AddFB
  <2>2. CASE FailFb({"handle"})
    BY <1>6, <2>2, GiveUp DEF AddFB, IInv, HalfMade, Busy, HeldSoFar
  <2>3. QED
    BY <1>6, <2>1, <2>2 DEF AddFB
<1>7. CASE MapBuffer
  <2>1. CASE /\ Acquire("map") /\ buf = 0
             /\ step' = "dumb" /\ buf' = 1 /\ UNCHANGED <<i, modeset_list>>
    BY <1>7, <2>1, FirstMapped DEF MapBuffer
  <2>2. CASE /\ Acquire("map") /\ buf # 0
             /\ step' = "connector" /\ i' = i + 1
             /\ modeset_list' = modeset_list \cup {i} /\ UNCHANGED buf
    BY <1>7, <2>2, SecondMapped DEF MapBuffer
  <2>3. CASE FailFb({"fb", "handle"}) /\ UNCHANGED modeset_list
    BY <1>7, <2>3, GiveUp DEF MapBuffer, IInv, HalfMade, Busy, HeldSoFar
  <2>4. QED
    BY <1>7, <2>1, <2>2, <2>3 DEF MapBuffer
<1>8. ASSUME NEW c \in Connector, DestroyDevice(c) PROVE IInv'
  <2>1. (Resource \ OfBuf(0)) \ OfBuf(1) = {}
    BY DEF Resource, OfBuf, Buf
  <2>2. held' = [held EXCEPT ![c] = {}]
    BY <1>0, <1>8, <2>1 DEF IInv, TypeOK, DestroyDevice, NothingLeaks, ListPassed, Settled
  <2>3. TypeOK'
    BY <1>8, <2>2 DEF IInv, TypeOK, DestroyDevice
  <2>4. CrtcsDistinct' /\ CrtcsFit' /\ ListPassed' /\ HalfMade' /\ CrtcChosen'
    BY <1>8 DEF IInv, CrtcsDistinct, CrtcsFit, ListPassed, HalfMade, Busy, CrtcChosen,
                DestroyDevice
  <2>5. NothingLeaks'
    BY <1>8, <2>2 DEF IInv, TypeOK, NothingLeaks, Settled, DestroyDevice
  <2>6. QED
    BY <2>3, <2>4, <2>5 DEF IInv
<1>9. CASE Exit
  BY <1>9 DEF IInv, TypeOK, Steps, CrtcsDistinct, CrtcsFit, NothingLeaks, Settled, ListPassed,
              HalfMade, Busy, CrtcChosen, Exit
<1>10. CASE UNCHANGED vars
  BY <1>10 DEF IInv, TypeOK, CrtcsDistinct, CrtcsFit, NothingLeaks, Settled, ListPassed,
               HalfMade, Busy, HeldSoFar, Made, CrtcChosen, Used, More, vars
<1>11. QED
  BY <1>1, <1>2, <1>3, <1>4, <1>5, <1>6, <1>7, <1>8, <1>9, <1>10 DEF Next

\* IInv holds throughout.
LEMMA InductiveInvariant == Spec => []IInv
  BY InitIInv, IInvStep, PTL DEF Spec

----------------------------------------------------------------------------
(* The theorems *)

\* modeset_prepare() is type correct; in particular it stops at the last
\* connector.
THEOREM TypeCorrect == Spec => []TypeOK
<1>1. IInv => TypeOK
  BY DEF IInv
<1>2. QED
  BY <1>1, InductiveInvariant, PTL

\* modeset_find_crtc() never gives two outputs the same CRTC.
THEOREM CrtcsNeverShared == Spec => []CrtcsDistinct
<1>1. IInv => CrtcsDistinct
  BY DEF IInv
<1>2. QED
  BY <1>1, InductiveInvariant, PTL

\* Every CRTC it gives works with an encoder of the connector.
THEOREM CrtcsAlwaysFit == Spec => []CrtcsFit
<1>1. IInv => CrtcsFit
  BY DEF IInv
<1>2. QED
  BY <1>1, InductiveInvariant, PTL

\* The error paths of modeset_create_fb() and modeset_setup_dev() give back
\* exactly what was taken.
THEOREM NothingEverLeaks == Spec => []NothingLeaks
<1>1. IInv => NothingLeaks
  BY DEF IInv
<1>2. QED
  BY <1>1, InductiveInvariant, PTL

\* As long as no call fails, modeset_find_crtc() gives up on a connector only
\* when every CRTC it could use is taken.
THEOREM SearchIsComplete == Spec => SearchComplete
<1>1. ASSUME IInv, [Next]_vars
      PROVE  [~calls_fail /\ step = "crtc" /\ step' = "connector"
                => Drives(conns[i]) \subseteq Used]_vars
  <2>1. SUFFICES ASSUME Next, ~calls_fail, step = "crtc", step' = "connector"
                 PROVE  Drives(conns[i]) \subseteq Used
    BY <1>1
  <2>2. SetupCrtc
    BY <2>1 DEF Next, SkipConnector, TakeConnector, EndPrepare, CreateDumb, AddFB, MapBuffer,
                DestroyDevice, Exit
  <2>3. conns[i] \in Conns
    BY <1>1, <2>1, PrepareAssumption DEF IInv, TypeOK, HalfMade, Busy, More, Connector, Conns
  <2>4. FindCrtc(conns[i], Used, DOMAIN conns[i].encoders) = NoCrtc
    BY <1>1, <2>1, <2>2 DEF SetupCrtc, Got
  <2>5. QED
    BY <2>3, <2>4, FindCrtcGivesUp
<1>2. QED
  BY <1>1, InductiveInvariant, PTL DEF Spec, SearchComplete

============================================================================
