------------------------ MODULE KernelModules_proofs ------------------------
(***************************************************************************)
(* However many files and sockets there are: the code of an unloaded       *)
(* module does not run, and nothing can call it any more, except for what  *)
(* the module forgot to take back.                                         *)
(***************************************************************************)
EXTENDS TLAPS, KernelModules, FiniteSetTheorems

----------------------------------------------------------------------------
(* The inductive invariant *)

\* What each module may have hooked up, and which of its callbacks may run.
HooksOf ==
  CASE program = "helloworld" -> {"misc"}
    [] program = "k_looper"   -> {"misc", "notifier"}
    [] program = "mydemo"     -> {"thread", "genl"} \cup Works
    [] program = "8139"       -> {"pci", "netdev"}
    [] program = "netlink"    -> {"netlink"}
CallsOf ==
  CASE program = "k_looper" -> {"notifier"}
    [] program = "mydemo"   -> {"thread", "genl"} \cup Works
    [] program = "8139"     -> {"netdev"}
    [] OTHER                -> {}

\* A module has its own callbacks only, and those of its files do not run but
\* for the process that has the file.
OwnHooks == hooks \subseteq HooksOf /\ calls \subseteq CallsOf

\* A file that is not closed is a reference to its module; once
\* k_looper_open() has returned, and until k_looper_release(), it is two.
InUse  == {f \in File : files[f] # "closed"}
Opened == {f \in File : program \in Looper /\ files[f] \in {"open", "busy"}}
RefsCounted == refs = Cardinality(InUse) + Cardinality(Opened)

\* Nothing is open before init has hooked something up, nor from the moment the
\* module can be unloaded: then it had no references, and it gets none any more.
Unhooked == state = "absent" \/ (state = "init" /\ at = "start")
Unused ==
  /\ Unhooked => hooks = {} /\ calls = {}
  /\ (Unhooked \/ state \in {"exit", "gone"}) => \A f \in File : files[f] = "closed"

\* What is left hooked up is what was forgotten.
GoneUnhooked == state = "gone" => hooks \subseteq Forgotten

\* What the driver of the card holds at each point of my_pci_probe(); it never
\* gives the I/O ports back.
HeldAt ==
  {"ports"} \cup
  CASE device = "none"     -> IF state = "gone" THEN {"mapped"} ELSE {}
    [] device = "bar"      -> {"enabled"}
    [] device = "dma"      -> {"enabled", "mapped"}
    [] device = "alloc"    -> {"enabled", "mapped"}
    [] device = "register" -> {"enabled", "mapped", "netdev"}
    [] device = "bound"    -> {"enabled", "mapped", "netdev", "registered"}
ProbeHolds ==
  /\ held \subseteq HeldAt
  /\ device # "none" => program = "8139" /\ state \in {"live", "exit", "oops"}

\* The network device is there, and its operations run, only while the card is
\* registered.
NetdevRegistered == "netdev" \in hooks \cup calls => "registered" \in held

IInv ==
  /\ TypeOK
  /\ OwnHooks
  /\ RefsCounted
  /\ Unused
  /\ GoneUnhooked
  /\ ProbeHolds
  /\ NetdevRegistered

----------------------------------------------------------------------------
(* References *)

FileStates == {"closed", "opening", "open", "busy", "releasing"}

\* The files of a step, and the numbers they are counted by, are finite.
LEMMA FilesFinite ==
  ASSUME NEW S \in SUBSET File
  PROVE  /\ IsFiniteSet(S)
         /\ Cardinality(S) \in 0 .. Cardinality(File)
<1>1. IsFiniteSet(S) /\ Cardinality(S) <= Cardinality(File)
  BY FileAssumption, FS_Subset
<1>2. Cardinality(S) \in Nat /\ Cardinality(File) \in Nat
  BY <1>1, FileAssumption, FS_CardinalityType
<1> QED
  BY <1>1, <1>2

\* The first reference of a file comes with the first step of an open, and
\* goes with the last of a close.
LEMMA InUseMoves ==
  ASSUME TypeOK, NEW f \in File, NEW from, NEW to \in FileStates,
         FileStep(f, from, to)
  PROVE  Cardinality(InUse') = Cardinality(InUse)
           + (IF to = "closed" THEN 0 ELSE 1) - (IF from = "closed" THEN 0 ELSE 1)
<1> USE DEF FileStates
<1>1. /\ files[f] = from
      /\ files' = [files EXCEPT ![f] = to] /\ files \in [File -> FileStates]
  BY DEF FileStep, TypeOK
<1>2. IsFiniteSet(InUse) /\ Cardinality(InUse) \in Nat
  BY FilesFinite, InUse \in SUBSET File DEF InUse
<1>3. CASE from # "closed" /\ to # "closed"
  <2>1. InUse' = InUse
    BY <1>1, <1>3 DEF InUse
  <2> QED
    BY <1>2, <1>3, <2>1
<1>4. CASE from = "closed" /\ to = "closed"
  <2>1. InUse' = InUse
    BY <1>1, <1>4 DEF InUse
  <2> QED
    BY <1>2, <1>4, <2>1
<1>5. CASE from = "closed" /\ to # "closed"
  <2>1. InUse' = InUse \cup {f} /\ f \notin InUse
    BY <1>1, <1>5 DEF InUse
  <2> QED
    BY <1>2, <1>5, <2>1, FS_AddElement
<1>6. CASE from # "closed" /\ to = "closed"
  <2>1. InUse' = InUse \ {f} /\ f \in InUse
    BY <1>1, <1>6 DEF InUse
  <2>2. Cardinality(InUse \ {f}) = Cardinality(InUse) - 1
    BY <1>2, <2>1, FS_RemoveElement
  <2> QED
    BY <1>2, <1>6, <2>1, <2>2
<1> QED
  BY <1>3, <1>4, <1>5, <1>6

\* Likewise the reference of k_looper_open().
LEMMA OpenedMoves ==
  ASSUME TypeOK, NEW f \in File, NEW from, NEW to \in FileStates,
         FileStep(f, from, to), program \in Looper
  PROVE  Cardinality(Opened') = Cardinality(Opened)
           + (IF to \in {"open", "busy"} THEN 1 ELSE 0)
           - (IF from \in {"open", "busy"} THEN 1 ELSE 0)
<1> USE DEF FileStates
<1>1. /\ files[f] = from /\ program' = program
      /\ files' = [files EXCEPT ![f] = to] /\ files \in [File -> FileStates]
  BY DEF FileStep, TypeOK
<1>2. IsFiniteSet(Opened) /\ Cardinality(Opened) \in Nat
  BY FilesFinite, Opened \in SUBSET File DEF Opened
<1>3. CASE from \in {"open", "busy"} <=> to \in {"open", "busy"}
  <2>1. Opened' = Opened
    BY <1>1, <1>3 DEF Opened
  <2> QED
    BY <1>2, <1>3, <2>1
<1>4. CASE from \notin {"open", "busy"} /\ to \in {"open", "busy"}
  <2>1. Opened' = Opened \cup {f} /\ f \notin Opened
    BY <1>1, <1>4 DEF Opened
  <2> QED
    BY <1>2, <1>4, <2>1, FS_AddElement
<1>5. CASE from \in {"open", "busy"} /\ to \notin {"open", "busy"}
  <2>1. Opened' = Opened \ {f} /\ f \in Opened
    BY <1>1, <1>5 DEF Opened
  <2>2. Cardinality(Opened \ {f}) = Cardinality(Opened) - 1
    BY <1>2, <2>1, FS_RemoveElement
  <2> QED
    BY <1>2, <1>5, <2>1, <2>2
<1> QED
  BY <1>3, <1>4, <1>5

\* Two for each file are the most references there can be, and without any no
\* file is open: that is what delete_module() relies on.
LEMMA RefsBounded ==
  ASSUME NEW once \in SUBSET File, NEW again \in SUBSET File,
         NEW n, n = Cardinality(once) + Cardinality(again)
  PROVE  n \in 0 .. 2 * Cardinality(File) /\ (n = 0 => once = {})
<1>1. /\ Cardinality(once) \in 0 .. Cardinality(File)
      /\ Cardinality(again) \in 0 .. Cardinality(File)
      /\ IsFiniteSet(once)
  BY FilesFinite
<1>2. Cardinality(File) \in Nat
  BY FileAssumption, FS_CardinalityType
<1>3. n = 0 => Cardinality(once) = 0
  BY <1>1
<1> QED
  BY <1>1, <1>2, <1>3, FS_EmptySet

----------------------------------------------------------------------------
(* Every step keeps the invariant *)

\* A step that leaves the files and the references alone.
LEMMA RefsKept ==
  ASSUME RefsCounted, UNCHANGED <<program, refs, files>>
  PROVE  RefsCounted'
<1>1. InUse' = InUse /\ Opened' = Opened
  BY DEF InUse, Opened
<1> QED
  BY <1>1 DEF RefsCounted

LEMMA InitOk == Init => IInv
<1> SUFFICES ASSUME Init PROVE IInv
  OBVIOUS
<1> USE DEF Init
<1>1. InUse = {} /\ Opened = {}
  BY DEF InUse, Opened
<1>2. RefsCounted
  BY <1>1, FS_EmptySet DEF RefsCounted
<1>3. TypeOK
  BY <1>1, <1>2, RefsBounded DEF RefsCounted, TypeOK, Hooks
<1>4. OwnHooks /\ Unused /\ GoneUnhooked /\ ProbeHolds /\ NetdevRegistered
  BY DEF OwnHooks, Unused, Unhooked, GoneUnhooked, ProbeHolds, HeldAt, NetdevRegistered
<1> QED
  BY <1>2, <1>3, <1>4 DEF IInv

\* What the rest of the kernel does for any module.
LEMMA LoadedOk == IInv /\ (Insmod \/ Rmmod) => IInv'
<1> SUFFICES ASSUME IInv, Insmod \/ Rmmod PROVE IInv'
  OBVIOUS
<1>1. RefsCounted'
  BY RefsKept DEF IInv, Insmod, Rmmod
<1>2. CASE Insmod
  <2> USE <1>2 DEF IInv, Insmod
  <2>1. TypeOK' /\ OwnHooks' /\ Unused' /\ GoneUnhooked'
    BY DEF TypeOK, OwnHooks, HooksOf, CallsOf, Unused, Unhooked, GoneUnhooked
  <2>2. ProbeHolds' /\ NetdevRegistered'
    BY DEF ProbeHolds, HeldAt, NetdevRegistered
  <2> QED
    BY <1>1, <2>1, <2>2
<1>3. CASE Rmmod
  <2> USE <1>3 DEF IInv, Rmmod
  <2>1. \A f \in File : files[f] = "closed"
    <3>1. InUse \in SUBSET File /\ Opened \in SUBSET File
      BY DEF InUse, Opened
    <3>2. InUse = {}
      BY <3>1, RefsBounded DEF RefsCounted
    <3> QED
      BY <3>2 DEF InUse
  <2>2. TypeOK' /\ OwnHooks' /\ Unused' /\ GoneUnhooked'
    BY <2>1 DEF TypeOK, OwnHooks, HooksOf, CallsOf, Unused, Unhooked, GoneUnhooked
  <2>3. ProbeHolds' /\ NetdevRegistered'
    BY DEF ProbeHolds, HeldAt, NetdevRegistered
  <2> QED
    BY <1>1, <2>2, <2>3
<1> QED
  BY <1>2, <1>3

\* The kernel calls a module back.
LEMMA CallbackOk ==
  ASSUME IInv, NEW h \in {"notifier", "thread", "genl", "netdev"},
         Enter(h) \/ Leave(h)
  PROVE  IInv'
<1> USE DEF IInv, Enter, Leave
<1>1. RefsCounted'
  BY RefsKept
<1>2. TypeOK'
  BY DEF TypeOK
<1>3. OwnHooks'
  BY DEF OwnHooks, HooksOf, CallsOf, TypeOK, Programs, Works, DelayedWorks
<1>4. Unused' /\ GoneUnhooked' /\ ProbeHolds' /\ NetdevRegistered'
  BY DEF Unused, Unhooked, GoneUnhooked, Forgotten, ProbeHolds, HeldAt, NetdevRegistered
<1> QED
  BY <1>1, <1>2, <1>3, <1>4

\* mydemo.c
LEMMA MyDemoOk == IInv /\ MyDemoNext => IInv'
<1> SUFFICES ASSUME IInv, MyDemoNext PROVE IInv'
  OBVIOUS
<1> DEFINE Starts == KthreadInit \/ KthreadWorkInit \/ WorkqueueInit \/ NetlinkInit
<1>1. CASE Starts
  <2> USE <1>1 DEF IInv, KthreadInit, KthreadWorkInit, WorkqueueInit, NetlinkInit,
                   InitStep, InitKilled
  <2>1. program = "mydemo" /\ state = "init" /\ UNCHANGED <<program, calls, device, held>>
    OBVIOUS
  <2>2. RefsCounted'
    BY RefsKept
  <2>3. /\ hooks \subseteq hooks' /\ hooks' \subseteq hooks \cup {"thread", "genl"} \cup Works
        /\ state' \in {"init", "live", "oops"} /\ ~Unhooked'
        /\ at' \in {"start", "second", "third", "last"} /\ UNCHANGED <<refs, files>>
    BY DEF Works, DelayedWorks, Unhooked, TypeOK
  <2>4. TypeOK'
    BY <2>1, <2>3 DEF TypeOK, Hooks
  <2>5. OwnHooks' /\ Unused' /\ GoneUnhooked'
    BY <2>1, <2>3 DEF OwnHooks, HooksOf, CallsOf, Unused, GoneUnhooked
  <2>6. "netdev" \notin hooks' \cup calls'
    BY <2>1, <2>3 DEF OwnHooks, HooksOf, CallsOf, Works, DelayedWorks
  <2>7. ProbeHolds' /\ NetdevRegistered'
    BY <2>1, <2>3, <2>6 DEF ProbeHolds, HeldAt, NetdevRegistered
  <2> QED
    BY <2>2, <2>4, <2>5, <2>7
<1>2. CASE Cleanup
  <2> USE <1>2 DEF IInv, Cleanup
  <2>1. RefsCounted'
    BY RefsKept
  <2>2. TypeOK' /\ OwnHooks' /\ Unused' /\ GoneUnhooked'
    BY DEF TypeOK, OwnHooks, HooksOf, CallsOf, Unused, Unhooked, GoneUnhooked, Forgotten
  <2>3. ProbeHolds' /\ NetdevRegistered'
    BY DEF ProbeHolds, HeldAt, NetdevRegistered
  <2> QED
    BY <2>1, <2>2, <2>3
<1>3. CASE ThreadFn \/ GenlCmd
  BY <1>3, CallbackOk DEF ThreadFn, GenlCmd
<1>4. ASSUME NEW h \in Works, RunWork(h) \/ EndWork(h) PROVE IInv'
  <2> USE <1>4 DEF IInv, RunWork, EndWork
  <2>1. RefsCounted'
    BY RefsKept
  <2>2. program = "mydemo"
    BY DEF OwnHooks, HooksOf, CallsOf, Works, DelayedWorks, TypeOK, Programs
  <2>3. /\ hooks' \subseteq hooks \cup {h} /\ calls' \subseteq calls \cup {h}
        /\ UNCHANGED <<program, state, at, refs, files, device, held>>
    OBVIOUS
  <2>4. TypeOK' /\ OwnHooks'
    BY <2>2, <2>3 DEF TypeOK, OwnHooks, HooksOf, CallsOf, Hooks
  <2>5. ~Unhooked
    <3>1. CASE Unhooked
      BY <2>2, <3>1 DEF Unused, Unhooked
    <3> QED
      BY <3>1
  <2>6. Unused' /\ GoneUnhooked'
    BY <2>2, <2>3, <2>5 DEF Unused, Unhooked, GoneUnhooked, Forgotten
  <2>7. ProbeHolds' /\ NetdevRegistered'
    BY <2>3 DEF ProbeHolds, HeldAt, NetdevRegistered, Works, DelayedWorks
  <2> QED
    BY <2>1, <2>4, <2>6, <2>7
<1> QED
  BY <1>1, <1>2, <1>3, <1>4 DEF MyDemoNext

\* 8139.c: the error labels of my_pci_probe() give back all that it holds.
LEMMA Rtl8139Ok == IInv /\ Rtl8139Next => IInv'
<1> SUFFICES ASSUME IInv, Rtl8139Next PROVE IInv'
  OBVIOUS
<1>1. CASE RegisterDriver
  <2> USE <1>1 DEF IInv, RegisterDriver
  <2>1. RefsCounted'
    BY RefsKept
  <2>2. TypeOK' /\ OwnHooks' /\ Unused' /\ GoneUnhooked'
    BY DEF TypeOK, OwnHooks, HooksOf, CallsOf, Unused, Unhooked, GoneUnhooked, Hooks
  <2>3. ProbeHolds' /\ NetdevRegistered'
    BY DEF ProbeHolds, HeldAt, NetdevRegistered
  <2> QED
    BY <2>1, <2>2, <2>3
<1>2. CASE EnableDevice \/ MapBar \/ SetDmaMask \/ AllocEtherdev
  <2> USE <1>2 DEF IInv, EnableDevice, MapBar, SetDmaMask, AllocEtherdev,
                   ProbeStep, Advance, Unmap, Disable, RequestRegion, ReleaseRegions
  <2>1. RefsCounted'
    BY RefsKept
  <2>2. TypeOK' /\ OwnHooks' /\ Unused' /\ GoneUnhooked'
    BY DEF TypeOK, OwnHooks, HooksOf, CallsOf, Unused, Unhooked, GoneUnhooked, Forgotten
  <2>3. program = "8139" /\ state \in {"live", "exit", "oops"}
    BY DEF OwnHooks, HooksOf, ProbeHolds, TypeOK, Programs, Works, DelayedWorks
  <2>4. ProbeHolds'
    BY <2>3 DEF ProbeHolds, HeldAt
  <2>5. NetdevRegistered'
    BY DEF ProbeHolds, HeldAt, NetdevRegistered
  <2> QED
    BY <2>1, <2>2, <2>4, <2>5
<1>3. CASE RegisterNetdev
  <2> USE <1>3 DEF IInv, RegisterNetdev, ProbeStep
  <2>1. RefsCounted'
    BY RefsKept
  <2>2. program = "8139" /\ state \in {"live", "exit", "oops"}
    BY DEF ProbeHolds
  <2>3. TypeOK' /\ OwnHooks' /\ Unused' /\ GoneUnhooked'
    BY <2>2 DEF TypeOK, OwnHooks, HooksOf, CallsOf, Unused, Unhooked, GoneUnhooked, Hooks
  <2>4. ProbeHolds' /\ NetdevRegistered'
    BY <2>2 DEF ProbeHolds, HeldAt, NetdevRegistered
  <2> QED
    BY <2>1, <2>3, <2>4
<1>4. CASE ExitUnbound \/ ExitBound
  <2> USE <1>4 DEF IInv, ExitUnbound, ExitBound, Remove, Given, ReleaseRegions
  <2>1. RefsCounted'
    BY RefsKept
  <2>2. /\ program = "8139" /\ state = "exit" /\ state' \in {"gone", "oops"}
        /\ UNCHANGED <<program, calls, files>>
    OBVIOUS
  <2>3. TypeOK' /\ OwnHooks' /\ Unused'
    BY <2>2 DEF TypeOK, OwnHooks, HooksOf, CallsOf, Unused, Unhooked
  <2>4. state' = "gone" => "registered" \notin held /\ hooks' = hooks \ {"pci"}
    BY DEF ProbeHolds, HeldAt
  <2>5. GoneUnhooked'
    BY <2>2, <2>4 DEF OwnHooks, HooksOf, GoneUnhooked, Forgotten, NetdevRegistered
  <2>6. ProbeHolds' /\ NetdevRegistered'
    BY <2>2 DEF ProbeHolds, HeldAt, NetdevRegistered
  <2> QED
    BY <2>1, <2>3, <2>5, <2>6
<1>5. CASE UseNetdev
  BY <1>5, CallbackOk DEF UseNetdev
<1> QED
  BY <1>1, <1>2, <1>3, <1>4, <1>5 DEF Rtl8139Next

\* A step of a process with its file leaves the rest of the invariant alone.
LEMMA FileStepOk ==
  ASSUME IInv, NEW f \in File, NEW from, NEW to \in FileStates,
         FileStep(f, from, to), RefsCounted',
         state \notin {"exit", "gone"} /\ ~Unhooked
  PROVE  IInv'
<1> USE DEF IInv, FileStep
<1>1. refs' \in 0 .. 2 * Cardinality(File)
  <2>1. InUse' \in SUBSET File /\ Opened' \in SUBSET File
    BY DEF InUse, Opened
  <2> QED
    BY <2>1, RefsBounded DEF RefsCounted
<1>2. TypeOK'
  BY <1>1 DEF TypeOK, FileStates
<1>3. OwnHooks' /\ Unused' /\ GoneUnhooked'
  BY DEF OwnHooks, HooksOf, CallsOf, Unused, Unhooked, GoneUnhooked, Forgotten
<1>4. ProbeHolds' /\ NetdevRegistered'
  BY DEF ProbeHolds, HeldAt, NetdevRegistered
<1> QED
  BY <1>2, <1>3, <1>4

\* helloworld.c and k_looper.c: k_looper_release() gives back the reference of
\* k_looper_open(), and the kernel its own a step later.
LEMMA LooperOk == IInv /\ LooperNext => IInv'
<1> SUFFICES ASSUME IInv, LooperNext PROVE IInv'
  OBVIOUS
<1>1. CASE RegisterMisc \/ RegisterNotifier \/ DeregisterMisc
  <2> USE <1>1 DEF IInv, RegisterMisc, MiscRegistered, RegisterNotifier, DeregisterMisc
  <2>1. RefsCounted'
    BY RefsKept
  <2>2. TypeOK' /\ OwnHooks'
    BY DEF TypeOK, OwnHooks, HooksOf, CallsOf, Looper, Hooks
  <2>3. Unused' /\ GoneUnhooked'
    BY DEF OwnHooks, HooksOf, CallsOf, Looper, Unused, Unhooked, GoneUnhooked, Forgotten
  <2>4. ProbeHolds' /\ NetdevRegistered'
    BY DEF ProbeHolds, HeldAt, Looper, NetdevRegistered
  <2> QED
    BY <2>1, <2>2, <2>3, <2>4
<1>2. ASSUME NEW f \in File,
             \/ MiscOpen(f) \/ LooperOpen(f) \/ LooperReadWrite(f)
             \/ LooperReturn(f) \/ LooperRelease(f) \/ LooperClosed(f)
      PROVE  IInv'
  <2> USE DEF IInv
  <2>1. program \in Looper
    BY <1>2 DEF MiscOpen, LooperOpen, LooperReadWrite, LooperReturn, LooperRelease,
                LooperClosed, OwnHooks, HooksOf, Looper, TypeOK, Programs, Works, DelayedWorks
  <2>2. state \notin {"exit", "gone"} /\ ~Unhooked
    BY <1>2 DEF MiscOpen, LooperOpen, LooperReadWrite, LooperReturn, LooperRelease,
                LooperClosed, OwnerRefs, Gettable, Unused, FileStep
  <2>3. PICK from \in FileStates, to \in FileStates :
          /\ FileStep(f, from, to)
          /\ refs' = refs + (IF to = "closed" THEN 0 ELSE 1)
                    - (IF from = "closed" THEN 0 ELSE 1)
                    + (IF to \in {"open", "busy"} THEN 1 ELSE 0)
                    - (IF from \in {"open", "busy"} THEN 1 ELSE 0)
    <3> refs \in Nat
      BY FileAssumption, FS_CardinalityType DEF TypeOK
    <3> USE DEF FileStates, OwnerRefs, Put
    <3>1. CASE MiscOpen(f)
      BY <3>1 DEF MiscOpen
    <3>2. CASE LooperOpen(f)
      BY <3>2 DEF LooperOpen
    <3>3. CASE LooperReadWrite(f) \/ LooperReturn(f)
      BY <3>3 DEF LooperReadWrite, LooperReturn
    <3>4. CASE LooperRelease(f) \/ LooperClosed(f)
      BY <3>4 DEF LooperRelease, LooperClosed
    <3> QED
      BY <1>2, <3>1, <3>2, <3>3, <3>4
  <2>4. /\ Cardinality(InUse) \in Nat /\ Cardinality(Opened) \in Nat
        /\ Cardinality(InUse') \in Nat /\ Cardinality(Opened') \in Nat
    BY FilesFinite, FileAssumption, FS_CardinalityType, InUse \in SUBSET File,
       Opened \in SUBSET File, InUse' \in SUBSET File, Opened' \in SUBSET File
       DEF InUse, Opened
  <2>5. RefsCounted'
    BY <2>1, <2>3, <2>4, InUseMoves, OpenedMoves DEF RefsCounted
  <2> QED
    BY <2>2, <2>3, <2>5, FileStepOk
<1>3. CASE LooperNotify
  BY <1>3, CallbackOk DEF LooperNotify
<1> QED
  BY <1>1, <1>2, <1>3 DEF LooperNext

\* net/netlink: a socket is one reference, for the protocol's owner.
LEMMA NetlinkOk == IInv /\ NetlinkNext => IInv'
<1> SUFFICES ASSUME IInv, NetlinkNext PROVE IInv'
  OBVIOUS
<1>1. CASE NetlinkCreate \/ SockRelease
  <2> USE <1>1 DEF IInv, NetlinkCreate, SockRelease
  <2>1. RefsCounted'
    BY RefsKept
  <2>2. TypeOK' /\ OwnHooks'
    BY DEF TypeOK, OwnHooks, HooksOf, CallsOf, Hooks
  <2>3. Unused' /\ GoneUnhooked'
    BY DEF OwnHooks, HooksOf, CallsOf, Unused, Unhooked, GoneUnhooked, Forgotten
  <2>4. ProbeHolds' /\ NetdevRegistered'
    BY DEF ProbeHolds, HeldAt, NetdevRegistered
  <2> QED
    BY <2>1, <2>2, <2>3, <2>4
<1>2. ASSUME NEW f \in File, Socket(f) \/ SendMsg(f) \/ DataReady(f) \/ Close(f)
      PROVE  IInv'
  <2> USE DEF IInv
  <2>1. program = "netlink"
    BY <1>2 DEF Socket, SendMsg, DataReady, Close, OwnHooks, HooksOf, TypeOK, Programs,
                Works, DelayedWorks
  <2>2. state \notin {"exit", "gone"} /\ ~Unhooked
    BY <1>2 DEF Socket, SendMsg, DataReady, Close, Gettable, Unused, FileStep
  <2>3. PICK from \in FileStates, to \in FileStates :
          /\ FileStep(f, from, to)
          /\ refs' = refs + (IF to = "closed" THEN 0 ELSE 1)
                    - (IF from = "closed" THEN 0 ELSE 1)
    <3> refs \in Nat
      BY FileAssumption, FS_CardinalityType DEF TypeOK
    <3> QED
      BY <1>2 DEF FileStates, Socket, SendMsg, DataReady, Close
  <2>4. Opened = {} /\ Opened' = {}
    BY <2>1, <2>3 DEF Opened, FileStep, Looper
  <2>5. Cardinality(InUse) \in Nat /\ Cardinality(InUse') \in Nat
    BY FilesFinite, FileAssumption, FS_CardinalityType, InUse \in SUBSET File,
       InUse' \in SUBSET File DEF InUse
  <2>6. RefsCounted'
    BY <2>3, <2>4, <2>5, InUseMoves, FS_EmptySet DEF RefsCounted
  <2> QED
    BY <2>2, <2>3, <2>6, FileStepOk
<1> QED
  BY <1>1, <1>2 DEF NetlinkNext

----------------------------------------------------------------------------
(* The theorems *)

LEMMA InvariantHolds == Spec => []IInv
<1>1. IInv /\ [Next]_vars => IInv'
  <2> SUFFICES ASSUME IInv, [Next]_vars PROVE IInv'
    OBVIOUS
  <2>1. CASE Next
    BY <2>1, LoadedOk, LooperOk, MyDemoOk, Rtl8139Ok, NetlinkOk DEF Next
  <2>2. CASE UNCHANGED vars
    <3> USE <2>2 DEF vars, IInv
    <3>1. RefsCounted'
      BY RefsKept
    <3>2. TypeOK' /\ OwnHooks' /\ Unused'
      BY DEF TypeOK, OwnHooks, HooksOf, CallsOf, Unused, Unhooked
    <3>3. GoneUnhooked' /\ ProbeHolds' /\ NetdevRegistered'
      BY DEF GoneUnhooked, Forgotten, ProbeHolds, HeldAt, NetdevRegistered
    <3> QED
      BY <3>1, <3>2, <3>3
  <2> QED
    BY <2>1, <2>2
<1> QED
  BY <1>1, InitOk, PTL DEF Spec

\* Every variable stays in its type: in particular the references that open(),
\* release() and the sockets count are never fewer than none.
THEOREM TypeCorrect == Spec => []TypeOK
<1>1. IInv => TypeOK
  BY DEF IInv
<1> QED
  BY <1>1, InvariantHolds, PTL

\* The references of a module are those of its files: a file that is not closed
\* is one, and a second one between the k_looper_open() and k_looper_release()
\* of helloworld.c and k_looper.c.
THEOREM ReferencesCounted == Spec => []RefsCounted
<1>1. IInv => RefsCounted
  BY DEF IInv
<1> QED
  BY <1>1, InvariantHolds, PTL

\* No file is open on a module that is unloaded, although k_looper_release()
\* gives its reference back while it runs, and of its callbacks only those run
\* that k_looper_exit() and my_cleanup() forget to take back.
THEOREM CodeStaysResident == Spec => []CodeResident
<1>1. IInv => CodeResident
  <2> SUFFICES ASSUME IInv, state = "gone" PROVE calls \subseteq Forgotten
    BY DEF IInv, Unused, CodeResident
  <2>1. device = "none" /\ held \subseteq {"ports", "mapped"}
    BY DEF IInv, ProbeHolds, HeldAt
  <2>2. "netdev" \notin calls
    BY <2>1 DEF IInv, NetdevRegistered
  <2> QED
    BY <2>2 DEF IInv, OwnHooks, CallsOf, Forgotten, TypeOK, Programs
<1> QED
  BY <1>1, InvariantHolds, PTL

\* A module that is not loaded, or is unloaded, has nothing hooked up but what
\* was forgotten; and when my_pci_probe() has failed, or my_pci_remove() is
\* through, nothing is held but the I/O ports and, after the latter, perhaps the
\* mapping of the registers.
THEOREM NothingIsLeft == Spec => []NothingLeft
<1>1. IInv => NothingLeft
  BY DEF IInv, NothingLeft, Unused, Unhooked, GoneUnhooked, ProbeHolds, HeldAt
<1> QED
  BY <1>1, InvariantHolds, PTL

=============================================================================
