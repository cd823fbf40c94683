---------------------------- MODULE KernelModules ----------------------------
(***************************************************************************)
(* Each of the kernel modules is loaded, used by several actors at once    *)
(* and unloaded.                                                           *)
(***************************************************************************)
EXTENDS KLooper, MyDemo, Rtl8139, NetlinkModule

Next ==
  \/ Insmod
  \/ Rmmod
  \/ LooperNext
  \/ MyDemoNext
  \/ Rtl8139Next
  \/ NetlinkNext

Spec == Init /\ [][Next]_vars

----------------------------------------------------------------------------

\* What a module forgets to take back: k_looper.c the notifier, mydemo.c all.
Forgotten ==
  CASE program = "k_looper" -> {"notifier"}
    [] program = "mydemo"   -> {"thread", "genl"} \cup Works
    [] OTHER                -> {}

\* Code that is freed is not running: an open file keeps the module loaded to
\* the very end of k_looper_release(), although that gives its own reference
\* back before it returns, and the card's driver is never freed with its
\* network device still there.  Only what was forgotten runs on.
CodeResident ==
  state = "gone" =>
    /\ \A f \in File : files[f] = "closed"
    /\ calls \subseteq Forgotten

\* Nothing can call a module that was not loaded or is unloaded, but what was
\* forgotten; and a probe that fails, and the removal of the card, give back the
\* device, its registers and its network device, with two exceptions: the region
\* of I/O ports, which pci_release_regions() never gives back, and the registers
\* if my_pci_remove() read another address from the memory it had freed.
NothingLeft ==
  /\ state = "absent" => hooks = {}
  /\ state = "gone" => hooks \subseteq Forgotten
  /\ device = "none" =>
       held \subseteq {"ports"} \cup (IF state = "gone" THEN {"mapped"} ELSE {})

=============================================================================
