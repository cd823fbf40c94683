------------------------------- MODULE Rtl8139 -------------------------------
(***************************************************************************)
(* 8139.c, loading and unloading: the PCI driver, the probe of one card    *)
(* with its error labels, and its removal when the module is unloaded.     *)
(***************************************************************************)
EXTENDS LoadedModule

\* my_init() loads the module even if pci_register_driver() fails.
RegisterDriver ==
  /\ program = "8139" /\ state = "init"
  /\ \E registered \in BOOLEAN :
       hooks' = hooks \cup (IF registered THEN {"pci"} ELSE {})
  /\ state' = "live"
  /\ UNCHANGED <<program, at, refs, calls, files, device, held>>

----------------------------------------------------------------------------
(* my_pci_probe() *)

ProbeStep(from) ==
  /\ device = from
  /\ UNCHANGED <<program, state, at, refs, calls, files>>

Advance(to, got) ==
  /\ device' = to
  /\ held' = held \cup got
  /\ UNCHANGED hooks

\* The region asked for is one of I/O ports, but of the number of region 1, which
\* is memory; what pci_release_regions() gives back goes by the type of a region.
RequestRegion  == {"ports"}
ReleaseRegions == {"memory"}

\* The labels unmap and disable.
UnmapOnly == device' = "none" /\ held' = held \ {"mapped"} /\ UNCHANGED hooks
Unmap == /\ device' = "none"
         /\ held' = held \ ({"mapped", "enabled"} \cup ReleaseRegions)
         /\ UNCHANGED hooks
Disable == device' = "none" /\ held' = held \ {"enabled"} /\ UNCHANGED hooks

\* pci_enable_device(); if it fails nothing has happened.
EnableDevice ==
  /\ "pci" \in hooks /\ state = "live"
  /\ ProbeStep("none")
  /\ Advance("bar", {"enabled"})

\* Region 1 must be memory.  Neither whether request_region() succeeded is
\* looked at nor whether pci_iomap() did.
MapBar ==
  /\ ProbeStep("bar")
  /\ \/ \E got \in SUBSET (RequestRegion \cup {"mapped"}) : Advance("dma", got)
     \/ Disable

SetDmaMask ==
  /\ ProbeStep("dma")
  /\ Advance("alloc", {}) \/ Unmap

AllocEtherdev ==
  /\ ProbeStep("alloc")
  /\ Advance("register", {"netdev"}) \/ Unmap

\* Nor is whether register_netdev() succeeded.
RegisterNetdev ==
  /\ ProbeStep("register")
  /\ \E registered \in BOOLEAN :
       /\ held'  = held  \cup (IF registered THEN {"registered"} ELSE {})
       /\ hooks' = hooks \cup (IF registered THEN {"netdev"} ELSE {})
  /\ device' = "bound"

----------------------------------------------------------------------------
(* my_exit(): pci_unregister_driver() waits for a probe, and removes the card *)

ExitUnbound ==
  /\ program = "8139" /\ state = "exit" /\ device = "none"
  /\ hooks' = hooks \ {"pci"}
  /\ state' = "gone"
  /\ UNCHANGED <<program, at, refs, calls, files, device, held>>

\* my_pci_remove() calls free_netdev() without unregister_netdev(), which is a
\* BUG in the kernel if the card was registered.  Otherwise the card is freed
\* at once, and ioaddr read from freed memory: if it is no longer what it was,
\* the registers stay mapped.
Given == {"netdev", "mapped", "enabled"} \cup ReleaseRegions
Remove ==
  IF "registered" \in held
    THEN state' = "oops" /\ UNCHANGED <<hooks, device, held>>
    ELSE /\ state' = "gone"
         /\ hooks' = hooks \ {"pci"}
         /\ device' = "none"
         /\ held' \in {held \ Given, held \ (Given \ {"mapped"})}

ExitBound ==
  /\ program = "8139" /\ state = "exit" /\ device = "bound"
  /\ Remove
  /\ UNCHANGED <<program, at, refs, calls, files>>

\* The network device's operations.
UseNetdev == Enter("netdev") \/ Leave("netdev")

Rtl8139Next ==
  \/ RegisterDriver
  \/ EnableDevice
  \/ MapBar
  \/ SetDmaMask
  \/ AllocEtherdev
  \/ RegisterNetdev
  \/ ExitUnbound
  \/ ExitBound
  \/ UseNetdev

=============================================================================
