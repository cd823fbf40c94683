---------------------------- MODULE LoadedModule ----------------------------
(***************************************************************************)
(* What the kernel does for a loadable module, as far as the modules of    *)
(* perftools rely on it: it loads the module and runs its init, refuses to *)
(* unload it while it has references, runs its exit and frees it, and      *)
(* calls back through whatever the module has hooked up.                   *)
(***************************************************************************)
EXTENDS Naturals, FiniteSets

CONSTANT File       \* the files and sockets the processes may open on a module

ASSUME FileAssumption == IsFiniteSet(File)

VARIABLES
  program,          \* which of the modules this is
  state,            \* its life: "gone" after it is freed, "oops" when its init
                    \* or exit was killed by the kernel
  at,               \* where its init function is
  refs,             \* its reference count
  hooks,            \* what the kernel has to call back
  calls,            \* the callbacks that are running
  files,            \* what each file is at
  device,           \* where the probe of the network card is
  held              \* what the card's driver holds

vars == <<program, state, at, refs, hooks, calls, files, device, held>>

Programs == {"helloworld", "k_looper", "mydemo", "8139", "netlink"}
Looper   == {"helloworld", "k_looper"}

DelayedWorks == {"dwork", "wq_dwork", "system_wq_dwork"}
Works        == {"work", "wq_work"} \cup DelayedWorks
Hooks        == {"misc", "notifier", "thread", "genl", "pci", "netdev",
                 "netlink"} \cup Works

TypeOK ==
  /\ program \in Programs
  /\ state \in {"absent", "init", "live", "exit", "gone", "oops"}
  /\ at \in {"start", "second", "third", "last"}
  /\ refs \in 0 .. 2 * Cardinality(File)
  /\ hooks \subseteq Hooks
  /\ calls \subseteq Hooks
  /\ files \in [File -> {"closed", "opening", "open", "busy", "releasing"}]
  /\ device \in {"none", "bar", "dma", "alloc", "register", "bound"}
  /\ held \subseteq {"enabled", "ports", "memory", "mapped", "netdev", "registered"}

Init ==
  /\ program \in Programs
  /\ state = "absent"
  /\ at = "start"
  /\ refs = 0
  /\ hooks = {}
  /\ calls = {}
  /\ files = [f \in File |-> "closed"]
  /\ device = "none"
  /\ held = {}

Insmod ==
  /\ state = "absent"
  /\ state' = "init"
  /\ at' = "start"
  /\ UNCHANGED <<program, refs, hooks, calls, files, device, held>>

\* delete_module(): a module in use is not unloaded.
Rmmod ==
  /\ state = "live" /\ refs = 0
  /\ state' = "exit"
  /\ UNCHANGED <<program, at, refs, hooks, calls, files, device, held>>

\* try_module_get() succeeds until the module is on its way out.
Gettable == state \in {"init", "live"}

\* A CPU goes on or off line, a message or a packet arrives, the new thread is
\* scheduled: the callback runs, whether the module is still there or not.
Enter(h) ==
  /\ h \in hooks \ calls
  /\ calls' = calls \cup {h}
  /\ UNCHANGED <<program, state, at, refs, hooks, files, device, held>>

Leave(h) ==
  /\ h \in calls
  /\ calls' = calls \ {h}
  /\ UNCHANGED <<program, state, at, refs, hooks, files, device, held>>

\* A process goes on with its file.
FileStep(f, from, to) ==
  /\ files[f] = from
  /\ files' = [files EXCEPT ![f] = to]
  /\ UNCHANGED <<program, state, at, hooks, calls, device, held>>

=============================================================================
