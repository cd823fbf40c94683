------------------------------- MODULE KLooper -------------------------------
(***************************************************************************)
(* helloworld.c and k_looper.c: a character device whose open() takes a    *)
(* reference to the module, besides the one misc_open() takes for the      *)
(* owner of the file operations.  k_looper.c also asks to be told of CPUs  *)
(* that go on or off line, and never takes that back.                      *)
(***************************************************************************)
EXTENDS LoadedModule

\* The references .owner = THIS_MODULE makes the kernel take for a file.
OwnerRefsNone == 0                                        \* without .owner
OwnerRefs == 1

\* module_put() of k_looper_release()
PutNot == refs                                            \* forgets it
Put == refs - 1

----------------------------------------------------------------------------
(* k_looper_init(), k_looper_exit() *)

MiscRegistered ==
  /\ hooks' = hooks \cup {"misc"}
  /\ state' = IF program = "helloworld" THEN "live" ELSE "init"
  /\ at'    = "last"

\* misc_register() may fail, and then the module is not loaded.
RegisterMisc ==
  /\ program \in Looper /\ state = "init" /\ at = "start"
  /\ \/ MiscRegistered
     \/ state' = "absent" /\ UNCHANGED <<hooks, at>>
  /\ UNCHANGED <<program, refs, calls, files, device, held>>

\* perf_cpu_notifier() of k_looper.c; the device may be open by then.
RegisterNotifier ==
  /\ program = "k_looper" /\ state = "init" /\ at = "last"
  /\ hooks' = hooks \cup {"notifier"}
  /\ state' = "live"
  /\ UNCHANGED <<program, at, refs, calls, files, device, held>>

DeregisterMisc ==
  /\ program \in Looper /\ state = "exit"
  /\ hooks' = hooks \ {"misc"}
  /\ state' = "gone"
  /\ UNCHANGED <<program, at, refs, calls, files, device, held>>

----------------------------------------------------------------------------
(* The device *)

\* misc_open() takes the owner's reference and calls k_looper_open() ...
MiscOpen(f) ==
  /\ "misc" \in hooks /\ (OwnerRefs = 0 \/ Gettable)
  /\ FileStep(f, "closed", "opening")
  /\ refs' = refs + OwnerRefs

\* ... which takes another, or makes misc_open() fail.
LooperOpen(f) ==
  /\ program \in Looper
  /\ FileStep(f, "opening", IF Gettable THEN "open" ELSE "closed")
  /\ refs' = IF Gettable THEN refs + 1 ELSE refs - OwnerRefs

\* k_looper_read() loops for as long as the last k_looper_write() said.
LooperReadWrite(f) ==
  /\ program \in Looper
  /\ FileStep(f, "open", "busy")
  /\ UNCHANGED refs
LooperReturn(f) ==
  /\ program \in Looper
  /\ FileStep(f, "busy", "open")
  /\ UNCHANGED refs

\* k_looper_release() gives its reference back while it still runs ...
LooperRelease(f) ==
  /\ program \in Looper
  /\ FileStep(f, "open", "releasing")
  /\ refs' = Put

\* ... and the kernel the owner's, once it has returned.
LooperClosed(f) ==
  /\ program \in Looper
  /\ FileStep(f, "releasing", "closed")
  /\ refs' = refs - OwnerRefs

LooperNotify == program = "k_looper" /\ (Enter("notifier") \/ Leave("notifier"))

LooperNext ==
  \/ RegisterMisc
  \/ RegisterNotifier
  \/ DeregisterMisc
  \/ \E f \in File :
       \/ MiscOpen(f)
       \/ LooperOpen(f)
       \/ LooperReadWrite(f)
       \/ LooperReturn(f)
       \/ LooperRelease(f)
       \/ LooperClosed(f)
  \/ LooperNotify

=============================================================================
