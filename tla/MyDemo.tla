------------------------------- MODULE MyDemo -------------------------------
(***************************************************************************)
(* mydemo.c: init starts a thread, a kthread worker, a workqueue and a     *)
(* generic netlink family, each with work that queues itself again, and    *)
(* returns 0 whatever failed.  my_cleanup() is empty.                      *)
(***************************************************************************)
EXTENDS LoadedModule

\* The works of one queue run one at a time.
Queues == {{"work", "dwork"}, {"wq_work", "wq_dwork"}, {"system_wq_dwork"}}

\* One of the functions my_init() calls has returned, having hooked up more.
InitStep(from, to, more) ==
  /\ program = "mydemo" /\ state = "init" /\ at = from
  /\ hooks' = hooks \cup more
  /\ at' = to
  /\ UNCHANGED <<program, refs, calls, files, device, held>>

\* It uses what it has just failed to create: the kernel kills the insmod.
InitKilled(from) ==
  /\ program = "mydemo" /\ state = "init" /\ at = from
  /\ state' = "oops"
  /\ UNCHANGED <<program, at, refs, hooks, calls, files, device, held>>

\* my_kthread_init(): kthread_run() may fail.
KthreadInit ==
  /\ \E created \in BOOLEAN :
       InitStep("start", "second", IF created THEN {"thread"} ELSE {})
  /\ UNCHANGED state

\* my_kthread_work_init(): a failure of kthread_create_worker() is reported,
\* and the error pointer used.
KthreadWorkInit ==
  \/ InitStep("second", "third", {"work", "dwork"}) /\ UNCHANGED state
  \/ InitKilled("second")

\* my_workqueue_init(): likewise the null pointer of alloc_workqueue().
WorkqueueInit ==
  \/ InitStep("third", "last", {"wq_work", "wq_dwork"}) /\ UNCHANGED state
  \/ InitKilled("third")

\* my_netlink_init(), which ends my_init().
NetlinkInit ==
  /\ \E registered \in BOOLEAN :
       InitStep("last", "last",
                {"system_wq_dwork"} \cup (IF registered THEN {"genl"} ELSE {}))
  /\ state' = "live"

\* my_cleanup()
Cleanup ==
  /\ program = "mydemo" /\ state = "exit"
  /\ state' = "gone"
  /\ UNCHANGED <<program, at, refs, hooks, calls, files, device, held>>

\* my_thread_fn() never returns; my_genl_cmd_1() does.
ThreadFn == Enter("thread")
GenlCmd  == Enter("genl") \/ Leave("genl")

\* A queued work is taken off its queue and run.
RunWork(h) ==
  /\ h \in hooks
  /\ \A queue \in Queues : h \in queue => queue \cap calls = {}
  /\ hooks' = hooks \ {h}
  /\ calls' = calls \cup {h}
  /\ UNCHANGED <<program, state, at, refs, files, device, held>>

\* my_kthread_dwork_fn(), my_workqueue_d_fn() and my_mcast_trigger() queue
\* themselves once more.
EndWork(h) ==
  /\ h \in calls
  /\ hooks' = hooks \cup ({h} \cap DelayedWorks)
  /\ calls' = calls \ {h}
  /\ UNCHANGED <<program, state, at, refs, files, device, held>>

MyDemoNext ==
  \/ KthreadInit
  \/ KthreadWorkInit
  \/ WorkqueueInit
  \/ NetlinkInit
  \/ Cleanup
  \/ ThreadFn
  \/ GenlCmd
  \/ \E h \in Works : RunWork(h) \/ EndWork(h)

=============================================================================
