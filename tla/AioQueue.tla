------------------------------ MODULE AioQueue ------------------------------
(***************************************************************************)
(* io/aio/io_queue.c: a fixed number of asynchronous I/Os is kept in       *)
(* flight; every completion is submitted again at once, until enough have  *)
(* been counted.  The kernel completes I/Os in any order while the program *)
(* runs, and io_getevents() returns any number of completions, at least 1. *)
(***************************************************************************)
EXTENDS Integers, FiniteSetsExt

CONSTANTS
  Depth,            \* prog_opt.depth, at most MAX_DEPTH
  Count,            \* prog_opt.count
  MaxErrors         \* bound: failed calls that are modelled

ASSUME AioAssumption ==
  /\ Depth \in Nat \ {0} /\ Count \in Nat /\ MaxErrors \in Nat

VARIABLES
  pc,               \* where main() is
  kernel,           \* kernel[k]: submissions of ios[k] not yet completed
  ring,             \* ring[k]: its completions the program has not fetched
  events,           \* events[k]: its completions fetched, not yet resubmitted
  done,             \* completions counted
  errors,           \* calls that have failed so far
  open              \* the io_context has not been destroyed

vars == <<pc, kernel, ring, events, done, errors, open>>

Ios  == 0 .. Depth - 1
None == [k \in Ios |-> 0]

TypeOK ==
  /\ pc \in {"submit", "getevents", "resubmit", "test", "exit"}
  /\ kernel \in [Ios -> Nat]
  /\ ring \in [Ios -> Nat]
  /\ events \in [Ios -> Nat]
  /\ done \in Int
  /\ errors \in 0 .. MaxErrors
  /\ open \in BOOLEAN

\* After io_setup() and init_ios().
Init ==
  /\ pc = "submit"
  /\ kernel = None /\ ring = None /\ events = None
  /\ done = 0
  /\ errors = 0
  /\ open = TRUE

----------------------------------------------------------------------------

Fails == errors < MaxErrors /\ errors' = errors + 1

\* The first io_submit() accepts the first n of the iocbs; neither a short
\* count nor an error (n = 0) is acted upon.
SubmitAll ==
  /\ pc = "submit"
  /\ \E n \in 0 .. Depth :
       /\ kernel' = [k \in Ios |-> IF k < n THEN 1 ELSE 0]
       /\ IF n < Depth THEN Fails ELSE UNCHANGED errors
  /\ pc' = "getevents"
  /\ UNCHANGED <<ring, events, done, open>>

\* An I/O ends, and its completion is put on the ring.
Complete(k) ==
  /\ open /\ kernel[k] > 0
  /\ kernel' = [kernel EXCEPT ![k] = @ - 1]
  /\ ring'   = [ring EXCEPT ![k] = @ + 1]
  /\ UNCHANGED <<pc, events, done, errors, open>>

\* io_getevents() waits for one completion and returns some of those there.
GetEvents ==
  /\ pc = "getevents" /\ open
  /\ \E K \in (SUBSET {k \in Ios : ring[k] > 0}) \ {{}} :
       /\ events' = [k \in Ios |-> IF k \in K THEN 1 ELSE 0]
       /\ ring'   = [k \in Ios |-> IF k \in K THEN ring[k] - 1 ELSE ring[k]]
       /\ done'   = done + Cardinality(K)
  /\ pc' = "resubmit"
  /\ UNCHANGED <<kernel, errors, open>>

\* io_getevents() fails, as it always does on a destroyed context: close,
\* destroy, and on with a negative n, which is added to done.
GetEventsFails ==
  /\ pc = "getevents"
  /\ Fails
  /\ open' = FALSE
  /\ kernel' = None /\ ring' = None
  /\ done' = done - 1
  /\ pc' = "resubmit"
  /\ UNCHANGED events

\* One round of the loop over events[]: io_submit() of the completed iocb,
\* whose result is ignored.
ResubmitNot(k) == UNCHANGED kernel                        \* forgets to submit
ResubmitNext(k) ==                                        \* of the wrong iocb
  kernel' = [kernel EXCEPT ![(k + 1) % Depth] = @ + 1]
SubmitBeyond(k) ==                                        \* of one past the end
  kernel' = [j \in Ios \cup {k + 1} |-> IF j = k + 1 THEN 1 ELSE kernel[j]]
SubmitAgain(k) == kernel' = [kernel EXCEPT ![k] = @ + 1]

Resubmit(k) ==
  /\ pc = "resubmit" /\ events[k] > 0
  /\ events' = [events EXCEPT ![k] = @ - 1]
  /\ \/ SubmitAgain(k) /\ UNCHANGED errors
     \/ Fails /\ UNCHANGED kernel
  /\ UNCHANGED <<pc, ring, done, open>>

EndRound ==
  /\ pc = "resubmit" /\ events = None
  /\ pc' = "test"
  /\ UNCHANGED <<kernel, ring, events, done, errors, open>>

ReachedBeyond == done > Count                             \* off by one
Reached == done >= Count

\* done >= prog_opt.count: close, destroy (which waits for what is in flight)
\* and return.
Enough ==
  /\ pc = "test" /\ Reached
  /\ pc' = "exit"
  /\ open' = FALSE
  /\ kernel' = None /\ ring' = None
  /\ UNCHANGED <<events, done, errors>>

Again ==
  /\ pc = "test" /\ ~Reached
  /\ pc' = "getevents"
  /\ UNCHANGED <<kernel, ring, events, done, errors, open>>

----------------------------------------------------------------------------

Program ==
  \/ SubmitAll
  \/ GetEvents
  \/ \E k \in Ios : Resubmit(k)
  \/ EndRound
  \/ Enough
  \/ Again

Next ==
  \/ Program
  \/ GetEventsFails
  \/ \E k \in Ios : Complete(k)

Spec == Init /\ [][Next]_vars

\* The program runs, and the device completes every I/O; io_getevents() need
\* not fail when there is nothing to fetch: it waits.
Fairness ==
  /\ WF_vars(Program)
  /\ \A k \in Ios : WF_vars(Complete(k))

FairSpec == Spec /\ Fairness

----------------------------------------------------------------------------

\* An iocb, and the buffer it points to, is never in use by two I/Os at a time:
\* only a completed one is submitted again, whichever submissions fail.
OneUse == \A k \in Ios : kernel[k] + ring[k] + events[k] <= 1

\* Until a call fails, the queue keeps its depth: every iocb is in flight,
\* completed or about to be submitted again.
DepthKept ==
  errors = 0 /\ pc \notin {"submit", "exit"} => \A k \in Ios : kernel[k] + ring[k] + events[k] = 1

\* The program counts at least what it was asked for, and overshoots by less
\* than one queue's depth.
CountReached == pc = "exit" => done >= Count /\ (Count > 0 => done < Count + Depth)

\* What makes CountReached inductive: each round starts below Count.
RoundStartsBelow ==
  /\ pc \in {"submit", "getevents"} => done <= 0 \/ done < Count
  /\ Count > 0 => done < Count + Depth

\* Unless a call fails, the program ends: the device always has an I/O to
\* complete until enough have been counted.
Terminates == <>(pc = "exit" \/ errors > 0)

============================================================================
