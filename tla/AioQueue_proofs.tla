-------------------------- MODULE AioQueue_proofs --------------------------
(***************************************************************************)
(* For every depth and count, and whichever calls fail: no iocb is ever in *)
(* use twice, the program overshoots by less than the depth, and the queue *)
(* keeps its depth until a call fails.                                     *)
(***************************************************************************)
EXTENDS TLAPS, AioQueue, FiniteSetTheorems

\* One io_getevents() returns between 1 and Depth events.
LEMMA RoundSize ==
  ASSUME NEW K \in SUBSET Ios, K # {}
  PROVE  Cardinality(K) \in 1 .. Depth
<1>1. /\ IsFiniteSet(0 .. Depth - 1)
      /\ Cardinality(0 .. Depth - 1) = Depth
  BY FS_Interval, AioAssumption
<1>2. IsFiniteSet(K) /\ Cardinality(K) <= Depth
  BY <1>1, FS_Subset DEF Ios
<1>3. Cardinality(K) \in Nat /\ Cardinality(K) # 0
  BY <1>2, FS_CardinalityType, FS_EmptySet
<1>4. QED
  BY <1>2, <1>3, AioAssumption

\* Before the first submission nothing is in flight.
SubmitsIdle == pc = "submit" => kernel = None /\ ring = None /\ events = None

IInv == TypeOK /\ OneUse /\ SubmitsIdle /\ RoundStartsBelow /\ CountReached

\* Nothing has been submitted when main() comes to its loop.
LEMMA InitIInv == Init => IInv
  BY AioAssumption
     DEF Init, IInv, TypeOK, OneUse, SubmitsIdle, RoundStartsBelow, CountReached, None, Ios

\* Where the iocbs are: each step moves one of them on, or drops it.
LEMMA PlacesStep ==
  ASSUME TypeOK, OneUse, SubmitsIdle, [Next]_vars
  PROVE  OneUse' /\ kernel' \in [Ios -> Nat] /\ ring' \in [Ios -> Nat]
                 /\ events' \in [Ios -> Nat]
<1> USE DEF TypeOK, OneUse, None, Fails
<1>1. CASE SubmitAll
  <2>1. PICK n : kernel' = [k \in Ios |-> IF k < n THEN 1 ELSE 0]
    BY <1>1 DEF SubmitAll
  <2>2. ring' = None /\ events' = None
    BY <1>1 DEF SubmitAll, SubmitsIdle
  <2>3. QED
    BY <2>1, <2>2
<1>2. CASE GetEvents
  BY <1>2 DEF GetEvents
<1>3. CASE GetEventsFails
  BY <1>3 DEF GetEventsFails
<1>4. ASSUME NEW k \in Ios, Resubmit(k)
      PROVE  OneUse' /\ kernel' \in [Ios -> Nat] /\ ring' \in [Ios -> Nat]
                     /\ events' \in [Ios -> Nat]
  BY <1>4 DEF Resubmit, SubmitAgain
<1>5. CASE EndRound
  BY <1>5 DEF EndRound
<1>6. CASE Enough
  BY <1>6 DEF Enough
<1>7. CASE Again
  BY <1>7 DEF Again
<1>8. ASSUME NEW k \in Ios, Complete(k)
      PROVE  OneUse' /\ kernel' \in [Ios -> Nat] /\ ring' \in [Ios -> Nat]
                     /\ events' \in [Ios -> Nat]
  BY <1>8 DEF Complete
<1>9. CASE UNCHANGED vars
  BY <1>9 DEF vars
<1>10. QED
  BY <1>1, <1>2, <1>3, <1>4, <1>5, <1>6, <1>7, <1>8, <1>9 DEF Next, Program

\* What main() counts.
LEMMA CountStep ==
  ASSUME TypeOK, RoundStartsBelow, CountReached, [Next]_vars
  PROVE  RoundStartsBelow' /\ CountReached'
<1> USE AioAssumption DEF TypeOK, RoundStartsBelow, CountReached
<1>1. CASE SubmitAll
  BY <1>1 DEF SubmitAll
<1>2. CASE GetEvents
  <2>1. PICK n \in 1 .. Depth : done' = done + n
    <3>1. PICK K \in (SUBSET {k \in Ios : ring[k] > 0}) \ {{}} :
            done' = done + Cardinality(K)
      BY <1>2 DEF GetEvents
    <3>2. Cardinality(K) \in 1 .. Depth
      BY <3>1, RoundSize
    <3>3. QED
      BY <3>1, <3>2
  <2>2. pc = "getevents" /\ pc' = "resubmit"
    BY <1>2 DEF GetEvents
  <2>3. QED
    BY <2>1, <2>2
<1>3. CASE GetEventsFails
  BY <1>3 DEF GetEventsFails
<1>4. ASSUME NEW k \in Ios, Resubmit(k) PROVE RoundStartsBelow' /\ CountReached'
  BY <1>4 DEF Resubmit
<1>5. CASE EndRound
  BY <1>5 DEF EndRound
<1>6. CASE Enough
  BY <1>6 DEF Enough, Reached
<1>7. CASE Again
  BY <1>7 DEF Again, Reached
<1>8. ASSUME NEW k \in Ios, Complete(k) PROVE RoundStartsBelow' /\ CountReached'
  BY <1>8 DEF Complete
<1>9. CASE UNCHANGED vars
  BY <1>9 DEF vars
<1>10. QED
  BY <1>1, <1>2, <1>3, <1>4, <1>5, <1>6, <1>7, <1>8, <1>9 DEF Next, Program

\* The remaining variables keep their types.
LEMMA ControlStep ==
  ASSUME TypeOK, [Next]_vars
  PROVE  /\ pc' \in {"submit", "getevents", "resubmit", "test", "exit"}
         /\ done' \in Int
         /\ errors' \in 0 .. MaxErrors
         /\ open' \in BOOLEAN
<1>1. ASSUME GetEvents PROVE done' \in Int
  <2>1. PICK K \in (SUBSET {k \in Ios : ring[k] > 0}) \ {{}} :
          done' = done + Cardinality(K)
    BY <1>1 DEF GetEvents
  <2>2. Cardinality(K) \in 1 .. Depth
    BY <2>1, RoundSize
  <2>3. QED
    BY <2>1, <2>2 DEF TypeOK
<1>2. CASE EndRound \/ Enough \/ Again \/ UNCHANGED vars
  BY <1>2 DEF TypeOK, EndRound, Enough, Again, vars
<1>3. CASE GetEvents
  BY <1>1, <1>3 DEF TypeOK, GetEvents
<1>4. ASSUME Fails PROVE errors' \in 0 .. MaxErrors
  BY <1>4, AioAssumption DEF TypeOK, Fails
<1>5. CASE SubmitAll
  BY <1>4, <1>5 DEF TypeOK, SubmitAll
<1>6. CASE GetEventsFails
  <2>1. errors' \in 0 .. MaxErrors
    BY <1>4, <1>6 DEF GetEventsFails
  <2>2. done' \in Int
    BY <1>6 DEF TypeOK, GetEventsFails
  <2>3. QED
    BY <1>6, <2>1, <2>2 DEF GetEventsFails
<1>7. ASSUME NEW k \in Ios, Resubmit(k) PROVE errors' \in 0 .. MaxErrors
  BY <1>4, <1>7 DEF TypeOK, Resubmit
<1>8. CASE \E k \in Ios : Resubmit(k) \/ Complete(k)
  BY <1>7, <1>8 DEF TypeOK, Resubmit, Complete
<1>9. QED
  BY <1>2, <1>3, <1>5, <1>6, <1>8 DEF Next, Program

\* IInv is inductive.
LEMMA IInvStep == IInv /\ [Next]_vars => IInv'
<1> SUFFICES ASSUME IInv, [Next]_vars PROVE IInv'
  OBVIOUS
<1>1. SubmitsIdle'
  BY DEF IInv, SubmitsIdle, Next, Program, SubmitAll, GetEvents, GetEventsFails, Resubmit,
         EndRound, Enough, Again, Complete, None, vars
<1>2. QED
  BY <1>1, PlacesStep, CountStep, ControlStep DEF IInv, TypeOK

\* IInv holds throughout.
LEMMA InductiveInvariant == Spec => []IInv
  BY InitIInv, IInvStep, PTL DEF Spec

\* The program is type correct; in particular it touches ios[0] to
\* ios[depth - 1] only.
THEOREM TypeCorrect == Spec => []TypeOK
<1>1. IInv => TypeOK
  BY DEF IInv
<1>2. QED
  BY <1>1, InductiveInvariant, PTL

\* No iocb is submitted while it is in flight.
THEOREM NeverUsedTwice == Spec => []OneUse
<1>1. IInv => OneUse
  BY DEF IInv
<1>2. QED
  BY <1>1, InductiveInvariant, PTL

\* main() returns after at least Count completions and fewer than Count + Depth.
THEOREM CountIsReached == Spec => []CountReached
<1>1. IInv => CountReached
  BY DEF IInv
<1>2. QED
  BY <1>1, InductiveInvariant, PTL

----------------------------------------------------------------------------
(* The depth of the queue *)

\* Until a call fails the context is open, and events[] is used up between two
\* rounds.
Full ==
  /\ DepthKept
  /\ errors = 0 /\ pc # "exit" => open
  /\ errors = 0 /\ pc # "resubmit" => events = None

\* Until a call fails, every iocb is somewhere in the cycle.
THEOREM DepthIsKept == Spec => []DepthKept
<1>1. Init => Full
  BY DEF Init, Full, DepthKept, None
<1>2. IInv /\ Full /\ [Next]_vars => Full'
  <2> SUFFICES ASSUME IInv, Full, [Next]_vars PROVE Full'
    OBVIOUS
  <2> USE DEF IInv, TypeOK, OneUse, Full, DepthKept, None
  <2>a. Fails => errors' # 0
    BY DEF Fails
  <2>1. CASE SubmitAll
    <3>1. errors' = 0 => kernel' = [k \in Ios |-> 1]
      BY <2>a, <2>1, AioAssumption DEF SubmitAll, Ios
    <3>2. errors' = 0 => errors = 0
      BY <2>a, <2>1 DEF SubmitAll
    <3>3. QED
      BY <2>1, <3>1, <3>2 DEF SubmitAll, SubmitsIdle
  <2>2. CASE GetEvents
    BY <2>2 DEF GetEvents
  <2>3. CASE GetEventsFails
    BY <2>a, <2>3 DEF GetEventsFails
  <2>4. ASSUME NEW k \in Ios, Resubmit(k) PROVE Full'
    BY <2>a, <2>4 DEF Resubmit, SubmitAgain
  <2>5. CASE EndRound
    BY <2>5 DEF EndRound
  <2>6. CASE Enough
    BY <2>6 DEF Enough
  <2>7. CASE Again
    BY <2>7 DEF Again
  <2>8. ASSUME NEW k \in Ios, Complete(k) PROVE Full'
    BY <2>8 DEF Complete
  <2>9. CASE UNCHANGED vars
    BY <2>9 DEF vars
  <2>10. QED
    BY <2>1, <2>2, <2>3, <2>4, <2>5, <2>6, <2>7, <2>8, <2>9 DEF Next, Program
<1>3. Full => DepthKept
  BY DEF Full
<1>4. QED
  BY <1>1, <1>2, <1>3, InductiveInvariant, PTL DEF Spec

============================================================================
