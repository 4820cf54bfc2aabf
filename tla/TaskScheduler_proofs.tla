------------------------ MODULE TaskScheduler_proofs ------------------------
(***************************************************************************)
(* Proofs about TaskScheduler for any set of threads and events and any    *)
(* capacity.  The ring buffer is correct with one consumer outside the     *)
(* lock because the slots from getPos on, as many as are counted or about  *)
(* to be counted, less the one being popped, are exactly the filled ones.  *)
(***************************************************************************)
EXTENDS TaskScheduler, TLAPS, SequenceTheorems

(* The filled slots. *)
Pending == IF \E t \in Thread : pc[t] = "publish" THEN 1 ELSE 0
Popped  == IF spc = "count" THEN 1 ELSE 0
Filled  == numDatas + Pending - Popped

Offset(p) == IF p >= getPos THEN p - getPos ELSE p - getPos + Capacity

RingInv ==
  /\ Filled \in 0..Capacity
  /\ putPos = getPos + Filled \/ putPos = getPos + Filled - Capacity
  /\ \A p \in Positions : slot[p] # NoEvent <=> Offset(p) < Filled

(* Who holds the lock, and what the lock holder's test is still worth. *)
LockInv ==
  \A t \in Thread :
    /\ pc[t] \in {"push", "store", "publish", "wake"} <=> mutex = t
    /\ pc[t] \in {"lock", "push", "store", "publish"} <=> ev[t] # NoEvent
    /\ pc[t] \in {"store", "publish"} => numDatas < Capacity

LoopInv ==
  /\ spc \in {"take", "count"} => numDatas > 0
  /\ spc \in {"count", "run"} <=> cur # NoEvent

(* While no two calls have been past their size tests together, the one     *)
(* that is finds room.                                                      *)
CrowdInv ==
  ~crowded => /\ lost = {}
              /\ \A t \in Thread : InCall(t) => numDatas < Capacity
              /\ \A t, u \in Thread : InCall(t) /\ InCall(u) => t = u

IInv == TypeOK /\ RingInv /\ LockInv /\ LoopInv /\ NoLostWakeup /\ CrowdInv
-----------------------------------------------------------------------------
LEMMA AddInPositions == ASSUME NEW p \in Positions PROVE Add(p) \in Positions
  BY SchedulerAssumption DEF Positions, Add

LEMMA InvInit == Init => IInv
<1> SUFFICES ASSUME Init PROVE IInv
  OBVIOUS
<1>1. TypeOK
  <2>1. ran \in Seq(Event)
    BY DEF Init
  <2>2. 0 \in Positions /\ 0 \in 0..Capacity
    BY SchedulerAssumption DEF Positions
  <2>3. QED
    BY <2>1, <2>2 DEF Init, TypeOK
<1>2. RingInv
  BY SchedulerAssumption DEF Init, RingInv, Filled, Pending, Popped, Offset, Positions
<1>3. LockInv /\ LoopInv /\ NoLostWakeup /\ CrowdInv
  BY SchedulerAssumption DEF Init, LockInv, LoopInv, NoLostWakeup, CrowdInv, InCall
<1>4. QED
  BY <1>1, <1>2, <1>3 DEF IInv

(* Every step keeps the variables in their types; the size tests keep       *)
(* _numDatas within the capacity.                                           *)
LEMMA TypeStep == ASSUME IInv, [Next]_vars PROVE TypeOK'
<1> USE SchedulerAssumption, AddInPositions DEF IInv, TypeOK, LockInv, LoopInv
<1>1. ASSUME NEW t \in Thread, NEW e \in Event, CheckSize(t, e) PROVE TypeOK'
  BY <1>1 DEF CheckSize, ring, caller, loop, stop
<1>2. ASSUME NEW t \in Thread, Lock(t) PROVE TypeOK'
  BY <1>2 DEF Lock, ring, caller, loop, stop
<1>3. ASSUME NEW t \in Thread, PushTest(t) PROVE TypeOK'
  BY <1>3 DEF PushTest, ring, caller, loop, stop
<1>4. ASSUME NEW t \in Thread, Store(t) PROVE TypeOK'
  BY <1>4 DEF Store, ring, caller, loop, stop
<1>5. ASSUME NEW t \in Thread, Publish(t) PROVE TypeOK'
  BY <1>5 DEF Publish, ring, caller, loop, stop
<1>6. ASSUME NEW t \in Thread, WritePipe(t) PROVE TypeOK'
  BY <1>6 DEF WritePipe, ring, caller, loop, stop
<1>7. CASE BeginLoop
  BY <1>7 DEF BeginLoop, ring, caller, loop, stop
<1>8. CASE TestShutdown
  BY <1>8 DEF TestShutdown, ring, caller, loop, stop
<1>9. CASE PopTest
  BY <1>9 DEF PopTest, ring, caller, loop, stop
<1>10. CASE Take
  BY <1>10 DEF Take, ring, caller, loop, stop
<1>11. CASE Uncount
  BY <1>11 DEF Uncount, ring, caller, loop, stop
<1>12. CASE RunCallback
  BY <1>12 DEF RunCallback, ring, caller, loop, stop
<1>13. CASE PopAgain
  BY <1>13 DEF PopAgain, ring, caller, loop, stop
<1>14. CASE Wake
  BY <1>14 DEF Wake, ring, caller, loop, stop
<1>15. CASE Timeout
  BY <1>15 DEF Timeout, ring, caller, loop, stop
<1>16. CASE StopFlag
  BY <1>16 DEF StopFlag, ring, caller, loop, stop
<1>17. CASE StopWake
  BY <1>17 DEF StopWake, ring, caller, loop, stop
<1>18. CASE UNCHANGED vars
  BY <1>18 DEF vars, ring, caller, loop, stop
<1>19. QED
  BY <1>1, <1>2, <1>3, <1>4, <1>5, <1>6, <1>7, <1>8, <1>9, <1>10, <1>11, <1>12,
     <1>13, <1>14, <1>15, <1>16, <1>17, <1>18 DEF Next, CallStep, LoopStep

(* The slot the consumer is about to move out has been filled. *)
LEMMA TakeFindsEvent == ASSUME IInv, spc = "take" PROVE slot[getPos] # NoEvent
<1>1. Filled > 0 /\ Offset(getPos) = 0
  BY SchedulerAssumption DEF IInv, TypeOK, LoopInv, Filled, Pending, Popped, Offset, Positions
<1>2. QED
  BY <1>1 DEF IInv, TypeOK, RingInv

(* The slot the lock holder is about to fill is empty. *)
LEMMA StoreFindsRoom ==
  ASSUME IInv, NEW t \in Thread, pc[t] = "store" PROVE slot[putPos] = NoEvent
<1>1. Pending = 0
  BY DEF IInv, LockInv, Pending
<1>2. Filled < Capacity
  BY <1>1, SchedulerAssumption DEF IInv, TypeOK, LockInv, LoopInv, Filled, Popped
<1>3. Offset(putPos) = Filled
  BY <1>2, SchedulerAssumption DEF IInv, TypeOK, RingInv, Offset, Positions
<1>4. QED
  BY <1>2, <1>3 DEF IInv, TypeOK, RingInv

(* The lock, and the events the callers carry. *)
LEMMA LockStep == ASSUME IInv, [Next]_vars PROVE LockInv'
<1> USE SchedulerAssumption DEF IInv, TypeOK, LockInv, LoopInv
<1>1. ASSUME NEW t \in Thread, NEW e \in Event, CheckSize(t, e) PROVE LockInv'
  BY <1>1 DEF CheckSize, ring, caller, loop, stop
<1>2. ASSUME NEW t \in Thread, Lock(t) PROVE LockInv'
  BY <1>2 DEF Lock, ring, caller, loop, stop
<1>3. ASSUME NEW t \in Thread, PushTest(t) PROVE LockInv'
  BY <1>3 DEF PushTest, ring, caller, loop, stop
<1>4. ASSUME NEW t \in Thread, Store(t) PROVE LockInv'
  BY <1>4 DEF Store, ring, caller, loop, stop
<1>5. ASSUME NEW t \in Thread, Publish(t) PROVE LockInv'
  BY <1>5 DEF Publish, ring, caller, loop, stop
<1>6. ASSUME NEW t \in Thread, WritePipe(t) PROVE LockInv'
  BY <1>6 DEF WritePipe, ring, caller, loop, stop
<1>7. CASE BeginLoop
  BY <1>7 DEF BeginLoop, ring, caller, loop, stop
<1>8. CASE TestShutdown
  BY <1>8 DEF TestShutdown, ring, caller, loop, stop
<1>9. CASE PopTest
  BY <1>9 DEF PopTest, ring, caller, loop, stop
<1>10. CASE Take
  BY <1>10 DEF Take, ring, caller, loop, stop
<1>11. CASE Uncount
  BY <1>11 DEF Uncount, ring, caller, loop, stop
<1>12. CASE RunCallback
  BY <1>12 DEF RunCallback, ring, caller, loop, stop
<1>13. CASE PopAgain
  BY <1>13 DEF PopAgain, ring, caller, loop, stop
<1>14. CASE Wake
  BY <1>14 DEF Wake, ring, caller, loop, stop
<1>15. CASE Timeout
  BY <1>15 DEF Timeout, ring, caller, loop, stop
<1>16. CASE StopFlag
  BY <1>16 DEF StopFlag, ring, caller, loop, stop
<1>17. CASE StopWake
  BY <1>17 DEF StopWake, ring, caller, loop, stop
<1>18. CASE UNCHANGED vars
  BY <1>18 DEF vars, ring, caller, loop, stop
<1>19. QED
  BY <1>1, <1>2, <1>3, <1>4, <1>5, <1>6, <1>7, <1>8, <1>9, <1>10, <1>11, <1>12,
     <1>13, <1>14, <1>15, <1>16, <1>17, <1>18 DEF Next, CallStep, LoopStep

(* The scheduler's loop: what its size tests tell it, and its wakeups. *)
LEMMA LoopInvStep == ASSUME IInv, [Next]_vars PROVE LoopInv' /\ NoLostWakeup'
<1> USE SchedulerAssumption DEF IInv, TypeOK, LockInv, LoopInv, NoLostWakeup
<1>1. ASSUME NEW t \in Thread, NEW e \in Event, CheckSize(t, e) PROVE LoopInv' /\ NoLostWakeup'
  BY <1>1 DEF CheckSize, ring, caller, loop, stop
<1>2. ASSUME NEW t \in Thread, Lock(t) PROVE LoopInv' /\ NoLostWakeup'
  BY <1>2 DEF Lock, ring, caller, loop, stop
<1>3. ASSUME NEW t \in Thread, PushTest(t) PROVE LoopInv' /\ NoLostWakeup'
  BY <1>3 DEF PushTest, ring, caller, loop, stop
<1>4. ASSUME NEW t \in Thread, Store(t) PROVE LoopInv' /\ NoLostWakeup'
  BY <1>4 DEF Store, ring, caller, loop, stop
<1>5. ASSUME NEW t \in Thread, Publish(t) PROVE LoopInv' /\ NoLostWakeup'
  BY <1>5 DEF Publish, ring, caller, loop, stop
<1>6. ASSUME NEW t \in Thread, WritePipe(t) PROVE LoopInv' /\ NoLostWakeup'
  BY <1>6 DEF WritePipe, ring, caller, loop, stop
<1>7. CASE BeginLoop
  BY <1>7 DEF BeginLoop, ring, caller, loop, stop
<1>8. CASE TestShutdown
  BY <1>8 DEF TestShutdown, ring, caller, loop, stop
<1>9. CASE PopTest
  BY <1>9 DEF PopTest, ring, caller, loop, stop
<1>10. CASE Take
  BY <1>10, TakeFindsEvent DEF Take, caller
<1>11. CASE Uncount
  BY <1>11 DEF Uncount, ring, caller, loop, stop
<1>12. CASE RunCallback
  BY <1>12 DEF RunCallback, ring, caller, loop, stop
<1>13. CASE PopAgain
  BY <1>13 DEF PopAgain, ring, caller, loop, stop
<1>14. CASE Wake
  BY <1>14 DEF Wake, ring, caller, loop, stop
<1>15. CASE Timeout
  BY <1>15 DEF Timeout, ring, caller, loop, stop
<1>16. CASE StopFlag
  BY <1>16 DEF StopFlag, ring, caller, loop, stop
<1>17. CASE StopWake
  BY <1>17 DEF StopWake, ring, caller, loop, stop
<1>18. CASE UNCHANGED vars
  BY <1>18 DEF vars, ring, caller, loop, stop
<1>19. QED
  BY <1>1, <1>2, <1>3, <1>4, <1>5, <1>6, <1>7, <1>8, <1>9, <1>10, <1>11, <1>12,
     <1>13, <1>14, <1>15, <1>16, <1>17, <1>18 DEF Next, CallStep, LoopStep

(* A caller whose size test raced with no other finds its room. *)
LEMMA CrowdStep == ASSUME IInv, [Next]_vars PROVE CrowdInv'
<1> USE SchedulerAssumption DEF IInv, TypeOK, LockInv, LoopInv, CrowdInv, InCall
<1>1. ASSUME NEW t \in Thread, NEW e \in Event, CheckSize(t, e) PROVE CrowdInv'
  BY <1>1 DEF CheckSize, ring, caller, loop, stop
<1>2. ASSUME NEW t \in Thread, Lock(t) PROVE CrowdInv'
  BY <1>2 DEF Lock, ring, caller, loop, stop
<1>3. ASSUME NEW t \in Thread, PushTest(t) PROVE CrowdInv'
  BY <1>3 DEF PushTest, ring, caller, loop, stop
<1>4. ASSUME NEW t \in Thread, Store(t) PROVE CrowdInv'
  BY <1>4 DEF Store, ring, caller, loop, stop
<1>5. ASSUME NEW t \in Thread, Publish(t) PROVE CrowdInv'
  BY <1>5 DEF Publish, ring, caller, loop, stop
<1>6. ASSUME NEW t \in Thread, WritePipe(t) PROVE CrowdInv'
  BY <1>6 DEF WritePipe, ring, caller, loop, stop
<1>7. CASE BeginLoop
  BY <1>7 DEF BeginLoop, ring, caller, loop, stop
<1>8. CASE TestShutdown
  BY <1>8 DEF TestShutdown, ring, caller, loop, stop
<1>9. CASE PopTest
  BY <1>9 DEF PopTest, ring, caller, loop, stop
<1>10. CASE Take
  BY <1>10 DEF Take, ring, caller, loop, stop
<1>11. CASE Uncount
  BY <1>11 DEF Uncount, ring, caller, loop, stop
<1>12. CASE RunCallback
  BY <1>12 DEF RunCallback, ring, caller, loop, stop
<1>13. CASE PopAgain
  BY <1>13 DEF PopAgain, ring, caller, loop, stop
<1>14. CASE Wake
  BY <1>14 DEF Wake, ring, caller, loop, stop
<1>15. CASE Timeout
  BY <1>15 DEF Timeout, ring, caller, loop, stop
<1>16. CASE StopFlag
  BY <1>16 DEF StopFlag, ring, caller, loop, stop
<1>17. CASE StopWake
  BY <1>17 DEF StopWake, ring, caller, loop, stop
<1>18. CASE UNCHANGED vars
  BY <1>18 DEF vars, ring, caller, loop, stop
<1>19. QED
  BY <1>1, <1>2, <1>3, <1>4, <1>5, <1>6, <1>7, <1>8, <1>9, <1>10, <1>11, <1>12,
     <1>13, <1>14, <1>15, <1>16, <1>17, <1>18 DEF Next, CallStep, LoopStep

(* Each slot access moves one end of the filled slots. *)
LEMMA RingStep == ASSUME IInv, [Next]_vars PROVE RingInv'
<1> USE SchedulerAssumption DEF IInv, TypeOK, LockInv, LoopInv, RingInv, Positions
<1>1. ASSUME NEW t \in Thread, NEW e \in Event, CheckSize(t, e) PROVE RingInv'
  BY <1>1 DEF CheckSize, ring, caller, loop, stop, Filled, Pending, Popped, Offset, Add
<1>2. ASSUME NEW t \in Thread, Lock(t) PROVE RingInv'
  BY <1>2 DEF Lock, ring, caller, loop, stop, Filled, Pending, Popped, Offset, Add
<1>3. ASSUME NEW t \in Thread, PushTest(t) PROVE RingInv'
  BY <1>3 DEF PushTest, ring, caller, loop, stop, Filled, Pending, Popped, Offset, Add
<1>4. ASSUME NEW t \in Thread, Store(t) PROVE RingInv'
  BY <1>4 DEF Store, ring, caller, loop, stop, Filled, Pending, Popped, Offset, Add
<1>5. ASSUME NEW t \in Thread, Publish(t) PROVE RingInv'
  BY <1>5 DEF Publish, ring, caller, loop, stop, Filled, Pending, Popped, Offset, Add
<1>6. ASSUME NEW t \in Thread, WritePipe(t) PROVE RingInv'
  BY <1>6 DEF WritePipe, ring, caller, loop, stop, Filled, Pending, Popped, Offset, Add
<1>7. CASE BeginLoop
  BY <1>7 DEF BeginLoop, ring, caller, loop, stop, Filled, Pending, Popped, Offset, Add
<1>8. CASE TestShutdown
  BY <1>8 DEF TestShutdown, ring, caller, loop, stop, Filled, Pending, Popped, Offset, Add
<1>9. CASE PopTest
  BY <1>9 DEF PopTest, ring, caller, loop, stop, Filled, Pending, Popped, Offset, Add
<1>10. CASE Take
  BY <1>10 DEF Take, ring, caller, loop, stop, Filled, Pending, Popped, Offset, Add
<1>11. CASE Uncount
  BY <1>11 DEF Uncount, ring, caller, loop, stop, Filled, Pending, Popped, Offset, Add
<1>12. CASE RunCallback
  BY <1>12 DEF RunCallback, ring, caller, loop, stop, Filled, Pending, Popped, Offset, Add
<1>13. CASE PopAgain
  BY <1>13 DEF PopAgain, ring, caller, loop, stop, Filled, Pending, Popped, Offset, Add
<1>14. CASE Wake
  BY <1>14 DEF Wake, ring, caller, loop, stop, Filled, Pending, Popped, Offset, Add
<1>15. CASE Timeout
  BY <1>15 DEF Timeout, ring, caller, loop, stop, Filled, Pending, Popped, Offset, Add
<1>16. CASE StopFlag
  BY <1>16 DEF StopFlag, ring, caller, loop, stop, Filled, Pending, Popped, Offset, Add
<1>17. CASE StopWake
  BY <1>17 DEF StopWake, ring, caller, loop, stop, Filled, Pending, Popped, Offset, Add
<1>18. CASE UNCHANGED vars
  BY <1>18 DEF vars, ring, caller, loop, stop, Filled, Pending, Popped, Offset, Add
<1>19. QED
  BY <1>1, <1>2, <1>3, <1>4, <1>5, <1>6, <1>7, <1>8, <1>9, <1>10, <1>11, <1>12,
     <1>13, <1>14, <1>15, <1>16, <1>17, <1>18 DEF Next, CallStep, LoopStep

-----------------------------------------------------------------------------
LEMMA InvStep == IInv /\ [Next]_vars => IInv'
  BY TypeStep, LockStep, LoopInvStep, CrowdStep, RingStep DEF IInv

THEOREM Invariance == Spec => []IInv
  BY InvInit, InvStep, PTL DEF Spec

(* The scheduler's and the ring buffer's variables keep their types, and     *)
(* _numDatas never passes the capacity (RingBuffer.h:67-72).                 *)
THEOREM TypeCorrect == Spec => []TypeOK
<1>1. IInv => TypeOK
  BY DEF IInv
<1>2. QED
  BY <1>1, Invariance, PTL

(* pop, outside the lock, moves out filled slots only: the scheduler never   *)
(* calls an empty std::function (RingBuffer.h:30-41).                        *)
THEOREM PopIsSafe == Spec => []NeverRunsEmpty
<1>1. IInv => NeverRunsEmpty
  BY TakeFindsEvent DEF IInv, LoopInv, NeverRunsEmpty
<1>2. QED
  BY <1>1, Invariance, PTL

(* pushData never overwrites a callback still to be run (RingBuffer.h:48-60). *)
THEOREM PushIsSafe == Spec => []NeverOverwrites
<1>1. IInv => NeverOverwrites
  BY StoreFindsRoom DEF NeverOverwrites
<1>2. QED
  BY <1>1, Invariance, PTL

(* The loop never sleeps on a non-empty queue without its wakeup on the way  *)
(* (TaskScheduler.cpp:72-100).                                               *)
THEOREM WakeupsReachTheLoop == Spec => []NoLostWakeup
<1>1. IInv => NoLostWakeup
  BY DEF IInv
<1>2. QED
  BY <1>1, Invariance, PTL

(* AddTriggerEvent drops a callback it reports as accepted only after size   *)
(* tests raced (TaskScheduler.cpp:74-79).                                    *)
THEOREM LossNeedsRace == Spec => []LostOnlyWhenCrowded
<1>1. IInv => LostOnlyWhenCrowded
  BY DEF IInv, CrowdInv, LostOnlyWhenCrowded
<1>2. QED
  BY <1>1, Invariance, PTL

-----------------------------------------------------------------------------
(* The refinement of EventQueue. *)
\* The event of a call is nowhere else yet, but for the slot the lock holder has filled
\* and not published, which is the last before putPos.
EventInv ==
  \A t \in Thread : ev[t] # NoEvent =>
    /\ ev[t] \notin lost /\ ev[t] # cur /\ \A i \in DOMAIN ran : ran[i] # ev[t]
    /\ \A u \in Thread : ev[u] = ev[t] => u = t
    /\ \A p \in Positions : slot[p] = ev[t] => pc[t] = "publish" /\ Add(p) = putPos
    /\ pc[t] = "publish" => \A p \in Positions : Add(p) = putPos => slot[p] = ev[t]

LEMMA AddInjective ==
  ASSUME NEW p \in Positions, NEW q \in Positions, Add(p) = Add(q) PROVE p = q
  BY SchedulerAssumption DEF Positions, Add

(* The slot taken holds no event that is still being published. *)
LEMMA TakenIsPublished ==
  ASSUME IInv, EventInv, spc = "take", NEW t \in Thread, ev[t] # NoEvent
  PROVE  slot[getPos] # ev[t]
<1> SUFFICES ASSUME slot[getPos] = ev[t] PROVE FALSE
  OBVIOUS
<1>1. pc[t] = "publish" /\ Add(getPos) = putPos
  BY DEF EventInv, IInv, TypeOK
<1>2. Pending = 1 /\ numDatas > 0 /\ Popped = 0
  BY <1>1 DEF Pending, Popped, IInv, LoopInv
<1>3. numDatas \in Nat /\ getPos \in Positions /\ Filled \in 2..Capacity
  BY <1>2, SchedulerAssumption DEF IInv, TypeOK, RingInv, Filled
<1>4. putPos = getPos + Filled \/ putPos = getPos + Filled - Capacity
  BY DEF IInv, RingInv
<1>5. QED
  BY <1>1, <1>3, <1>4, SchedulerAssumption DEF Add, Positions

(* What has been started is what has run, and the event being run. *)
LEMMA StartedIs ==
  ASSUME ran \in Seq(Event), cur \in Event \cup {NoEvent}
  PROVE  \A i \in DOMAIN Started : Started[i] = cur \/ \E j \in DOMAIN ran : Started[i] = ran[j]
<1>1. CASE cur = NoEvent
  BY <1>1 DEF Started
<1>2. CASE cur # NoEvent
  <2>1. /\ DOMAIN ran = 1..Len(ran) /\ Len(ran) \in Nat
        /\ DOMAIN Append(ran, cur) = 1..(Len(ran) + 1)
        /\ \A i \in 1..Len(ran) : Append(ran, cur)[i] = ran[i]
        /\ Append(ran, cur)[Len(ran) + 1] = cur
    BY <1>2
  <2>2. \A i \in 1..(Len(ran) + 1) : i \in 1..Len(ran) \/ i = Len(ran) + 1
    BY <2>1
  <2>3. QED
    BY <1>2, <2>1, <2>2 DEF Started
<1>3. QED
  BY <1>1, <1>2

(* The calls keep their events to themselves. *)
LEMMA EventStep == ASSUME IInv, EventInv, [Next]_vars PROVE EventInv'
<1>0. /\ slot \in [Positions -> Event \cup {NoEvent}] /\ putPos \in Positions /\ getPos \in Positions
      /\ pc \in [Thread -> {"idle", "lock", "push", "store", "publish", "wake"}]
      /\ ev \in [Thread -> Event \cup {NoEvent}] /\ ran \in Seq(Event) /\ cur \in Event \cup {NoEvent}
      /\ NoEvent \notin Event
      /\ \A t \in Thread : /\ pc[t] \in {"push", "store", "publish", "wake"} <=> mutex = t
                          /\ pc[t] \in {"lock", "push", "store", "publish"} <=> ev[t] # NoEvent
  BY SchedulerAssumption DEF IInv, TypeOK, LockInv
<1>1. ASSUME NEW t \in Thread, NEW e \in Event, CheckSize(t, e) PROVE EventInv'
  <2>1. /\ New(e) /\ pc' = [pc EXCEPT ![t] = "lock"] /\ ev' = [ev EXCEPT ![t] = e]
        /\ UNCHANGED <<slot, putPos, lost, cur, ran>>
    BY <1>1 DEF CheckSize, ring, loop
  <2>2. QED
    BY <1>0, <2>1 DEF EventInv, New, Add
<1>2. ASSUME NEW t \in Thread, Lock(t) PROVE EventInv'
  BY <1>0, <1>2 DEF Lock, ring, loop, EventInv, Add
<1>3. ASSUME NEW t \in Thread, PushTest(t) PROVE EventInv'
  BY <1>0, <1>3 DEF PushTest, ring, loop, EventInv, Add
<1>4. ASSUME NEW t \in Thread, Store(t) PROVE EventInv'
  <2>1. /\ pc[t] = "store" /\ pc' = [pc EXCEPT ![t] = "publish"]
        /\ slot' = [slot EXCEPT ![putPos] = ev[t]] /\ putPos' = Add(putPos)
        /\ UNCHANGED <<ev, lost, cur, ran>>
    BY <1>4 DEF Store, loop
  <2>2. ASSUME NEW u \in Thread, ev[u] # NoEvent, NEW p \in Positions
        PROVE  /\ slot'[p] = ev[u] => pc'[u] = "publish" /\ Add(p) = putPos'
               /\ pc'[u] = "publish" /\ Add(p) = putPos' => slot'[p] = ev[u]
    <3>1. CASE u = t
      <4>1. slot[p] # ev[t]
        BY <1>0, <2>1, <2>2, <3>1 DEF EventInv
      <4>2. QED
        BY <1>0, <2>1, <3>1, <4>1, AddInjective
    <3>2. CASE u # t
      <4>1. pc[u] # "publish"
        <5>1. pc[t] = "store"
          BY <2>1
        <5>2. QED
          BY <3>2, <5>1 DEF IInv, LockInv
      <4>2. ev[u] # ev[t]
        BY <2>2, <3>2 DEF EventInv
      <4>3. slot[p] # ev[u]
        BY <2>2, <4>1 DEF EventInv
      <4>4. QED
        BY <1>0, <2>1, <3>2, <4>1, <4>2, <4>3
    <3>3. QED
      BY <3>1, <3>2
  <2>3. QED
    BY <2>1, <2>2 DEF EventInv, Add
<1>5. ASSUME NEW t \in Thread, Publish(t) PROVE EventInv'
  BY <1>0, <1>5 DEF Publish, ring, loop, EventInv, Add
<1>6. ASSUME NEW t \in Thread, WritePipe(t) PROVE EventInv'
  BY <1>0, <1>6 DEF WritePipe, ring, loop, EventInv, Add
<1>7. CASE Take
  <2>1. /\ spc = "take" /\ cur' = slot[getPos] /\ slot' = [slot EXCEPT ![getPos] = NoEvent]
        /\ UNCHANGED <<putPos, pc, ev, lost, ran>>
    BY <1>7 DEF Take, caller
  <2>2. \A t \in Thread : ev[t] # NoEvent => slot[getPos] # ev[t]
    BY <2>1, TakenIsPublished
  <2>3. QED
    BY <1>0, <2>1, <2>2 DEF EventInv, Add
<1>8. CASE RunCallback
  <2>1. ran' = Append(ran, cur) /\ cur' = NoEvent /\ UNCHANGED <<slot, putPos, pc, ev, lost>>
    BY <1>8 DEF RunCallback, ring, caller
  <2>2. spc = "run" => cur \in Event
    BY <1>0 DEF IInv, LoopInv
  <2>3. ran' = Started
    BY <1>0, <1>8, <2>1, <2>2 DEF RunCallback, Started
  <2>4. \A i \in DOMAIN ran' : ran'[i] = cur \/ \E j \in DOMAIN ran : ran'[i] = ran[j]
    BY <1>0, <2>3, StartedIs
  <2>5. QED
    BY <1>0, <2>1, <2>4 DEF EventInv, Add
<1>9. CASE BeginLoop \/ TestShutdown \/ PopTest \/ Uncount \/ PopAgain \/ Wake \/ Timeout
           \/ StopFlag \/ StopWake \/ UNCHANGED vars
  <2>1. UNCHANGED <<slot, putPos, pc, ev, lost, cur, ran>>
    BY <1>9 DEF BeginLoop, TestShutdown, PopTest, Uncount, PopAgain, Wake, Timeout, StopFlag, StopWake,
       vars, ring, caller, loop
  <2>2. QED
    BY <2>1 DEF EventInv, Add
<1>10. QED
  BY <1>1, <1>2, <1>3, <1>4, <1>5, <1>6, <1>7, <1>8, <1>9 DEF Next, CallStep, LoopStep

(* The queue the callers see. *)
QueueFacts ==
  /\ Waiting \in 0..Capacity /\ Queued \in Seq(Event) /\ Len(Queued) = Waiting
  /\ \A i \in 1..Waiting : /\ Slot(i) \in Positions /\ Queued[i] = slot[Slot(i)]
                           /\ slot[Slot(i)] # NoEvent
  /\ Started \in Seq(Event)

LEMMA QueueIsSeq == IInv => QueueFacts
<1> SUFFICES ASSUME IInv PROVE QueueFacts
  OBVIOUS
<1>1. /\ slot \in [Positions -> Event \cup {NoEvent}] /\ getPos \in Positions
      /\ ran \in Seq(Event) /\ cur \in Event \cup {NoEvent} /\ numDatas \in 0..Capacity
      /\ spc = "count" => numDatas > 0
      /\ Capacity \in Nat \ {0}
  BY SchedulerAssumption DEF IInv, TypeOK, LoopInv
<1>2. Waiting \in 0..Capacity /\ (Filled = Waiting \/ Filled = Waiting + 1) /\ Filled <= Capacity
  BY <1>1 DEF Waiting, Filled, Pending, Popped, IInv, RingInv
<1>3. ASSUME NEW i \in 1..Waiting PROVE Slot(i) \in Positions /\ Offset(Slot(i)) = i - 1
  BY <1>1, <1>2 DEF Slot, Positions, Offset
<1>4. ASSUME NEW i \in 1..Waiting PROVE slot[Slot(i)] # NoEvent /\ slot[Slot(i)] \in Event
  <2>1. Offset(Slot(i)) < Filled
    BY <1>2, <1>3
  <2>2. QED
    BY <1>1, <1>3, <2>1 DEF IInv, RingInv
<1>5. Queued \in [1..Waiting -> Event] /\ \A i \in 1..Waiting : Queued[i] = slot[Slot(i)]
  BY <1>4 DEF Queued
<1>6. Queued \in Seq(Event) /\ Len(Queued) = Waiting
  <2>1. Waiting \in Nat
    BY <1>2
  <2>2. QED
    BY <1>5, <2>1
<1>7. Started \in Seq(Event)
  BY <1>1 DEF Started
<1>8. QED
  BY <1>2, <1>3, <1>4, <1>5, <1>6, <1>7 DEF QueueFacts

(* Between two steps of the queue's own, nothing of it changes. *)
LEMMA QueueUnchanged ==
  ASSUME getPos' = getPos, Waiting' = Waiting,
         \A i \in 1..Waiting : slot'[Slot(i)] = slot[Slot(i)],
         Started' = Started, lost' = lost
  PROVE  UNCHANGED Queue!vars
<1>1. \A i : Slot(i)' = Slot(i)
  BY DEF Slot
<1>2. Queued' = Queued
  BY <1>1 DEF Queued
<1>3. QED
  BY <1>2 DEF Queue!vars

(* Publish accepts the event: it comes last. *)
LEMMA PublishAccepts ==
  ASSUME IInv, IInv', EventInv, QueueFacts, QueueFacts', NEW t \in Thread, Publish(t)
  PROVE  Queue!Accept(ev[t])
<1>1. /\ pc[t] = "publish" /\ numDatas' = numDatas + 1 /\ ev[t] \in Event
      /\ UNCHANGED <<slot, putPos, getPos, spc, cur, ran, lost>>
      /\ numDatas < Capacity /\ numDatas \in Nat /\ Capacity \in Nat /\ getPos \in Positions
  BY SchedulerAssumption DEF Publish, loop, IInv, TypeOK, LockInv
<1>2. Waiting' = Waiting + 1 /\ Waiting < Capacity /\ Waiting \in Nat
  BY <1>1 DEF Waiting, QueueFacts
<1>3. /\ Started' = Started /\ lost' = lost
      /\ \A i : Slot(i)' = Slot(i)
  BY <1>1 DEF Started, Slot
<1>4. Slot(Waiting + 1) \in Positions /\ Add(Slot(Waiting + 1)) = putPos
  <2>1. Filled = Waiting + 1
    BY <1>1 DEF Filled, Waiting, Pending, Popped
  <2>2. putPos = getPos + (Waiting + 1) \/ putPos = getPos + (Waiting + 1) - Capacity
    BY <2>1 DEF IInv, RingInv
  <2>3. putPos \in Positions
    BY DEF IInv, TypeOK
  <2>4. QED
    BY <1>1, <1>2, <2>2, <2>3 DEF Slot, Add, Positions
<1>5. slot[Slot(Waiting + 1)] = ev[t]
  BY <1>1, <1>4, SchedulerAssumption DEF EventInv
<1>6. Queued' = Append(Queued, ev[t])
  <2>1. /\ Append(Queued, ev[t]) \in Seq(Event) /\ Len(Append(Queued, ev[t])) = Waiting + 1
        /\ \A i \in 1..Waiting : Append(Queued, ev[t])[i] = Queued[i]
        /\ Append(Queued, ev[t])[Waiting + 1] = ev[t]
    BY <1>1, AppendProperties DEF QueueFacts
  <2>2. /\ Queued' \in Seq(Event) /\ Len(Queued') = Waiting + 1
        /\ \A i \in 1..(Waiting + 1) : Queued'[i] = slot[Slot(i)]
    BY <1>1, <1>2, <1>3 DEF QueueFacts
  <2>3. \A i \in 1..(Waiting + 1) : Queued'[i] = Append(Queued, ev[t])[i]
    <3>1. \A i \in 1..(Waiting + 1) : i \in 1..Waiting \/ i = Waiting + 1
      BY <1>2
    <3>2. \A i \in 1..Waiting : Queued[i] = slot[Slot(i)]
      BY DEF QueueFacts
    <3>3. QED
      BY <1>5, <2>1, <2>2, <3>1, <3>2
  <2>4. QED
    BY <2>1, <2>2, <2>3, SeqEqual
<1>7. Queue!Fresh(ev[t])
  <2>1. /\ ev[t] # NoEvent /\ ev[t] \notin lost /\ ev[t] # cur /\ \A i \in DOMAIN ran : ran[i] # ev[t]
    BY <1>1, SchedulerAssumption DEF EventInv
  <2>2. ASSUME NEW i \in DOMAIN Queued PROVE Queued[i] # ev[t]
    <3>1. i \in 1..Waiting /\ Queued[i] = slot[Slot(i)] /\ Slot(i) \in Positions
      BY DEF QueueFacts
    <3>2. Slot(i) # Slot(Waiting + 1)
      BY <1>1, <1>2, <3>1 DEF Slot, Positions
    <3>3. Add(Slot(i)) # putPos
      BY <1>4, <3>1, <3>2, AddInjective
    <3>4. QED
      BY <2>1, <3>1, <3>3 DEF EventInv
  <2>3. \A i \in DOMAIN Started : Started[i] # ev[t]
    BY <2>1, StartedIs DEF IInv, TypeOK
  <2>4. QED
    BY <2>1, <2>2, <2>3 DEF Queue!Fresh
<1>8. QED
  BY <1>1, <1>2, <1>3, <1>6, <1>7 DEF Queue!Accept, QueueFacts

(* Take runs the first event. *)
LEMMA TakeRuns ==
  ASSUME IInv, IInv', QueueFacts, QueueFacts', Take
  PROVE  Queue!Run
<1>1. /\ spc = "take" /\ spc' = "count" /\ cur' = slot[getPos] /\ getPos' = Add(getPos)
      /\ slot' = [slot EXCEPT ![getPos] = NoEvent] /\ UNCHANGED <<numDatas, ran, lost>>
  BY DEF Take
<1>2. /\ numDatas > 0 /\ cur = NoEvent /\ cur' # NoEvent /\ numDatas \in Nat
      /\ getPos \in Positions /\ Capacity \in Nat \ {0}
      /\ slot \in [Positions -> Event \cup {NoEvent}]
  BY <1>1, TakeFindsEvent, SchedulerAssumption DEF IInv, TypeOK, LoopInv
<1>3. Waiting = numDatas /\ Waiting' = Waiting - 1 /\ Waiting \in 1..Capacity
  BY <1>1, <1>2 DEF Waiting, QueueFacts
<1>4. Slot(1) = getPos /\ \A i \in 1..(Waiting - 1) : Slot(i)' = Slot(i + 1) /\ Slot(i + 1) # getPos
  BY <1>1, <1>2, <1>3 DEF Slot, Add, Positions
<1>5. Queued # <<>> /\ Head(Queued) = slot[getPos]
  <2>1. Queued \in Seq(Event) /\ Len(Queued) = Waiting /\ Queued[1] = slot[Slot(1)]
    BY <1>3 DEF QueueFacts
  <2>2. QED
    BY <1>3, <1>4, <2>1
<1>6. Queued' = Tail(Queued)
  <2>1. /\ Tail(Queued) \in Seq(Event) /\ Len(Tail(Queued)) = Waiting - 1
        /\ \A i \in 1..(Waiting - 1) : Tail(Queued)[i] = Queued[i + 1]
    BY <1>5, HeadTailProperties DEF QueueFacts
  <2>2. /\ Queued' \in Seq(Event) /\ Len(Queued') = Waiting - 1
        /\ \A i \in 1..(Waiting - 1) : Queued'[i] = slot'[Slot(i)']
    BY <1>3 DEF QueueFacts
  <2>3. ASSUME NEW i \in 1..(Waiting - 1) PROVE Queued'[i] = Tail(Queued)[i]
    <3>1. i + 1 \in 1..Waiting
      BY <1>3
    <3>2. Queued[i + 1] = slot[Slot(i + 1)] /\ Slot(i + 1) \in Positions
      BY <3>1 DEF QueueFacts
    <3>3. slot'[Slot(i + 1)] = slot[Slot(i + 1)]
      BY <1>1, <1>2, <1>4, <3>2
    <3>4. QED
      BY <1>4, <2>1, <2>2, <3>2, <3>3
  <2>4. QED
    BY <2>1, <2>2, <2>3, SeqEqual
<1>7. Started' = Append(Started, Head(Queued))
  BY <1>1, <1>2, <1>5 DEF Started
<1>8. QED
  BY <1>1, <1>5, <1>6, <1>7 DEF Queue!Run

(* A push that the ring refuses loses its event; its slot, if any, is the   *)
(* last one's.                                                              *)
LEMMA RefusalLoses ==
  ASSUME IInv, EventInv, QueueFacts, NEW t \in Thread, PushTest(t), numDatas >= Capacity
  PROVE  Queue!Lose(ev[t])
<1>1. /\ pc[t] = "push" /\ lost' = lost \cup {ev[t]} /\ ev[t] \in Event
      /\ UNCHANGED <<slot, getPos, numDatas, spc, cur, ran>>
      /\ numDatas \in Nat /\ Capacity \in Nat
  BY SchedulerAssumption DEF PushTest, ring, loop, IInv, TypeOK, LockInv
<1>2. Waiting' = Waiting /\ Waiting >= Capacity - 1
  BY <1>1 DEF Waiting
<1>3. \A i : Slot(i)' = Slot(i)
  BY <1>1 DEF Slot
<1>4. Queued' = Queued /\ Started' = Started
  BY <1>1, <1>2, <1>3 DEF Queued, Started
<1>5. Queue!Fresh(ev[t])
  <2>1. /\ ev[t] # NoEvent /\ ev[t] \notin lost /\ ev[t] # cur /\ \A i \in DOMAIN ran : ran[i] # ev[t]
        /\ \A p \in Positions : slot[p] # ev[t]
    BY <1>1, SchedulerAssumption DEF EventInv
  <2>2. \A i \in DOMAIN Queued : Queued[i] # ev[t]
    BY <2>1 DEF QueueFacts
  <2>3. \A i \in DOMAIN Started : Started[i] # ev[t]
    BY <2>1, StartedIs DEF IInv, TypeOK
  <2>4. QED
    BY <2>1, <2>2, <2>3 DEF Queue!Fresh
<1>6. QED
  BY <1>1, <1>2, <1>4, <1>5 DEF Queue!Lose, QueueFacts

LEMMA QueueStep ==
  ASSUME IInv, IInv', EventInv, QueueFacts, QueueFacts', [Next]_vars
  PROVE  [Queue!Next]_(Queue!vars)
<1>0. numDatas \in Nat /\ Capacity \in Nat /\ putPos \in Positions
      /\ slot \in [Positions -> Event \cup {NoEvent}]
  BY SchedulerAssumption DEF IInv, TypeOK
<1>1. ASSUME NEW t \in Thread, Publish(t) PROVE [Queue!Next]_(Queue!vars)
  <2>1. ev[t] \in Event
    BY <1>1 DEF Publish, IInv, TypeOK, LockInv
  <2>2. QED
    BY <1>1, <2>1, PublishAccepts DEF Queue!Next
<1>2. ASSUME NEW t \in Thread, PushTest(t) PROVE [Queue!Next]_(Queue!vars)
  <2>1. CASE numDatas >= Capacity
    <3>1. ev[t] \in Event
      BY <1>2 DEF PushTest, IInv, TypeOK, LockInv
    <3>2. QED
      BY <1>2, <2>1, <3>1, RefusalLoses DEF Queue!Next
  <2>2. CASE ~(numDatas >= Capacity)
    <3>1. UNCHANGED <<slot, getPos, numDatas, spc, cur, ran, lost>>
      BY <1>0, <1>2, <2>2 DEF PushTest, ring, loop
    <3>2. QED
      BY <3>1, QueueUnchanged DEF Waiting, Started
  <2>3. QED
    BY <2>1, <2>2
<1>3. CASE Take
  BY <1>3, TakeRuns DEF Queue!Next
<1>4. ASSUME NEW t \in Thread, Store(t) PROVE [Queue!Next]_(Queue!vars)
  <2>1. /\ slot' = [slot EXCEPT ![putPos] = ev[t]]
        /\ UNCHANGED <<getPos, numDatas, spc, cur, ran, lost>>
    BY <1>4 DEF Store, loop
  <2>2. slot[putPos] = NoEvent
    BY <1>4, StoreFindsRoom DEF Store
  <2>3. \A i \in 1..Waiting : slot'[Slot(i)] = slot[Slot(i)]
    BY <1>0, <2>1, <2>2 DEF QueueFacts
  <2>4. QED
    BY <2>1, <2>3, QueueUnchanged DEF Waiting, Started
<1>5. CASE Uncount
  <2>1. /\ spc = "count" /\ spc' = "run" /\ numDatas' = numDatas - 1
        /\ UNCHANGED <<slot, getPos, cur, ran, lost>>
    BY <1>5 DEF Uncount
  <2>2. Waiting' = Waiting
    BY <1>0, <2>1 DEF Waiting
  <2>3. QED
    BY <2>1, <2>2, QueueUnchanged DEF Started
<1>6. CASE RunCallback
  <2>1. /\ spc = "run" /\ spc' = "again" /\ ran' = Append(ran, cur) /\ cur' = NoEvent
        /\ UNCHANGED <<slot, getPos, numDatas, lost>>
    BY <1>6 DEF RunCallback, ring
  <2>2. cur # NoEvent
    BY <2>1 DEF IInv, LoopInv
  <2>3. Waiting' = Waiting /\ Started' = Started
    BY <2>1, <2>2 DEF Waiting, Started
  <2>4. QED
    BY <2>1, <2>3, QueueUnchanged
<1>7. ASSUME NEW t \in Thread, (\E e \in Event : CheckSize(t, e)) \/ Lock(t) \/ WritePipe(t)
      PROVE  [Queue!Next]_(Queue!vars)
  <2>1. UNCHANGED <<slot, getPos, numDatas, spc, cur, ran, lost>>
    BY <1>7 DEF CheckSize, Lock, WritePipe, ring, loop
  <2>2. QED
    BY <2>1, QueueUnchanged DEF Waiting, Started
<1>8. CASE BeginLoop \/ TestShutdown \/ PopTest \/ PopAgain \/ Wake \/ Timeout
           \/ StopFlag \/ StopWake \/ UNCHANGED vars
  <2>1. /\ UNCHANGED <<slot, getPos, numDatas, cur, ran, lost>>
        /\ spc = "count" <=> spc' = "count"
    BY <1>8 DEF BeginLoop, TestShutdown, PopTest, PopAgain, Wake, Timeout, StopFlag, StopWake,
       vars, ring, caller, loop
  <2>2. Waiting' = Waiting
    BY <2>1 DEF Waiting
  <2>3. QED
    BY <2>1, <2>2, QueueUnchanged DEF Started
<1>9. QED
  BY <1>1, <1>2, <1>3, <1>4, <1>5, <1>6, <1>7, <1>8 DEF Next, CallStep, LoopStep

LEMMA QueueInit == Init => EventInv /\ Queue!Init
<1> SUFFICES ASSUME Init PROVE EventInv /\ Queue!Init
  OBVIOUS
<1>1. EventInv
  BY DEF Init, EventInv
<1>2. Waiting = 0 /\ Started = <<>> /\ lost = {}
  BY DEF Init, Waiting, Started
<1>3. Queued = <<>>
  BY <1>2 DEF Queued
<1>4. QED
  BY <1>1, <1>2, <1>3 DEF Queue!Init

(* For every capacity and any number of callers, the ring, the lock of the   *)
(* producers only, the counter and the loop implement the queue: accepted    *)
(* callbacks start in the order in which they were published, each once, and *)
(* a callback is dropped only when the queue is full up to the one being     *)
(* taken (AddTriggerEvent, RingBuffer, HandleTriggerEvent).                  *)
THEOREM RingIsQueue == Spec => ImplementsQueue
<1>1. Init => IInv /\ EventInv /\ Queue!Init
  BY InvInit, QueueInit
<1>2. IInv /\ EventInv /\ [Next]_vars => IInv' /\ EventInv'
  BY InvStep, EventStep
<1>3. IInv /\ IInv' /\ EventInv /\ QueueFacts /\ QueueFacts' /\ [Next]_vars => [Queue!Next]_(Queue!vars)
  BY QueueStep
<1>4. QED
  BY <1>1, <1>2, <1>3, QueueIsSeq, PTL DEF Spec, ImplementsQueue, Queue!Spec

=============================================================================
