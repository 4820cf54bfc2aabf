--------------------------- MODULE TaskScheduler ---------------------------
(***************************************************************************)
(* The scheduler thread of xop (net/TaskScheduler.cpp) with its trigger    *)
(* events: AddTriggerEvent called by any thread, the RingBuffer between    *)
(* them (net/RingBuffer.h), the wakeup pipe and the select of              *)
(* SelectTaskScheduler::HandleEvent.                                       *)
(*                                                                         *)
(* Callers test the size without the lock and push under it; the consumer  *)
(* pops without any lock.  _numDatas is the only atomic variable: each     *)
(* access to it is a step of its own, and so is each slot access.          *)
(* Timers are left out: HandleTimerEvent does not touch this state, and    *)
(* their only influence, when select gives up, is left open (Timeout).     *)
(***************************************************************************)
EXTENDS Integers, Sequences

CONSTANTS
  Thread,     \* threads that call AddTriggerEvent
  Scheduler,  \* the scheduler's own thread, a caller while it runs an event
  Event,      \* the calls of AddTriggerEvent
  Capacity,   \* kMaxTriggetEvents, 50000 in the code
  NoEvent,    \* an empty std::function
  NoThread

ASSUME SchedulerAssumption ==
  /\ Capacity \in Nat \ {0}
  /\ Scheduler \in Thread /\ NoThread \notin Thread
  /\ NoEvent \notin Event

VARIABLES
  slot,     \* _buffer
  putPos, getPos, numDatas,
  mutex,    \* the holder of mutex_
  pipe,     \* are there unread bytes in wakeup_pipe_?
  pc, ev,   \* each caller's place in AddTriggerEvent and its callback
  spc, cur, \* the scheduler's place in Start and the callback it has popped
  shutdown, \* is_shutdown_
  stopper,  \* Stop: "no", "flagged" (before the pipe write) or "done"
  ran,      \* history: the callbacks run so far
  lost,     \* history: callbacks whose push failed though the call returns true
  crowded   \* history: a size test succeeded with another call past its own

ring   == <<slot, putPos, getPos, numDatas>>
caller == <<mutex, pc, ev, crowded>>
loop   == <<spc, cur, ran>>
stop   == <<shutdown, stopper>>
vars   == <<slot, putPos, getPos, numDatas, mutex, pipe, pc, ev, spc, cur,
            shutdown, stopper, ran, lost, crowded>>

Positions == 0..(Capacity - 1)

\* RingBuffer::add
Add(pos) == IF pos + 1 = Capacity THEN 0 ELSE pos + 1

Init ==
  /\ slot = [i \in Positions |-> NoEvent]
  /\ putPos = 0 /\ getPos = 0 /\ numDatas = 0
  /\ mutex = NoThread /\ pipe = FALSE
  /\ pc = [t \in Thread |-> "idle"] /\ ev = [t \in Thread |-> NoEvent]
  /\ spc = "new" /\ cur = NoEvent
  /\ shutdown = FALSE /\ stopper = "no"
  /\ ran = <<>> /\ lost = {} /\ crowded = FALSE

-----------------------------------------------------------------------------
(* AddTriggerEvent, by thread t. *)

InCall(t) == pc[t] \in {"lock", "push", "store", "publish"}

New(e) == /\ e \notin lost /\ \A t \in Thread : ev[t] # e
          /\ \A i \in Positions : slot[i] # e
          /\ cur # e /\ \A i \in DOMAIN ran : ran[i] # e

\* Mutant: one event too many passes the test.
CheckSizeOffByOne(t, e) ==
  /\ pc[t] = "idle" /\ New(e)
  /\ t = Scheduler => spc = "run"
  /\ numDatas <= Capacity
  /\ pc' = [pc EXCEPT ![t] = "lock"] /\ ev' = [ev EXCEPT ![t] = e]
  /\ crowded' = (crowded \/ \E u \in Thread : InCall(u))
  /\ UNCHANGED <<ring, mutex, pipe, loop, stop, lost>>

\* The size test, before the lock: a full queue refuses the call at once.
CheckSize(t, e) ==
  /\ pc[t] = "idle" /\ New(e)
  /\ t = Scheduler => spc = "run"
  /\ numDatas < Capacity
  /\ pc' = [pc EXCEPT ![t] = "lock"] /\ ev' = [ev EXCEPT ![t] = e]
  /\ crowded' = (crowded \/ \E u \in Thread : InCall(u))
  /\ UNCHANGED <<ring, mutex, pipe, loop, stop, lost>>

Lock(t) ==
  /\ pc[t] = "lock" /\ mutex = NoThread
  /\ mutex' = t /\ pc' = [pc EXCEPT ![t] = "push"]
  /\ UNCHANGED <<ring, ev, crowded, pipe, loop, stop, lost>>

\* RingBuffer::pushData tests again; AddTriggerEvent ignores a refusal.
PushTest(t) ==
  /\ pc[t] = "push"
  /\ \/ numDatas < Capacity /\ pc' = [pc EXCEPT ![t] = "store"]
        /\ UNCHANGED <<ev, lost>>
     \/ numDatas >= Capacity /\ pc' = [pc EXCEPT ![t] = "wake"]
        /\ lost' = lost \cup {ev[t]} /\ ev' = [ev EXCEPT ![t] = NoEvent]
  /\ UNCHANGED <<ring, mutex, crowded, pipe, loop, stop>>

Store(t) ==
  /\ pc[t] = "store" /\ pc' = [pc EXCEPT ![t] = "publish"]
  /\ slot' = [slot EXCEPT ![putPos] = ev[t]] /\ putPos' = Add(putPos)
  /\ UNCHANGED <<getPos, numDatas, mutex, ev, crowded, pipe, loop, stop, lost>>

Publish(t) ==
  /\ pc[t] = "publish" /\ pc' = [pc EXCEPT ![t] = "wake"]
  /\ numDatas' = numDatas + 1 /\ ev' = [ev EXCEPT ![t] = NoEvent]
  /\ UNCHANGED <<slot, putPos, getPos, mutex, crowded, pipe, loop, stop, lost>>

\* Mutant: the call ends without waking the loop.
NoPipeWrite(t) ==
  /\ pc[t] = "wake" /\ pc' = [pc EXCEPT ![t] = "idle"]
  /\ mutex' = NoThread
  /\ UNCHANGED <<ring, ev, crowded, pipe, loop, stop, lost>>

\* The pipe write and the end of the lock_guard's scope.
WritePipe(t) ==
  /\ pc[t] = "wake" /\ pc' = [pc EXCEPT ![t] = "idle"]
  /\ pipe' = TRUE /\ mutex' = NoThread
  /\ UNCHANGED <<ring, ev, crowded, loop, stop, lost>>

-----------------------------------------------------------------------------
(* Start, on the scheduler's thread, with HandleTriggerEvent and Wake. *)

BeginLoop ==
  /\ spc = "new" /\ spc' = "loop" /\ shutdown' = FALSE
  /\ UNCHANGED <<ring, caller, pipe, cur, ran, stopper, lost>>

TestShutdown ==
  /\ spc = "loop" /\ spc' = IF shutdown THEN "ended" ELSE "pop"
  /\ UNCHANGED <<ring, caller, pipe, cur, ran, stop, lost>>

PopTest ==
  /\ spc = "pop" /\ spc' = IF numDatas > 0 THEN "take" ELSE "again"
  /\ UNCHANGED <<ring, caller, pipe, cur, ran, stop, lost>>

\* Mutant: the read position stays where it is.
TakeInPlace ==
  /\ spc = "take" /\ spc' = "count"
  /\ cur' = slot[getPos] /\ slot' = [slot EXCEPT ![getPos] = NoEvent]
  /\ UNCHANGED <<putPos, getPos, numDatas, caller, pipe, ran, stop, lost>>

Take ==
  /\ spc = "take" /\ spc' = "count"
  /\ cur' = slot[getPos] /\ slot' = [slot EXCEPT ![getPos] = NoEvent]
  /\ getPos' = Add(getPos)
  /\ UNCHANGED <<putPos, numDatas, caller, pipe, ran, stop, lost>>

Uncount ==
  /\ spc = "count" /\ spc' = "run" /\ numDatas' = numDatas - 1
  /\ UNCHANGED <<slot, putPos, getPos, caller, pipe, cur, ran, stop, lost>>

\* The callback returns; meanwhile it may itself have called AddTriggerEvent.
RunCallback ==
  /\ spc = "run" /\ pc[Scheduler] = "idle" /\ spc' = "again"
  /\ ran' = Append(ran, cur) /\ cur' = NoEvent
  /\ UNCHANGED <<ring, caller, pipe, stop, lost>>

\* Mutant: one event is popped for each wakeup.
PopOnce ==
  /\ spc = "again" /\ spc' = "select"
  /\ UNCHANGED <<ring, caller, pipe, cur, ran, stop, lost>>

PopAgain ==
  /\ spc = "again" /\ spc' = IF numDatas > 0 THEN "pop" ELSE "select"
  /\ UNCHANGED <<ring, caller, pipe, cur, ran, stop, lost>>

\* select returns because the pipe is readable, and Wake drains it.
Wake ==
  /\ spc = "select" /\ pipe /\ spc' = "loop" /\ pipe' = FALSE
  /\ UNCHANGED <<ring, caller, cur, ran, stop, lost>>

\* select times out, or returns for another channel only.
Timeout ==
  /\ spc = "select" /\ ~pipe /\ spc' = "loop"
  /\ UNCHANGED <<ring, caller, pipe, cur, ran, stop, lost>>

-----------------------------------------------------------------------------
(* Stop, by the thread that runs EventLoop::Quit. *)

StopFlag ==
  /\ stopper = "no" /\ stopper' = "flagged" /\ shutdown' = TRUE
  /\ UNCHANGED <<ring, caller, pipe, loop, lost>>

StopWake ==
  /\ stopper = "flagged" /\ stopper' = "done" /\ pipe' = TRUE
  /\ UNCHANGED <<ring, caller, loop, shutdown, lost>>

-----------------------------------------------------------------------------
CallStep(t) == \/ Lock(t) \/ PushTest(t) \/ Store(t) \/ Publish(t) \/ WritePipe(t)

LoopStep == \/ BeginLoop \/ TestShutdown \/ PopTest \/ Take \/ Uncount
            \/ RunCallback \/ PopAgain \/ Wake

Next ==
  \/ \E t \in Thread : CallStep(t) \/ \E e \in Event : CheckSize(t, e)
  \/ LoopStep \/ Timeout \/ StopFlag \/ StopWake

Spec == Init /\ [][Next]_vars

(* The OS schedules the threads; nothing is assumed of select's time-out,   *)
(* which a distant timer can make long: the pipe alone must wake the loop.  *)
Fairness == /\ \A t \in Thread : WF_vars(CallStep(t))
            /\ WF_vars(LoopStep) /\ WF_vars(StopWake)

LiveSpec == Spec /\ Fairness

-----------------------------------------------------------------------------
(* Properties. *)

TypeOK ==
  /\ slot \in [Positions -> Event \cup {NoEvent}]
  /\ putPos \in Positions /\ getPos \in Positions /\ numDatas \in 0..Capacity
  /\ mutex \in Thread \cup {NoThread} /\ pipe \in BOOLEAN
  /\ pc \in [Thread -> {"idle", "lock", "push", "store", "publish", "wake"}]
  /\ ev \in [Thread -> Event \cup {NoEvent}]
  /\ spc \in {"new", "loop", "pop", "take", "count", "run", "again", "select", "ended"}
  /\ cur \in Event \cup {NoEvent}
  /\ shutdown \in BOOLEAN /\ stopper \in {"no", "flagged", "done"}
  /\ ran \in Seq(Event) /\ lost \in SUBSET Event /\ crowded \in BOOLEAN

\* The unlocked pop never moves out a slot the producers have not filled yet,
\* so the scheduler never calls an empty std::function.
NeverRunsEmpty == /\ spc = "take" => slot[getPos] # NoEvent
                  /\ spc \in {"count", "run"} => cur # NoEvent

\* pushData never overwrites an event that has not been popped.
NeverOverwrites == \A t \in Thread : pc[t] = "store" => slot[putPos] = NoEvent

\* The scheduler does not sleep in select on a non-empty queue without a byte
\* in the pipe, or a caller about to write one, to wake it.
NoLostWakeup ==
  spc = "select" /\ numDatas > 0 => pipe \/ \E t \in Thread : pc[t] = "wake"

\* AddTriggerEvent returns true for an event it drops only if its size test,
\* made outside the lock, raced with another call's.
LostOnlyWhenCrowded == lost # {} => crowded

(* The queue the callers see: an event popped but still counted by _numDatas  *)
(* has left it, and counts as run.                                            *)
Slot(i) == LET p == getPos + i - 1 IN IF p < Capacity THEN p ELSE p - Capacity
Waiting == numDatas - (IF spc = "count" THEN 1 ELSE 0)

Queued == [i \in 1..Waiting |-> slot[Slot(i)]]
Started == IF cur = NoEvent THEN ran ELSE Append(ran, cur)

Queue == INSTANCE EventQueue WITH queue <- Queued, ran <- Started

\* The scheduler implements the queue: callbacks run at most once, in the order
\* of the pushes, and are lost only at the limit of the ring buffer.
ImplementsQueue == Queue!Spec

\* A pushed event is run without any help from select's time-out, unless the
\* loop ends first.
PushedIsRun ==
  \A e \in Event : (\E i \in 1..Waiting : Queued[i] = e)
                    ~> (spc = "ended" \/ \E i \in DOMAIN ran : ran[i] = e)
=============================================================================
