---------------------------- MODULE ParallelQueue ----------------------------
(***************************************************************************)
(* Parallel::Queue (src/src/concurentqueue.h): a std::queue behind one     *)
(* mutex and two condition variables, pushCond_ (signalled by a push,      *)
(* awaited by timed pops) and popCond_ (signalled by a pop, awaited        *)
(* without a time limit by pushes that found the queue full).              *)
(*                                                                         *)
(* One action is one critical section of mut_: from taking the mutex to    *)
(* releasing it, by returning or by waiting.  A thread blocked on a        *)
(* condition variable first wakes, then competes for the mutex with every  *)
(* other thread, so the queue may have changed again when it looks.        *)
(***************************************************************************)
EXTENDS Naturals, Sequences, FiniteSets

CONSTANTS Producers,   \* threads that call waitAndPush
          Consumers,   \* threads that call waitAndPop or tryPop
          Values,      \* elements
          NoValue,     \* result of a pop that returned false
          maxSize      \* maxSize_; 0 means unlimited

ASSUME ThreadsAssumption ==
  /\ IsFiniteSet(Producers) /\ IsFiniteSet(Consumers)
  /\ Producers \cap Consumers = {}
ASSUME ValuesAssumption == NoValue \notin Values
ASSUME MaxSizeAssumption == maxSize \in Nat

Threads == Producers \cup Consumers

VARIABLES dataQueue,   \* dataQueue_
          pc,          \* pc[t]: where thread t is
          value        \* value[t]: newValue of a push, the out-parameter of a pop

vars == <<dataQueue, pc, value>>

PushPCs == {"idle", "pushBlocked", "pushWoken"}
PopPCs == {"idle", "popBlocked", "popWoken", "popTimedOut"}

At(where) == {t \in Threads : pc[t] = where}

TypeOK == /\ dataQueue \in Seq(Values)
          /\ pc \in [Threads -> PushPCs \cup PopPCs]
          /\ \A t \in Producers : pc[t] \in PushPCs
          /\ \A t \in Consumers : pc[t] \in PopPCs
          /\ value \in [Threads -> Values \cup {NoValue}]
          /\ \A t \in Producers : pc[t] # "idle" => value[t] \in Values

Init == /\ dataQueue = <<>>
        /\ pc = [t \in Threads |-> "idle"]
        /\ value = [t \in Threads |-> NoValue]

-----------------------------------------------------------------------------
(* A plausible slip: the signal is forgotten. *)
LeaveWithoutNotify(t, from, woken) == pc' = [pc EXCEPT ![t] = "idle"]

(* notify_one: thread t leaves its critical section for "idle" and, if     *)
(* some thread is blocked at from, one of them moves on to woken.          *)
LeaveAndNotify(t, from, woken) ==
  IF At(from) = {}
  THEN pc' = [pc EXCEPT ![t] = "idle"]
  ELSE \E u \in At(from) : pc' = [pc EXCEPT ![t] = "idle", ![u] = woken]

NotFull == maxSize = 0 \/ Len(dataQueue) < maxSize

(* A slip: the argument is moved from before the wait, not after it. *)
PushSectionMovesEarly(t, v) ==
  \/ /\ NotFull
     /\ value' = [value EXCEPT ![t] = v]
     /\ dataQueue' = Append(dataQueue, v)
     /\ LeaveAndNotify(t, "popBlocked", "popWoken")
  \/ /\ ~NotFull
     /\ value' = [value EXCEPT ![t] = NoValue]
     /\ pc' = [pc EXCEPT ![t] = "pushBlocked"]
     /\ UNCHANGED dataQueue

(* The critical section of waitAndPush with argument v. *)
PushSection(t, v) ==
  /\ value' = [value EXCEPT ![t] = v]
  /\ \/ /\ NotFull
        /\ dataQueue' = Append(dataQueue, v)
        /\ LeaveAndNotify(t, "popBlocked", "popWoken")
     \/ /\ ~NotFull
        /\ pc' = [pc EXCEPT ![t] = "pushBlocked"]
        /\ UNCHANGED dataQueue

waitAndPush(t, v) == pc[t] = "idle" /\ PushSection(t, v)

(* A slip: a woken push no longer looks whether there is room (if, not while). *)
ResumePushUnchecked(t) ==
  /\ pc[t] = "pushWoken"
  /\ dataQueue' = Append(dataQueue, value[t])
  /\ LeaveAndNotify(t, "popBlocked", "popWoken")
  /\ UNCHANGED value

ResumePush(t) == pc[t] = "pushWoken" /\ PushSection(t, value[t])

(* Moving the front element out; common to waitAndPop and tryPop. *)
TakeFront(t) ==
  /\ dataQueue # <<>>
  /\ value' = [value EXCEPT ![t] = Head(dataQueue)]
  /\ dataQueue' = Tail(dataQueue)
  /\ LeaveAndNotify(t, "pushBlocked", "pushWoken")

ReturnFalse(t) ==
  /\ dataQueue = <<>>
  /\ pc' = [pc EXCEPT ![t] = "idle"]
  /\ value' = [value EXCEPT ![t] = NoValue]
  /\ UNCHANGED dataQueue

BlockPop(t) ==
  /\ dataQueue = <<>>
  /\ pc' = [pc EXCEPT ![t] = "popBlocked"]
  /\ UNCHANGED <<dataQueue, value>>

waitAndPop(t) == pc[t] = "idle" /\ (TakeFront(t) \/ BlockPop(t))

tryPop(t) == pc[t] = "idle" /\ (TakeFront(t) \/ ReturnFalse(t))

(* Signalled (or woken for no reason) before the time limit: wait_for      *)
(* evaluates the predicate and goes back to waiting if it fails.           *)
ResumePop(t) == pc[t] = "popWoken" /\ (TakeFront(t) \/ BlockPop(t))

(* A slip: the element that arrived together with the time limit is missed. *)
ExpirePopBlindly(t) ==
  /\ pc[t] = "popTimedOut"
  /\ pc' = [pc EXCEPT ![t] = "idle"]
  /\ value' = [value EXCEPT ![t] = NoValue]
  /\ UNCHANGED dataQueue

(* Past the time limit wait_for evaluates the predicate once more and      *)
(* returns it.                                                             *)
ExpirePop(t) == pc[t] = "popTimedOut" /\ (TakeFront(t) \/ ReturnFalse(t))

(* The time limit passes, whether or not a signal has arrived meanwhile. *)
TimeOut(t) == /\ pc[t] \in {"popBlocked", "popWoken"}
              /\ pc' = [pc EXCEPT ![t] = "popTimedOut"]
              /\ UNCHANGED <<dataQueue, value>>

(* A condition variable may wake a waiter without a signal. *)
SpuriousWakeup(t) ==
  /\ \/ pc[t] = "pushBlocked" /\ pc' = [pc EXCEPT ![t] = "pushWoken"]
     \/ pc[t] = "popBlocked" /\ pc' = [pc EXCEPT ![t] = "popWoken"]
  /\ UNCHANGED <<dataQueue, value>>

Next == \/ \E t \in Producers : \/ \E v \in Values : waitAndPush(t, v)
                                \/ ResumePush(t)
        \/ \E t \in Consumers : \/ waitAndPop(t)
                                \/ tryPop(t)
                                \/ ResumePop(t)
                                \/ ExpirePop(t)
                                \/ TimeOut(t)
        \/ \E t \in Threads : SpuriousWakeup(t)

(* A thread that has been woken gets the mutex sooner or later, and a time *)
(* limit passes.  Nothing makes a caller call, or a spurious wakeup happen. *)
Fairness == /\ \A t \in Producers : WF_vars(ResumePush(t))
            /\ \A t \in Consumers : /\ WF_vars(ResumePop(t))
                                    /\ WF_vars(TimeOut(t))
                                    /\ WF_vars(ExpirePop(t))

Spec == Init /\ [][Next]_vars /\ Fairness

-----------------------------------------------------------------------------
(* The queue never holds more than maxSize_ elements, however many woken   *)
(* and barging pushes compete for a slot that came free (line 46).         *)
CapacityRespected == maxSize # 0 => Len(dataQueue) <= maxSize

(* No wakeup of a push is lost: as long as a push sleeps on popCond_ (which *)
(* has no time limit), every free slot is matched by a push already woken  *)
(* to claim it (lines 26, 37, 46).                                         *)
NoLostPushWakeup ==
  At("pushBlocked") # {} =>
    maxSize - Len(dataQueue) <= Cardinality(At("pushWoken"))

(* No wakeup of a pop is lost: while a pop sleeps on pushCond_, every      *)
(* queued element is matched by a pop already on its way to fetch it, so   *)
(* a pop never sits out its time limit next to an element (lines 22, 48).  *)
NoLostPopWakeup ==
  At("popBlocked") # {} =>
    Len(dataQueue) <= Cardinality(At("popWoken")) + Cardinality(At("popTimedOut"))

-----------------------------------------------------------------------------
AbstractOp ==
  [t \in Threads |-> CASE pc[t] = "idle" -> "idle"
                       [] pc[t] \in {"pushBlocked", "pushWoken"} -> "pushing"
                       [] OTHER -> "popping"]

Abstract == INSTANCE BoundedQueue WITH queue <- dataQueue, op <- AbstractOp

(* The locked queue with its condition variables implements the abstract   *)
(* FIFO queue: every call takes effect once and in order, false is         *)
(* returned only on an empty queue, and waiting calls complete.            *)
ImplementsBoundedQueue == Abstract!Spec
=============================================================================
