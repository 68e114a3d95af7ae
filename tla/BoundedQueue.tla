---------------------------- MODULE BoundedQueue ----------------------------
(***************************************************************************)
(* What Parallel::Queue promises its callers: a FIFO queue with an         *)
(* optional capacity whose calls take effect in one indivisible step       *)
(* between the call and the return.  No mutex, no condition variable.      *)
(***************************************************************************)
EXTENDS Naturals, Sequences

CONSTANTS Producers,   \* threads that push
          Consumers,   \* threads that pop
          Values,      \* elements
          NoValue,     \* what a failed pop leaves in the result
          maxSize      \* capacity, 0 meaning none

Threads == Producers \cup Consumers

VARIABLES queue,       \* the elements, oldest first
          op,          \* op[t]: the call thread t waits in, or "idle"
          value        \* value[t]: the argument of a push, the result of a pop

vars == <<queue, op, value>>

HasRoom == maxSize = 0 \/ Len(queue) < maxSize

Init == /\ queue = <<>>
        /\ op = [t \in Threads |-> "idle"]
        /\ value = [t \in Threads |-> NoValue]

(* A call that cannot take effect yet waits. *)
WaitToPush(t, v) == /\ op[t] = "idle" /\ ~HasRoom
                    /\ op' = [op EXCEPT ![t] = "pushing"]
                    /\ value' = [value EXCEPT ![t] = v]
                    /\ UNCHANGED queue

WaitToPop(t) == /\ op[t] = "idle" /\ queue = <<>>
                /\ op' = [op EXCEPT ![t] = "popping"]
                /\ UNCHANGED <<queue, value>>

Append1(t, v) == /\ HasRoom
                 /\ queue' = Append(queue, v)
                 /\ op' = [op EXCEPT ![t] = "idle"]
                 /\ value' = [value EXCEPT ![t] = v]

Push(t, v) == op[t] = "idle" /\ Append1(t, v)

CompletePush(t) == op[t] = "pushing" /\ Append1(t, value[t])

Take(t) == /\ queue # <<>>
           /\ queue' = Tail(queue)
           /\ op' = [op EXCEPT ![t] = "idle"]
           /\ value' = [value EXCEPT ![t] = Head(queue)]

(* A pop returns false only at a moment when the queue is empty. *)
FindEmpty(t) == /\ queue = <<>>
                /\ op' = [op EXCEPT ![t] = "idle"]
                /\ value' = [value EXCEPT ![t] = NoValue]
                /\ UNCHANGED queue

Pop(t) == op[t] = "idle" /\ (Take(t) \/ FindEmpty(t))

CompletePop(t) == op[t] = "popping" /\ (Take(t) \/ FindEmpty(t))

Next == \/ \E t \in Producers : \/ \E v \in Values : WaitToPush(t, v) \/ Push(t, v)
                                \/ CompletePush(t)
        \/ \E t \in Consumers : WaitToPop(t) \/ Pop(t) \/ CompletePop(t)

(* While there is room, some waiting push completes; every waiting pop     *)
(* returns.                                                                *)
Fairness == /\ WF_vars(\E t \in Producers : CompletePush(t))
            /\ \A t \in Consumers : WF_vars(CompletePop(t))

(* What may happen, and, with fairness, what must. *)
SafetySpec == Init /\ [][Next]_vars

Spec == SafetySpec /\ Fairness
=============================================================================
