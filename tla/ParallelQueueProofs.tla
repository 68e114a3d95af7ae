------------------------- MODULE ParallelQueueProofs -------------------------
(***************************************************************************)
(* Theorems about Parallel::Queue for any number of threads and any        *)
(* capacity.                                                               *)
(***************************************************************************)
EXTENDS ParallelQueue, FiniteSetTheorems, TLAPS

(* The threads that a pc function f puts at x; At(x) is Where(pc, x). *)
Where(f, x) == {t \in Threads : f[t] = x}

PCs == PushPCs \cup PopPCs

IInv == TypeOK /\ CapacityRespected /\ NoLostPushWakeup /\ NoLostPopWakeup

(* Every set of threads at one place is finite. *)
LEMMA WhereFinite ==
  ASSUME NEW f, NEW x
  PROVE  IsFiniteSet(Where(f, x)) /\ Cardinality(Where(f, x)) \in Nat
<1>1. IsFiniteSet(Threads)
  BY ThreadsAssumption, FS_Union DEF Threads
<1>2. Where(f, x) \in SUBSET Threads
  BY DEF Where
<1>. QED  BY <1>1, <1>2, FS_Subset, FS_CardinalityType

(* What moving one thread t to w does to the sets of threads at a place. *)
Moved(f, g, t, w) ==
  /\ f \in [Threads -> PCs] /\ g \in [Threads -> PCs] /\ g[t] = w
  /\ \A u \in Threads : u # t => g[u] = f[u]
  /\ \A x : x # w => Where(g, x) \subseteq Where(f, x)
  /\ \A x : x # w /\ f[t] # x => Where(g, x) = Where(f, x)
  /\ \A x : x # w /\ f[t] = x =>
       Cardinality(Where(g, x)) = Cardinality(Where(f, x)) - 1
  /\ f[t] # w => Cardinality(Where(g, w)) = Cardinality(Where(f, w)) + 1

LEMMA MoveOne ==
  ASSUME NEW f \in [Threads -> PCs], NEW t \in Threads, NEW w \in PCs,
         NEW g, g = [f EXCEPT ![t] = w]
  PROVE  Moved(f, g, t, w)
<1>1. g \in [Threads -> PCs] /\ g[t] = w /\ \A u \in Threads \ {t} : g[u] = f[u]
  OBVIOUS
<1>0. ASSUME NEW x, x # w PROVE Where(g, x) \subseteq Where(f, x)
  BY <1>1, <1>0 DEF Where
<1>2. ASSUME NEW x, x # w, f[t] # x PROVE Where(g, x) = Where(f, x)
  BY <1>1, <1>2 DEF Where
<1>3. ASSUME NEW x, x # w, f[t] = x
      PROVE  Cardinality(Where(g, x)) = Cardinality(Where(f, x)) - 1
  <2>1. Where(g, x) = Where(f, x) \ {t} /\ t \in Where(f, x)
    BY <1>1, <1>3 DEF Where
  <2>. QED  BY <2>1, WhereFinite, FS_RemoveElement
<1>4. ASSUME f[t] # w
      PROVE  Cardinality(Where(g, w)) = Cardinality(Where(f, w)) + 1
  <2>1. Where(g, w) = Where(f, w) \cup {t} /\ t \notin Where(f, w)
    BY <1>1, <1>4 DEF Where
  <2>. QED  BY <2>1, WhereFinite, FS_AddElement
<1>. QED  BY <1>0, <1>1, <1>2, <1>3, <1>4 DEF Moved

(* The pc facts of TypeOK, and At in terms of Where. *)
LEMMA Places ==
  ASSUME TypeOK
  PROVE  /\ pc \in [Threads -> PCs]
         /\ \A x : At(x) = Where(pc, x) /\ At(x)' = Where(pc', x)
         /\ \A u \in Producers : u \in Threads /\ u \notin Consumers /\ pc[u] \in PushPCs
         /\ \A u \in Consumers : u \in Threads /\ u \notin Producers /\ pc[u] \in PopPCs
BY ThreadsAssumption DEF TypeOK, PCs, At, Where, Threads

(* LeaveAndNotify moves t to idle and, if somebody waits, one waiter on. *)
LEMMA LeaveMoves ==
  ASSUME pc \in [Threads -> PCs], NEW t \in Threads, NEW from, NEW woken \in PCs,
         pc[t] # from, LeaveAndNotify(t, from, woken)
  PROVE  \E f : /\ Moved(pc, f, t, "idle")
                /\ \/ At(from) = {} /\ pc' = f
                   \/ \E u \in At(from) : Moved(f, pc', u, woken) /\ u # t
<1>1. PICK f : f = [pc EXCEPT ![t] = "idle"]
  OBVIOUS
<1>2. Moved(pc, f, t, "idle")
  BY <1>1, MoveOne DEF PCs, PushPCs
<1>3. CASE At(from) = {}
  BY <1>1, <1>2, <1>3 DEF LeaveAndNotify
<1>4. CASE At(from) # {}
  <2>1. PICK u \in At(from) : pc' = [pc EXCEPT ![t] = "idle", ![u] = woken]
    BY <1>4 DEF LeaveAndNotify
  <2>2. pc' = [f EXCEPT ![u] = woken] /\ u \in Threads /\ u # t
    BY <1>1, <2>1 DEF At
  <2>3. f \in [Threads -> PCs]
    BY <1>2 DEF Moved
  <2>4. Moved(f, pc', u, woken)
    BY <2>2, <2>3, MoveOne
  <2>. QED  BY <1>2, <2>2, <2>4
<1>. QED  BY <1>3, <1>4

(* A push that leaves its critical section disturbs no waiting push except *)
(* itself, and wakes one waiting pop if there is any.                      *)
LEMMA PushLeaves ==
  ASSUME TypeOK, NEW t \in Producers, pc[t] \in {"idle", "pushWoken"},
         LeaveAndNotify(t, "popBlocked", "popWoken")
  PROVE  /\ pc' \in [Threads -> PCs]
         /\ pc'[t] = "idle"
         /\ \A u \in Producers : u # t => pc'[u] = pc[u]
         /\ \A u \in Consumers : pc'[u] \in PopPCs
         /\ At("pushBlocked")' = At("pushBlocked")
         /\ Cardinality(At("pushWoken")') >= Cardinality(At("pushWoken")) - 1
         /\ Cardinality(At("popTimedOut")') = Cardinality(At("popTimedOut"))
         /\ At("popBlocked") = {} => At("popBlocked")' = {}
         /\ At("popBlocked") # {} =>
              Cardinality(At("popWoken")') = Cardinality(At("popWoken")) + 1
<1>0. PICK f : /\ Moved(pc, f, t, "idle")
               /\ \/ At("popBlocked") = {} /\ pc' = f
                  \/ \E u \in At("popBlocked") : Moved(f, pc', u, "popWoken") /\ u # t
  BY Places, LeaveMoves DEF PCs, PopPCs
<1>1. /\ Where(f, "pushBlocked") = At("pushBlocked")
      /\ Where(f, "popBlocked") = At("popBlocked")
      /\ Where(f, "popWoken") = At("popWoken")
      /\ Where(f, "popTimedOut") = At("popTimedOut")
  BY <1>0, Places DEF Moved
<1>2. Cardinality(Where(f, "pushWoken")) >= Cardinality(At("pushWoken")) - 1
  <2>1. CASE pc[t] = "pushWoken"
    BY <1>0, <2>1, Places, WhereFinite DEF Moved
  <2>2. CASE pc[t] # "pushWoken"
    <3>1. Where(f, "pushWoken") = At("pushWoken")
      BY <1>0, <2>2, Places DEF Moved
    <3>. QED  BY <3>1, WhereFinite
  <2>. QED  BY <2>1, <2>2
<1>3. CASE At("popBlocked") = {} /\ pc' = f
  BY <1>0, <1>1, <1>2, <1>3, Places DEF Moved
<1>4. ASSUME NEW u \in At("popBlocked"), Moved(f, pc', u, "popWoken"), u # t
      PROVE  /\ pc' \in [Threads -> PCs]
             /\ pc'[t] = "idle"
             /\ \A w \in Producers : w # t => pc'[w] = pc[w]
             /\ \A w \in Consumers : pc'[w] \in PopPCs
             /\ At("pushBlocked")' = At("pushBlocked")
             /\ Cardinality(At("pushWoken")') >= Cardinality(At("pushWoken")) - 1
             /\ Cardinality(At("popTimedOut")') = Cardinality(At("popTimedOut"))
             /\ Cardinality(At("popWoken")') = Cardinality(At("popWoken")) + 1
  <2>1. u \in Threads /\ pc[u] = "popBlocked" /\ f[u] = "popBlocked" /\ u \notin Producers
    BY <1>0, <1>4, Places DEF At, Moved, PushPCs
  <2>2. /\ Where(pc', "pushBlocked") = Where(f, "pushBlocked")
        /\ Where(pc', "pushWoken") = Where(f, "pushWoken")
        /\ Where(pc', "popTimedOut") = Where(f, "popTimedOut")
        /\ Cardinality(Where(pc', "popWoken")) = Cardinality(Where(f, "popWoken")) + 1
    BY <1>4, <2>1 DEF Moved
  <2>3. /\ pc' \in [Threads -> PCs]
        /\ \A w \in Threads : w # t /\ w # u => pc'[w] = pc[w]
        /\ pc'[t] = "idle" /\ pc'[u] = "popWoken"
    BY <1>0, <1>4, <2>1, Places DEF Moved
  <2>4. \A w \in Producers : w # t => pc'[w] = pc[w]
    BY <2>1, <2>3, Places
  <2>5. \A w \in Consumers : pc'[w] \in PopPCs
    BY <2>3, Places DEF PopPCs
  <2>. QED  BY <1>1, <1>2, <2>2, <2>3, <2>4, <2>5, Places
<1>. QED  BY <1>0, <1>3, <1>4

(* The mirror image: a pop that leaves wakes one waiting push if there is  *)
(* any and disturbs no other pop.                                          *)
LEMMA PopLeaves ==
  ASSUME TypeOK, NEW t \in Consumers,
         pc[t] \in {"idle", "popWoken", "popTimedOut"},
         LeaveAndNotify(t, "pushBlocked", "pushWoken")
  PROVE  /\ pc' \in [Threads -> PCs]
         /\ pc'[t] = "idle"
         /\ \A u \in Consumers : u # t => pc'[u] = pc[u]
         /\ \A u \in Producers : /\ pc'[u] \in PushPCs
                                 /\ pc'[u] # "idle" => pc[u] # "idle"
         /\ At("popBlocked")' = At("popBlocked")
         /\ Cardinality(At("popWoken")') + Cardinality(At("popTimedOut")')
              >= Cardinality(At("popWoken")) + Cardinality(At("popTimedOut")) - 1
         /\ At("pushBlocked") = {} => At("pushBlocked")' = {}
         /\ At("pushBlocked") # {} =>
              Cardinality(At("pushWoken")') = Cardinality(At("pushWoken")) + 1
<1>0. PICK f : /\ Moved(pc, f, t, "idle")
               /\ \/ At("pushBlocked") = {} /\ pc' = f
                  \/ \E u \in At("pushBlocked") : Moved(f, pc', u, "pushWoken") /\ u # t
  BY Places, LeaveMoves DEF PCs, PushPCs
<1>1. /\ Where(f, "pushBlocked") = At("pushBlocked")
      /\ Where(f, "popBlocked") = At("popBlocked")
      /\ Where(f, "pushWoken") = At("pushWoken")
  BY <1>0, Places DEF Moved
<1>2. Cardinality(Where(f, "popWoken")) + Cardinality(Where(f, "popTimedOut"))
        >= Cardinality(At("popWoken")) + Cardinality(At("popTimedOut")) - 1
  <2>1. CASE pc[t] = "popWoken"
    <3>1. /\ Where(f, "popTimedOut") = At("popTimedOut")
          /\ Cardinality(Where(f, "popWoken")) = Cardinality(At("popWoken")) - 1
      BY <1>0, <2>1, Places DEF Moved
    <3>. QED  BY <3>1, Places, WhereFinite
  <2>2. CASE pc[t] = "popTimedOut"
    <3>1. /\ Where(f, "popWoken") = At("popWoken")
          /\ Cardinality(Where(f, "popTimedOut")) = Cardinality(At("popTimedOut")) - 1
      BY <1>0, <2>2, Places DEF Moved
    <3>. QED  BY <3>1, Places, WhereFinite
  <2>3. CASE pc[t] = "idle"
    <3>1. Where(f, "popWoken") = At("popWoken") /\ Where(f, "popTimedOut") = At("popTimedOut")
      BY <1>0, <2>3, Places DEF Moved
    <3>. QED  BY <3>1, Places, WhereFinite
  <2>. QED  BY <2>1, <2>2, <2>3
<1>3. CASE At("pushBlocked") = {} /\ pc' = f
  BY <1>0, <1>1, <1>2, <1>3, Places DEF Moved
<1>4. ASSUME NEW u \in At("pushBlocked"), Moved(f, pc', u, "pushWoken"), u # t
      PROVE  /\ pc' \in [Threads -> PCs]
             /\ pc'[t] = "idle"
             /\ \A w \in Consumers : w # t => pc'[w] = pc[w]
             /\ \A w \in Producers : /\ pc'[w] \in PushPCs
                                     /\ pc'[w] # "idle" => pc[w] # "idle"
             /\ At("popBlocked")' = At("popBlocked")
             /\ Cardinality(At("popWoken")') + Cardinality(At("popTimedOut")')
                  >= Cardinality(At("popWoken")) + Cardinality(At("popTimedOut")) - 1
             /\ Cardinality(At("pushWoken")') = Cardinality(At("pushWoken")) + 1
  <2>1. u \in Threads /\ pc[u] = "pushBlocked" /\ f[u] = "pushBlocked" /\ u \notin Consumers
    BY <1>0, <1>4, Places DEF At, Moved, PopPCs
  <2>2. /\ Where(pc', "popBlocked") = Where(f, "popBlocked")
        /\ Where(pc', "popWoken") = Where(f, "popWoken")
        /\ Where(pc', "popTimedOut") = Where(f, "popTimedOut")
        /\ Cardinality(Where(pc', "pushWoken")) = Cardinality(Where(f, "pushWoken")) + 1
    BY <1>4, <2>1 DEF Moved
  <2>3. /\ pc' \in [Threads -> PCs]
        /\ \A w \in Threads : w # t /\ w # u => pc'[w] = pc[w]
        /\ pc'[t] = "idle" /\ pc'[u] = "pushWoken"
    BY <1>0, <1>4, <2>1, Places DEF Moved
  <2>4. \A w \in Consumers : w # t => pc'[w] = pc[w]
    BY <2>1, <2>3, Places
  <2>5. \A w \in Producers : pc'[w] \in PushPCs /\ (pc'[w] # "idle" => pc[w] # "idle")
    BY <2>1, <2>3, Places DEF PushPCs
  <2>. QED  BY <1>1, <1>2, <2>2, <2>3, <2>4, <2>5, Places
<1>. QED  BY <1>0, <1>3, <1>4

-----------------------------------------------------------------------------
(* Init establishes the invariant: nobody waits and the queue is empty. *)
LEMMA InitIInv == Init => IInv
<1>. SUFFICES ASSUME Init PROVE IInv
  OBVIOUS
<1>1. TypeOK
  BY DEF Init, TypeOK, PushPCs, PopPCs, Threads
<1>2. CapacityRespected
  BY MaxSizeAssumption DEF Init, CapacityRespected
<1>3. At("pushBlocked") = {} /\ At("popBlocked") = {}
  BY DEF Init, At
<1>. QED  BY <1>1, <1>2, <1>3 DEF IInv, NoLostPushWakeup, NoLostPopWakeup

(* The cardinalities the invariant speaks of are natural numbers. *)
LEMMA Counts ==
  ASSUME TypeOK
  PROVE  \A x : Cardinality(At(x)) \in Nat /\ Cardinality(At(x)') \in Nat
BY Places, WhereFinite

(* A critical section of a push, whether it ends by returning or waiting. *)
LEMMA PushStep ==
  ASSUME IInv, NEW t \in Producers, NEW v \in Values,
         pc[t] \in {"idle", "pushWoken"}, PushSection(t, v)
  PROVE  IInv'
<1>. USE MaxSizeAssumption
<1>1. TypeOK /\ dataQueue \in Seq(Values) /\ Len(dataQueue) \in Nat
  BY DEF IInv, TypeOK
<1>2. value' = [value EXCEPT ![t] = v] /\ t \in Threads
  BY <1>1, Places DEF PushSection
<1>3. CASE NotFull /\ dataQueue' = Append(dataQueue, v)
             /\ LeaveAndNotify(t, "popBlocked", "popWoken")
  <2>. USE <1>1, <1>3
  <2>1. Len(dataQueue') = Len(dataQueue) + 1 /\ dataQueue' \in Seq(Values)
    OBVIOUS
  <2>2. TypeOK'
    BY <1>2, <2>1, PushLeaves DEF TypeOK, PCs, PushPCs
  <2>3. CapacityRespected'
    BY <2>1 DEF NotFull, CapacityRespected
  <2>4. NoLostPushWakeup'
    BY <2>1, Counts, PushLeaves DEF IInv, NoLostPushWakeup
  <2>5. NoLostPopWakeup'
    <3>1. /\ Cardinality(At("popTimedOut")') = Cardinality(At("popTimedOut"))
          /\ At("popBlocked") = {} => At("popBlocked")' = {}
          /\ At("popBlocked") # {} =>
               Cardinality(At("popWoken")') = Cardinality(At("popWoken")) + 1
      BY PushLeaves
    <3>0. /\ Cardinality(At("popWoken")) \in Nat /\ Cardinality(At("popTimedOut")) \in Nat
          /\ Cardinality(At("popWoken")') \in Nat /\ Cardinality(At("popTimedOut")') \in Nat
      BY Counts
    <3>2. CASE At("popBlocked") = {}
      BY <3>1, <3>2 DEF NoLostPopWakeup
    <3>3. CASE At("popBlocked") # {}
      BY <2>1, <3>0, <3>1, <3>3 DEF IInv, NoLostPopWakeup
    <3>. QED  BY <3>2, <3>3
  <2>. QED  BY <2>2, <2>3, <2>4, <2>5 DEF IInv
<1>4. CASE ~NotFull /\ pc' = [pc EXCEPT ![t] = "pushBlocked"] /\ UNCHANGED dataQueue
  <2>1. Moved(pc, pc', t, "pushBlocked")
    BY <1>1, <1>2, <1>4, Places, MoveOne DEF PCs, PushPCs
  <2>2. TypeOK'
    <3>1. /\ pc' \in [Threads -> PCs] /\ pc'[t] = "pushBlocked"
          /\ \A u \in Threads : u # t => pc'[u] = pc[u]
      BY <2>1 DEF Moved
    <3>2. /\ \A u \in Producers : pc'[u] \in PushPCs
          /\ \A u \in Consumers : pc'[u] \in PopPCs
      BY <1>1, <3>1, Places DEF PushPCs
    <3>3. value'[t] = v /\ \A u \in Threads : u # t => value'[u] = value[u]
      BY <1>1, <1>2 DEF TypeOK
    <3>4. value' \in [Threads -> Values \cup {NoValue}]
      BY <1>1, <1>2 DEF TypeOK
    <3>5. \A u \in Producers : pc'[u] # "idle" => value'[u] \in Values
      BY <1>1, <3>1, <3>3, Places DEF TypeOK
    <3>. QED  BY <1>1, <1>4, <3>1, <3>2, <3>4, <3>5 DEF TypeOK, PCs
  <2>3. CapacityRespected'
    BY <1>4 DEF IInv, CapacityRespected
  <2>4. NoLostPushWakeup'
    BY <1>1, <1>4, Counts DEF NotFull, NoLostPushWakeup
  <2>5. /\ At("popBlocked")' = At("popBlocked")
        /\ At("popWoken")' = At("popWoken")
        /\ At("popTimedOut")' = At("popTimedOut")
    BY <1>1, <2>1, Places DEF Moved
  <2>6. NoLostPopWakeup'
    BY <1>4, <2>5 DEF IInv, NoLostPopWakeup
  <2>. QED  BY <2>2, <2>3, <2>4, <2>6 DEF IInv
<1>. QED  BY <1>3, <1>4 DEF PushSection

(* A critical section of a pop that takes the front element. *)
LEMMA TakeFrontStep ==
  ASSUME IInv, NEW t \in Consumers,
         pc[t] \in {"idle", "popWoken", "popTimedOut"}, TakeFront(t)
  PROVE  IInv'
<1>. USE MaxSizeAssumption
<1>1. TypeOK /\ dataQueue \in Seq(Values) /\ Len(dataQueue) \in Nat
  BY DEF IInv, TypeOK
<1>2. /\ dataQueue # <<>> /\ dataQueue' = Tail(dataQueue)
      /\ value' = [value EXCEPT ![t] = Head(dataQueue)]
      /\ LeaveAndNotify(t, "pushBlocked", "pushWoken")
  BY DEF TakeFront
<1>. USE <1>1, <1>2
<1>3. /\ Len(dataQueue') = Len(dataQueue) - 1 /\ dataQueue' \in Seq(Values)
      /\ Head(dataQueue) \in Values
  OBVIOUS
<1>4. value' \in [Threads -> Values \cup {NoValue}]
        /\ \A u \in Producers : value'[u] = value[u]
  BY <1>3, Places DEF TypeOK
<1>5. TypeOK'
  BY <1>3, <1>4, PopLeaves DEF TypeOK, PCs, PopPCs
<1>6. CapacityRespected'
  BY <1>3 DEF IInv, CapacityRespected
<1>7. NoLostPushWakeup'
  <2>1. /\ At("pushBlocked") = {} => At("pushBlocked")' = {}
        /\ At("pushBlocked") # {} =>
             Cardinality(At("pushWoken")') = Cardinality(At("pushWoken")) + 1
    BY PopLeaves
  <2>0. Cardinality(At("pushWoken")) \in Nat
    BY Counts
  <2>2. CASE At("pushBlocked") = {}
    BY <2>1, <2>2 DEF NoLostPushWakeup
  <2>3. CASE At("pushBlocked") # {}
    BY <1>3, <2>0, <2>1, <2>3 DEF IInv, NoLostPushWakeup
  <2>. QED  BY <2>2, <2>3
<1>8. NoLostPopWakeup'
  <2>1. /\ At("popBlocked")' = At("popBlocked")
        /\ Cardinality(At("popWoken")') + Cardinality(At("popTimedOut")')
             >= Cardinality(At("popWoken")) + Cardinality(At("popTimedOut")) - 1
    BY PopLeaves
  <2>2. /\ Cardinality(At("popWoken")) \in Nat /\ Cardinality(At("popTimedOut")) \in Nat
        /\ Cardinality(At("popWoken")') \in Nat /\ Cardinality(At("popTimedOut")') \in Nat
    BY Counts
  <2>. QED  BY <1>3, <2>1, <2>2 DEF IInv, NoLostPopWakeup
<1>. QED  BY <1>5, <1>6, <1>7, <1>8 DEF IInv

(* A step of a pop that leaves the queue alone: it found the queue empty, *)
(* or it moved towards its time limit.                                    *)
LEMMA PopMoves ==
  ASSUME IInv, NEW t \in Consumers, NEW w \in PopPCs,
         pc' = [pc EXCEPT ![t] = w], UNCHANGED dataQueue,
         \/ UNCHANGED value
         \/ value' = [value EXCEPT ![t] = NoValue],
         \/ dataQueue = <<>>
         \/ pc[t] \in {"popBlocked", "popWoken"} /\ w = "popTimedOut"
         \/ pc[t] = "popBlocked" /\ w = "popWoken"
  PROVE  IInv'
<1>1. TypeOK /\ Moved(pc, pc', t, w)
  BY Places, MoveOne DEF IInv, PCs
<1>. USE <1>1, Counts
<1>2. TypeOK'
  BY Places DEF TypeOK, Moved, PCs
<1>3. CapacityRespected'
  BY DEF IInv, CapacityRespected
<1>4. At("pushBlocked")' = At("pushBlocked") /\ At("pushWoken")' = At("pushWoken")
  BY Places DEF Moved, PopPCs
<1>5. NoLostPushWakeup'
  BY <1>4 DEF IInv, NoLostPushWakeup
<1>6. NoLostPopWakeup'
  <2>1. CASE dataQueue = <<>>
    BY <2>1 DEF NoLostPopWakeup
  <2>2. CASE pc[t] = "popWoken" /\ w = "popTimedOut"
    <3>1. /\ At("popBlocked")' = At("popBlocked")
          /\ Cardinality(At("popWoken")') = Cardinality(At("popWoken")) - 1
          /\ Cardinality(At("popTimedOut")') = Cardinality(At("popTimedOut")) + 1
      <4>1. /\ Where(pc', "popBlocked") = Where(pc, "popBlocked")
            /\ Cardinality(Where(pc', "popWoken")) = Cardinality(Where(pc, "popWoken")) - 1
            /\ Cardinality(Where(pc', "popTimedOut"))
                 = Cardinality(Where(pc, "popTimedOut")) + 1
        BY <2>2 DEF Moved
      <4>. QED  BY <4>1, Places
    <3>. QED  BY <3>1, Counts DEF IInv, NoLostPopWakeup
  <2>3. CASE pc[t] = "popBlocked" /\ w = "popTimedOut"
    <3>1. /\ At("popBlocked")' \subseteq At("popBlocked")
          /\ At("popWoken")' = At("popWoken")
          /\ Cardinality(At("popTimedOut")') = Cardinality(At("popTimedOut")) + 1
      <4>1. /\ Where(pc', "popBlocked") \subseteq Where(pc, "popBlocked")
            /\ Where(pc', "popWoken") = Where(pc, "popWoken")
            /\ Cardinality(Where(pc', "popTimedOut")) = Cardinality(Where(pc, "popTimedOut")) + 1
        BY <2>3 DEF Moved
      <4>. QED  BY <4>1, Places
    <3>2. Len(dataQueue) \in Nat
      BY DEF TypeOK
    <3>. QED  BY <3>1, <3>2, Counts DEF IInv, NoLostPopWakeup
  <2>4. CASE pc[t] = "popBlocked" /\ w = "popWoken"
    <3>1. /\ At("popBlocked")' \subseteq At("popBlocked")
          /\ At("popTimedOut")' = At("popTimedOut")
          /\ Cardinality(At("popWoken")') = Cardinality(At("popWoken")) + 1
      <4>1. /\ Where(pc', "popBlocked") \subseteq Where(pc, "popBlocked")
            /\ Where(pc', "popTimedOut") = Where(pc, "popTimedOut")
            /\ Cardinality(Where(pc', "popWoken")) = Cardinality(Where(pc, "popWoken")) + 1
        BY <2>4 DEF Moved
      <4>. QED  BY <4>1, Places
    <3>2. Len(dataQueue) \in Nat
      BY DEF TypeOK
    <3>. QED  BY <3>1, <3>2, Counts DEF IInv, NoLostPopWakeup
  <2>. QED  BY <2>1, <2>2, <2>3, <2>4
<1>. QED  BY <1>2, <1>3, <1>5, <1>6 DEF IInv

(* A push woken without a signal. *)
LEMMA SpuriousPush ==
  ASSUME IInv, NEW t \in Threads, pc[t] = "pushBlocked",
         pc' = [pc EXCEPT ![t] = "pushWoken"], UNCHANGED <<dataQueue, value>>
  PROVE  IInv'
<1>. USE MaxSizeAssumption
<1>1. TypeOK /\ Moved(pc, pc', t, "pushWoken") /\ t \in Producers
  BY Places, MoveOne DEF IInv, PCs, PushPCs, PopPCs, Threads
<1>. USE <1>1, Counts
<1>2. TypeOK'
  BY Places DEF TypeOK, Moved, PCs, PushPCs
<1>3. CapacityRespected'
  BY DEF IInv, CapacityRespected
<1>4. /\ At("pushBlocked")' \subseteq At("pushBlocked")
      /\ Cardinality(At("pushWoken")') = Cardinality(At("pushWoken")) + 1
      /\ At("popBlocked")' = At("popBlocked")
      /\ At("popWoken")' = At("popWoken")
      /\ At("popTimedOut")' = At("popTimedOut")
  <2>1. /\ Where(pc', "pushBlocked") \subseteq Where(pc, "pushBlocked")
        /\ Cardinality(Where(pc', "pushWoken")) = Cardinality(Where(pc, "pushWoken")) + 1
        /\ Where(pc', "popBlocked") = Where(pc, "popBlocked")
        /\ Where(pc', "popWoken") = Where(pc, "popWoken")
        /\ Where(pc', "popTimedOut") = Where(pc, "popTimedOut")
    BY DEF Moved
  <2>. QED  BY <2>1, Places
<1>5. NoLostPushWakeup'
  <2>1. Len(dataQueue) \in Nat
    BY DEF TypeOK
  <2>. QED  BY <1>4, <2>1 DEF IInv, NoLostPushWakeup
<1>6. NoLostPopWakeup'
  BY <1>4 DEF IInv, NoLostPopWakeup
<1>. QED  BY <1>2, <1>3, <1>5, <1>6 DEF IInv

(* Every step preserves the invariant: one case per action. *)
LEMMA NextIInv == IInv /\ [Next]_vars => IInv'
<1>. SUFFICES ASSUME IInv, [Next]_vars PROVE IInv'
  OBVIOUS
<1>0. TypeOK
  BY DEF IInv
<1>1. ASSUME NEW t \in Producers, NEW v \in Values, waitAndPush(t, v) PROVE IInv'
  BY <1>1, PushStep DEF waitAndPush
<1>2. ASSUME NEW t \in Producers, ResumePush(t) PROVE IInv'
  <2>1. value[t] \in Values
    BY <1>0, <1>2 DEF ResumePush, TypeOK
  <2>. QED  BY <1>2, <2>1, PushStep DEF ResumePush
<1>3. ASSUME NEW t \in Consumers, waitAndPop(t) PROVE IInv'
  BY <1>3, TakeFrontStep, PopMoves DEF waitAndPop, BlockPop, PopPCs
<1>4. ASSUME NEW t \in Consumers, tryPop(t) PROVE IInv'
  BY <1>4, TakeFrontStep, PopMoves DEF tryPop, ReturnFalse, PopPCs
<1>5. ASSUME NEW t \in Consumers, ResumePop(t) PROVE IInv'
  BY <1>5, TakeFrontStep, PopMoves DEF ResumePop, BlockPop, PopPCs
<1>6. ASSUME NEW t \in Consumers, ExpirePop(t) PROVE IInv'
  BY <1>6, TakeFrontStep, PopMoves DEF ExpirePop, ReturnFalse, PopPCs
<1>7. ASSUME NEW t \in Consumers, TimeOut(t) PROVE IInv'
  BY <1>7, PopMoves DEF TimeOut, PopPCs
<1>8. ASSUME NEW t \in Threads, SpuriousWakeup(t) PROVE IInv'
  <2>1. CASE pc[t] = "pushBlocked" /\ pc' = [pc EXCEPT ![t] = "pushWoken"]
    BY <1>8, <2>1, SpuriousPush DEF SpuriousWakeup
  <2>2. CASE pc[t] = "popBlocked" /\ pc' = [pc EXCEPT ![t] = "popWoken"]
    <3>1. t \in Consumers
      BY <1>0, <2>2, Places DEF Threads, PushPCs
    <3>. QED  BY <1>8, <2>2, <3>1, PopMoves DEF SpuriousWakeup, PopPCs
  <2>. QED  BY <1>8, <2>1, <2>2 DEF SpuriousWakeup
<1>9. CASE UNCHANGED vars
  BY <1>9 DEF vars, IInv, TypeOK, CapacityRespected, NoLostPushWakeup,
              NoLostPopWakeup, At
<1>. QED  BY <1>1, <1>2, <1>3, <1>4, <1>5, <1>6, <1>7, <1>8, <1>9 DEF Next

LEMMA SpecIInv == Spec => []IInv
BY InitIInv, NextIInv, PTL DEF Spec

(* Threads and elements are always where the code can put them. *)
THEOREM TypeCorrect == Spec => []TypeOK
<1>1. IInv => TypeOK
  BY DEF IInv
<1>. QED  BY <1>1, SpecIInv, PTL

(* maxSize_ bounds the queue for any number of competing pushes (line 46). *)
THEOREM CapacityHolds == Spec => []CapacityRespected
<1>1. IInv => CapacityRespected
  BY DEF IInv
<1>. QED  BY <1>1, SpecIInv, PTL

(* No push sleeps without a time limit while a slot is free and nobody has *)
(* been woken to fill it: notify_one once per pop is enough (26, 37, 46).  *)
THEOREM PushWakeupsHold == Spec => []NoLostPushWakeup
<1>1. IInv => NoLostPushWakeup
  BY DEF IInv
<1>. QED  BY <1>1, SpecIInv, PTL

(* No pop sleeps while an element is queued and nobody has been woken to   *)
(* take it: notify_one once per push is enough (22, 48).                   *)
THEOREM PopWakeupsHold == Spec => []NoLostPopWakeup
<1>1. IInv => NoLostPopWakeup
  BY DEF IInv
<1>. QED  BY <1>1, SpecIInv, PTL
-----------------------------------------------------------------------------
(* The refinement: the abstract queue's op follows pc. *)

OpOf(where) == CASE where = "idle" -> "idle"
                 [] where \in {"pushBlocked", "pushWoken"} -> "pushing"
                 [] OTHER -> "popping"

LEMMA OpFollows ==
  /\ AbstractOp = [t \in Threads |-> OpOf(pc[t])]
  /\ AbstractOp' = [t \in Threads |-> OpOf(pc'[t])]
BY DEF AbstractOp, OpOf

(* One thread moves, perhaps to where its call still waits. *)
LEMMA OpMoves ==
  ASSUME TypeOK, NEW t \in Threads, NEW w, pc' = [pc EXCEPT ![t] = w]
  PROVE  AbstractOp' = [AbstractOp EXCEPT ![t] = OpOf(w)]
<1>1. pc'[t] = w /\ \A u \in Threads : u # t => pc'[u] = pc[u]
  BY DEF TypeOK
<1>. QED  BY <1>1, OpFollows

(* A signal is invisible: the call that is woken goes on waiting. *)
LEMMA OpLeaves ==
  ASSUME TypeOK, NEW t \in Threads, NEW from, NEW woken, OpOf(woken) = OpOf(from),
         pc[t] # from, LeaveAndNotify(t, from, woken)
  PROVE  AbstractOp' = [AbstractOp EXCEPT ![t] = "idle"]
<1>1. CASE At(from) = {}
  BY <1>1, OpMoves DEF LeaveAndNotify, OpOf
<1>2. CASE At(from) # {}
  <2>1. PICK u \in At(from) : pc' = [pc EXCEPT ![t] = "idle", ![u] = woken]
    BY <1>2 DEF LeaveAndNotify
  <2>2. u \in Threads /\ u # t /\ pc[u] = from
    BY DEF At
  <2>3. pc'[t] = "idle" /\ pc'[u] = woken /\ \A x \in Threads : x \notin {t, u} => pc'[x] = pc[x]
    BY <2>1, <2>2 DEF TypeOK
  <2>4. \A x \in Threads : OpOf(pc'[x]) = IF x = t THEN "idle" ELSE OpOf(pc[x])
    BY <2>2, <2>3 DEF OpOf
  <2>. QED  BY <2>4, OpFollows
<1>. QED  BY <1>1, <1>2

LEMMA InitRefines == Init => Abstract!Init
BY DEF Init, Abstract!Init, AbstractOp, Abstract!Threads, Threads

(* A push takes effect or waits. *)
LEMMA PushRefines ==
  ASSUME TypeOK, NEW t \in Producers, NEW v \in Values, PushSection(t, v),
         pc[t] = "idle" \/ (pc[t] = "pushWoken" /\ v = value[t])
  PROVE  [Abstract!Next]_(Abstract!vars)
<1>1. t \in Threads /\ value' = [value EXCEPT ![t] = v] /\ AbstractOp[t] = OpOf(pc[t])
  BY OpFollows DEF Threads, PushSection
<1>2. CASE NotFull /\ dataQueue' = Append(dataQueue, v)
             /\ LeaveAndNotify(t, "popBlocked", "popWoken")
  <2>1. AbstractOp' = [AbstractOp EXCEPT ![t] = "idle"]
    BY <1>1, <1>2, OpLeaves DEF OpOf
  <2>2. Abstract!Append1(t, v)
    BY <1>1, <1>2, <2>1 DEF Abstract!Append1, Abstract!HasRoom, NotFull
  <2>3. CASE pc[t] = "idle"
    BY <1>1, <2>2, <2>3 DEF OpOf, Abstract!Push, Abstract!Next
  <2>4. CASE pc[t] = "pushWoken" /\ v = value[t]
    BY <1>1, <2>2, <2>4 DEF OpOf, Abstract!CompletePush, Abstract!Next
  <2>. QED  BY <2>3, <2>4
<1>3. CASE ~NotFull /\ pc' = [pc EXCEPT ![t] = "pushBlocked"] /\ UNCHANGED dataQueue
  <2>1. AbstractOp' = [AbstractOp EXCEPT ![t] = "pushing"]
    BY <1>1, <1>3, OpMoves DEF OpOf
  <2>2. CASE pc[t] = "idle"
    BY <1>1, <1>3, <2>1, <2>2
       DEF OpOf, NotFull, Abstract!HasRoom, Abstract!WaitToPush, Abstract!Next
  <2>3. CASE pc[t] = "pushWoken" /\ v = value[t]
    <3>1. AbstractOp' = AbstractOp /\ value' = value
      BY <1>1, <2>1, <2>3, OpFollows DEF OpOf, TypeOK
    <3>. QED  BY <1>3, <3>1 DEF Abstract!vars
  <2>. QED  BY <2>2, <2>3
<1>. QED  BY <1>2, <1>3 DEF PushSection

(* A pop takes the front element or finds the queue empty. *)
LEMMA PopRefines ==
  ASSUME TypeOK, NEW t \in Consumers, TakeFront(t) \/ ReturnFalse(t),
         pc[t] \in {"idle", "popWoken", "popTimedOut"}
  PROVE  Abstract!Next
<1>1. t \in Threads /\ AbstractOp[t] = OpOf(pc[t])
  BY OpFollows DEF Threads
<1>2. AbstractOp' = [AbstractOp EXCEPT ![t] = "idle"]
  BY <1>1, OpLeaves, OpMoves DEF TakeFront, ReturnFalse, OpOf
<1>3. Abstract!Take(t) \/ Abstract!FindEmpty(t)
  BY <1>2 DEF TakeFront, ReturnFalse, Abstract!Take, Abstract!FindEmpty
<1>4. AbstractOp[t] \in {"idle", "popping"}
  BY <1>1 DEF OpOf
<1>. QED  BY <1>3, <1>4 DEF Abstract!Pop, Abstract!CompletePop, Abstract!Next

LEMMA BlockRefines ==
  ASSUME TypeOK, NEW t \in Consumers, BlockPop(t), pc[t] \in {"idle", "popWoken"}
  PROVE  [Abstract!Next]_(Abstract!vars)
<1>1. t \in Threads /\ AbstractOp[t] = OpOf(pc[t])
  BY OpFollows DEF Threads
<1>2. AbstractOp' = [AbstractOp EXCEPT ![t] = "popping"]
  BY <1>1, OpMoves DEF BlockPop, OpOf
<1>3. CASE pc[t] = "idle"
  BY <1>1, <1>2, <1>3 DEF BlockPop, OpOf, Abstract!WaitToPop, Abstract!Next
<1>4. CASE pc[t] = "popWoken"
  <2>1. AbstractOp' = AbstractOp
    BY <1>1, <1>2, <1>4, OpFollows DEF OpOf
  <2>. QED  BY <2>1 DEF BlockPop, Abstract!vars
<1>. QED  BY <1>3, <1>4

(* Every critical section is one step of the abstract queue or none. *)
LEMMA StepRefines == TypeOK /\ [Next]_vars => [Abstract!Next]_(Abstract!vars)
<1>. SUFFICES ASSUME TypeOK, [Next]_vars PROVE [Abstract!Next]_(Abstract!vars)
  OBVIOUS
<1>1. ASSUME NEW t \in Producers, NEW v \in Values, waitAndPush(t, v)
      PROVE  [Abstract!Next]_(Abstract!vars)
  BY <1>1, PushRefines DEF waitAndPush
<1>2. ASSUME NEW t \in Producers, ResumePush(t) PROVE [Abstract!Next]_(Abstract!vars)
  <2>1. value[t] \in Values
    BY <1>2 DEF ResumePush, TypeOK
  <2>. QED  BY <1>2, <2>1, PushRefines DEF ResumePush
<1>3. ASSUME NEW t \in Consumers,
             waitAndPop(t) \/ tryPop(t) \/ ResumePop(t) \/ ExpirePop(t)
      PROVE  [Abstract!Next]_(Abstract!vars)
  BY <1>3, PopRefines, BlockRefines DEF waitAndPop, tryPop, ResumePop, ExpirePop
<1>4. ASSUME NEW t \in Threads, NEW w,
             OpOf(w) = OpOf(pc[t]), pc' = [pc EXCEPT ![t] = w], UNCHANGED <<dataQueue, value>>
      PROVE  UNCHANGED Abstract!vars
  <2>1. AbstractOp' = AbstractOp
    BY <1>4, OpMoves, OpFollows
  <2>. QED  BY <1>4, <2>1 DEF Abstract!vars
<1>5. ASSUME NEW t \in Consumers, TimeOut(t) PROVE [Abstract!Next]_(Abstract!vars)
  <2>1. t \in Threads /\ OpOf("popTimedOut") = OpOf(pc[t])
    BY <1>5 DEF Threads, TimeOut, OpOf
  <2>. QED  BY <1>4, <1>5, <2>1 DEF TimeOut
<1>6. ASSUME NEW t \in Threads, SpuriousWakeup(t) PROVE [Abstract!Next]_(Abstract!vars)
  <2>1. PICK w \in {"pushWoken", "popWoken"} :
          OpOf(w) = OpOf(pc[t]) /\ pc' = [pc EXCEPT ![t] = w]
    BY <1>6 DEF SpuriousWakeup, OpOf
  <2>. QED  BY <1>4, <1>6, <2>1 DEF SpuriousWakeup
<1>7. CASE UNCHANGED vars
  <2>1. AbstractOp' = AbstractOp
    BY <1>7, OpFollows DEF vars
  <2>. QED  BY <1>7, <2>1 DEF vars, Abstract!vars
<1>. QED  BY <1>1, <1>2, <1>3, <1>5, <1>6, <1>7 DEF Next

(* For any number of threads and any capacity, the locked queue with its   *)
(* condition variables does only what the abstract queue may do: every     *)
(* call takes effect once, at one moment between call and return, and      *)
(* false is returned only on an empty queue (lines 19-49).                 *)
THEOREM QueueIsLinearizable == Spec => Abstract!SafetySpec
<1>1. IInv => TypeOK
  BY DEF IInv
<1>. QED  BY <1>1, SpecIInv, InitRefines, StepRefines, PTL DEF Spec, Abstract!SafetySpec
=============================================================================
