------------------------- MODULE DataDispatcherProofs -------------------------
(***************************************************************************)
(* Proofs about DataDispatcher, for any notifiers, recipients and bounds.  *)
(***************************************************************************)
EXTENDS DataDispatcher, SequenceTheorems, TLAPS

-----------------------------------------------------------------------------
(* Type correctness.  A registration records how many dispatches have begun,
   which is a natural number because the queue is no longer than the data
   accepted, and shorter while the worker holds a datum; the loop over the
   callbacks counts from 1. *)

CountInv ==
  /\ Len(sim_vars_) <= Len(accepted)
  /\ worker_ \in {"dispatch", "deliver"} =>
       /\ Len(sim_vars_) < Len(accepted)
       /\ raw_data # 0
  /\ worker_ = "deliver" => next >= 1

TypeInv == TypeOK /\ CountInv

\* The initial state is type correct.
LEMMA InitTypeInv == Init => TypeInv
<1> SUFFICES ASSUME Init PROVE TypeInv
  OBVIOUS
<1>1. TypeOK
  <2>1. callbacks_lock_ \in BOOLEAN
    BY Zenon DEF Init
  <2>2. QED
    BY <2>1, DispatcherAssumption
    DEF DispatcherAssumption, Init, TypeOK, WorkerStates
<1>2. CountInv
  BY DEF Init, CountInv
<1>3. QED
  BY <1>1, <1>2 DEF TypeInv

\* Every step preserves type correctness.
LEMMA NextTypeInv == TypeInv /\ [Next]_vars => TypeInv'
<1> SUFFICES ASSUME TypeInv, [Next]_vars PROVE TypeInv'
  OBVIOUS
<1> USE DispatcherAssumption
    DEF DispatcherAssumption, TypeInv, CountInv, TypeOK, WorkerStates,
        ownerVars, notifyVars, queueVars, clientVars, dispatchVars
<1>1. CASE Start
  BY <1>1 DEF Start, IsRunning
<1>2. CASE StopNotify
  BY <1>2 DEF StopNotify
<1>3. CASE StopJoin
  BY <1>3 DEF StopJoin
<1>4. ASSUME NEW n \in Notifiers, CallNotify(n) PROVE TypeInv'
  BY <1>4 DEF CallNotify
<1>5. ASSUME NEW n \in Notifiers, Notify(n) PROVE TypeInv'
  <2>1. calling[n] \in 1..MaxNotify
    BY <1>5 DEF Notify
  <2>2. /\ sim_vars_' \in Seq(1..MaxNotify)
        /\ accepted' \in Seq(1..MaxNotify)
        /\ Len(sim_vars_') = Len(sim_vars_) + 1
        /\ Len(accepted') = Len(accepted) + 1
    BY <1>5, <2>1, AppendProperties DEF Notify
  <2>3. QED
    BY <1>5, <2>2 DEF Notify
<1>6. ASSUME NEW r \in Recipients, AddRecepient(r) PROVE TypeInv'
  <2>1. dispatch_callbacks_' \in Seq(Recipients)
    BY <1>6, AppendProperties DEF AddRecepient
  <2>2. Begun \in Nat
    BY LenProperties DEF Begun
  <2>3. QED
    BY <1>6, <2>1, <2>2 DEF AddRecepient
<1>7. CASE TestStop
  BY <1>7 DEF TestStop
<1>8. CASE LockAndAwait
  BY <1>8 DEF LockAndAwait
<1>9. CASE ContinueWhenEmpty
  BY <1>9 DEF ContinueWhenEmpty
<1>10. CASE TakeFront
  <2>1. /\ raw_data' \in 1..MaxNotify
        /\ sim_vars_' \in Seq(1..MaxNotify)
        /\ Len(sim_vars_') = Len(sim_vars_) - 1
    BY <1>10, HeadTailProperties DEF TakeFront
  <2>2. QED
    BY <1>10, <2>1, LenProperties DEF TakeFront
<1>11. CASE BeginDispatch
  BY <1>11 DEF BeginDispatch
<1>12. CASE InvokeCallback
  <2>1. dispatch_callbacks_[next] \in Recipients
    BY <1>12 DEF InvokeCallback
  <2>2. \A r \in Recipients : Append(received[r], raw_data) \in Seq(1..MaxNotify)
    BY <1>12, AppendProperties DEF InvokeCallback
  <2>3. received' \in [Recipients -> Seq(1..MaxNotify)]
    BY <1>12, <2>1, <2>2 DEF InvokeCallback
  <2>4. QED
    BY <1>12, <2>3 DEF InvokeCallback
<1>13. CASE EndDispatch
  <2>1. callbacks_lock_' \in BOOLEAN
    BY <1>13, Zenon DEF EndDispatch
  <2>2. QED
    BY <1>13, <2>1 DEF EndDispatch
<1>14. CASE UNCHANGED vars
  BY <1>14 DEF vars
<1>15. QED
  BY <1>1, <1>2, <1>3, <1>4, <1>5, <1>6, <1>7, <1>8, <1>9, <1>10, <1>11, <1>12,
     <1>13, <1>14 DEF Next, RunWorker

\* The members of DataDispatcherImpl and the locals of its worker keep their
\* types, whatever the threads do.
THEOREM TypeCorrect == Spec => []TypeOK
<1>1. Spec => []TypeInv
  BY InitTypeInv, NextTypeInv, PTL DEF Spec
<1>2. TypeInv => TypeOK
  BY DEF TypeInv
<1>3. QED
  BY <1>1, <1>2, PTL

-----------------------------------------------------------------------------
(* The two locks.  A worker leaves data_lock_ held in one place only, the
   `continue` on an empty queue.  Await returns on an empty queue only after
   stop was notified, and stop is reset by Start alone, with a new worker: so
   the worker that kept the lock runs into the end of its loop. *)

\* Who holds callbacks_lock_ and data_lock_, and in which state.
LockInv ==
  /\ callbacks_lock_ = (worker_ = "deliver")
  /\ IsRunning => starts >= 1
  /\ worker_ = "locked" => data_lock_ = starts /\ DataNotEmptyOrStop
  /\ worker_ = "waiting" => sim_vars_ = <<>>
  /\ data_lock_ # 0 /\ worker_ # "locked"
       => /\ sim_vars_ = <<>>
          /\ data_lock_ = starts
               => HasBeenNotified /\ worker_ \in {"top", "returned", "none"}

\* No lock is held at first.
LEMMA InitLockInv == Init => LockInv
  BY DEF Init, LockInv, IsRunning, DataNotEmptyOrStop

\* Every step preserves the lock invariant.
LEMMA NextLockInv == TypeInv /\ LockInv /\ [Next]_vars => LockInv'
<1> SUFFICES ASSUME TypeInv, LockInv, [Next]_vars PROVE LockInv'
  OBVIOUS
<1> USE DispatcherAssumption
    DEF DispatcherAssumption, TypeInv, TypeOK, WorkerStates, LockInv, IsRunning,
        DataNotEmptyOrStop, HasBeenNotified,
        ownerVars, notifyVars, queueVars, clientVars, dispatchVars
<1>1. CASE Start
  BY <1>1 DEF Start
<1>2. CASE StopNotify
  BY <1>2 DEF StopNotify
<1>3. CASE StopJoin
  BY <1>3 DEF StopJoin
<1>4. ASSUME NEW n \in Notifiers, CallNotify(n) PROVE LockInv'
  BY <1>4 DEF CallNotify
<1>5. ASSUME NEW n \in Notifiers, Notify(n) PROVE LockInv'
  <2>1. worker_ # "locked" /\ worker_' # "waiting" /\ worker_' # "locked"
    BY <1>5 DEF Notify
  <2>2. (worker_' = "deliver") <=> (worker_ = "deliver")
    BY <1>5 DEF Notify
  <2>3. QED
    BY <1>5, <2>1, <2>2 DEF Notify
<1>6. ASSUME NEW r \in Recipients, AddRecepient(r) PROVE LockInv'
  BY <1>6 DEF AddRecepient
<1>7. CASE TestStop
  BY <1>7 DEF TestStop
<1>8. CASE LockAndAwait
  BY <1>8 DEF LockAndAwait
<1>9. CASE ContinueWhenEmpty
  BY <1>9 DEF ContinueWhenEmpty
<1>10. CASE TakeFront
  BY <1>10 DEF TakeFront
<1>11. CASE BeginDispatch
  BY <1>11 DEF BeginDispatch
<1>12. CASE InvokeCallback
  BY <1>12 DEF InvokeCallback
<1>13. CASE EndDispatch
  BY <1>13 DEF EndDispatch
<1>14. CASE UNCHANGED vars
  BY <1>14 DEF vars
<1>15. QED
  BY <1>1, <1>2, <1>3, <1>4, <1>5, <1>6, <1>7, <1>8, <1>9, <1>10, <1>11, <1>12,
     <1>13, <1>14 DEF Next, RunWorker

\* The lock invariant holds throughout.
LEMMA LocksHeldRight == Spec => [](TypeInv /\ LockInv)
  BY InitTypeInv, NextTypeInv, InitLockInv, NextLockInv, PTL DEF Spec

\* A worker never comes to data_lock_ holding it: the non-reentrant mutex is
\* never locked twice by one thread.
THEOREM WorkerNeverDeadlocksOnItself == Spec => []NoSelfDeadlock
<1>1. TypeInv /\ LockInv => NoSelfDeadlock
  BY DEF TypeInv, TypeOK, LockInv, IsRunning, NoSelfDeadlock
<1>2. QED
  BY <1>1, LocksHeldRight, PTL

\* A lock left behind shuts in no data, and its owner has been told to stop.
THEOREM LeakedLockShutsInNothing == Spec => []LockLeaksOnlyWhenEmpty
<1>1. TypeInv /\ LockInv => LockLeaksOnlyWhenEmpty
  BY DEF LockInv, LockLeaksOnlyWhenEmpty
<1>2. QED
  BY <1>1, LocksHeldRight, PTL

-----------------------------------------------------------------------------
(* Delivery.  The queue is the end of the accepted data, the worker holds the
   last datum taken, and every callback has received everything up to it, or up
   to the one before when the round has not come to it yet. *)

\* How far into the accepted data the i-th callback has got.
Reached(i) ==
  IF worker_ = "dispatch" \/ (worker_ = "deliver" /\ i >= next)
    THEN Taken - 1
    ELSE Taken

QueueInv ==
  /\ \A i \in 1..Len(sim_vars_) : sim_vars_[i] = accepted[Taken + i]
  /\ worker_ \in {"dispatch", "deliver"} => raw_data = accepted[Taken]

RegistrationInv ==
  /\ \A i, j \in 1..Len(dispatch_callbacks_) :
       dispatch_callbacks_[i] = dispatch_callbacks_[j] => i = j
  /\ worker_ = "deliver" => next <= Len(dispatch_callbacks_) + 1
  /\ \A r \in Recipients \ Registered : received[r] = <<>> /\ since[r] = 0

RoundInv ==
  \A i \in 1..Len(dispatch_callbacks_) :
    since[dispatch_callbacks_[i]] + Len(received[dispatch_callbacks_[i]]) = Reached(i)

DeliveryInv == QueueInv /\ RegistrationInv /\ RoundInv /\ InOrderDelivery

Inv == TypeInv /\ LockInv /\ DeliveryInv

\* Nothing is delivered at first.
LEMMA InitDeliveryInv == Init => DeliveryInv
  BY EmptySeq DEF Init, DeliveryInv, QueueInv, RegistrationInv, RoundInv,
     InOrderDelivery, Registered, Taken, Reached

\* A step that leaves the queue, the clients and the round alone, and moves the
\* worker neither into a dispatch nor out of one, preserves the invariant.
LEMMA QuietStep ==
  ASSUME Inv, UNCHANGED <<sim_vars_, accepted, clientVars, raw_data, next, received>>,
         worker_' = worker_ \/ {worker_, worker_'} \cap {"dispatch", "deliver"} = {}
  PROVE  DeliveryInv'
<1> USE DEF Inv, DeliveryInv
<1>1. Taken' = Taken /\ Registered' = Registered
  BY DEF Taken, Registered, clientVars
<1>2. worker_' \in {"dispatch", "deliver"} \/ worker_ \in {"dispatch", "deliver"}
        => worker_' = worker_
  OBVIOUS
<1>3. QueueInv'
  BY <1>1, <1>2 DEF QueueInv
<1>4. RegistrationInv'
  BY <1>1, <1>2 DEF RegistrationInv, clientVars
<1>5. RoundInv'
  <2>1. \A i \in Nat : Reached(i)' = Reached(i)
    BY <1>1, <1>2 DEF Reached
  <2>2. QED
    BY <2>1 DEF RoundInv, clientVars, TypeInv, TypeOK
<1>6. InOrderDelivery'
  BY DEF InOrderDelivery, clientVars
<1>7. QED
  BY <1>3, <1>4, <1>5, <1>6

\* A push at the back of the queue, and of the accepted data.
LEMMA NotifyDeliveryInv ==
  ASSUME Inv, NEW n \in Notifiers, Notify(n)
  PROVE  DeliveryInv'
<1> USE DEF Inv, DeliveryInv, TypeInv, TypeOK
<1> DEFINE d == calling[n]
<1>1. d \in 1..MaxNotify
  BY DispatcherAssumption DEF DispatcherAssumption, Notify
<1>2. sim_vars_' = Append(sim_vars_, d) /\ accepted' = Append(accepted, d)
  BY DEF Notify
<1>3. /\ Len(sim_vars_') = Len(sim_vars_) + 1
      /\ \A i \in 1..Len(sim_vars_) : sim_vars_'[i] = sim_vars_[i]
      /\ sim_vars_'[Len(sim_vars_) + 1] = d
  BY <1>1, <1>2, AppendProperties
<1>4. /\ Len(accepted') = Len(accepted) + 1
      /\ \A i \in 1..Len(accepted) : accepted'[i] = accepted[i]
      /\ accepted'[Len(accepted) + 1] = d
  BY <1>1, <1>2, AppendProperties
<1>5. Taken' = Taken /\ Taken \in 0..Len(accepted)
  BY <1>3, <1>4 DEF Taken, CountInv
<1>6. UNCHANGED <<dispatch_callbacks_, since, raw_data, next, received>>
  BY DEF Notify, clientVars, dispatchVars
<1>7. worker_' \in {"dispatch", "deliver"} \/ worker_ \in {"dispatch", "deliver"}
        => worker_' = worker_
  BY DEF Notify
<1>8. QueueInv'
  <2>1. ASSUME NEW i \in 1..Len(sim_vars_') PROVE sim_vars_'[i] = accepted'[Taken' + i]
    <3>1. CASE i \in 1..Len(sim_vars_)
      <4>1. Taken + i \in 1..Len(accepted)
        BY <3>1, <1>5 DEF Taken
      <4>2. sim_vars_'[i] = accepted[Taken + i]
        BY <3>1, <1>3 DEF QueueInv
      <4>3. QED
        BY <4>1, <4>2, <1>4, <1>5
    <3>2. CASE i = Len(sim_vars_) + 1
      BY <3>2, <1>3, <1>4, <1>5 DEF Taken
    <3>3. QED
      BY <3>1, <3>2, <1>3
  <2>2. worker_' \in {"dispatch", "deliver"} => raw_data' = accepted'[Taken']
    <3>1. worker_ \in {"dispatch", "deliver"} => Taken \in 1..Len(accepted)
      BY DEF CountInv, Taken
    <3>2. QED
      BY <3>1, <1>4, <1>5, <1>6, <1>7 DEF QueueInv
  <2>3. QED
    BY <2>1, <2>2 DEF QueueInv
<1>9. RegistrationInv'
  BY <1>6, <1>7 DEF RegistrationInv, Registered
<1>10. RoundInv'
  <2>1. \A i \in Nat : Reached(i)' = Reached(i)
    BY <1>5, <1>6, <1>7 DEF Reached
  <2>2. QED
    BY <2>1, <1>6 DEF RoundInv
<1>11. InOrderDelivery'
  <2> SUFFICES ASSUME NEW r \in Recipients
               PROVE  /\ since[r] + Len(received[r]) <= Len(accepted')
                      /\ \A i \in 1..Len(received[r]) :
                           received[r][i] = accepted'[since[r] + i]
    BY <1>6 DEF InOrderDelivery
  <2>1. since[r] \in Nat /\ Len(received[r]) \in Nat
    OBVIOUS
  <2>2. since[r] + Len(received[r]) <= Len(accepted)
    BY DEF InOrderDelivery
  <2>3. \A i \in 1..Len(received[r]) : since[r] + i \in 1..Len(accepted)
    BY <2>1, <2>2
  <2>4. \A i \in 1..Len(received[r]) : received[r][i] = accepted[since[r] + i]
    BY DEF InOrderDelivery
  <2>5. ASSUME NEW i \in 1..Len(received[r])
        PROVE  received[r][i] = accepted'[since[r] + i]
    BY <2>3, <2>4, <1>4
  <2>6. QED
    BY <2>1, <2>2, <2>5, <1>4
<1>12. QED
  BY <1>8, <1>9, <1>10, <1>11

\* The indices of a sequence grown by one.
LEMMA UpToNext == \A k \in Nat : 1..(k + 1) = (1..k) \cup {k + 1}
  OBVIOUS

\* A registration outside of a round: the newcomer stands where the round is.
LEMMA AddRecepientDeliveryInv ==
  ASSUME Inv, NEW r \in Recipients, AddRecepient(r)
  PROVE  DeliveryInv'
<1> USE DEF Inv, DeliveryInv, TypeInv, TypeOK
<1> DEFINE m == Len(dispatch_callbacks_)
<1>1. /\ m \in Nat
      /\ Len(dispatch_callbacks_') = m + 1
      /\ \A i \in 1..m : dispatch_callbacks_'[i] = dispatch_callbacks_[i]
      /\ dispatch_callbacks_'[m + 1] = r
  BY AppendProperties DEF AddRecepient
<1>2. /\ UNCHANGED <<worker_, sim_vars_, accepted, raw_data, next, received>>
      /\ since' = [since EXCEPT ![r] = Begun]
  BY DEF AddRecepient, queueVars, dispatchVars
<1>3. worker_ # "deliver"
  BY DEF AddRecepient, LockInv
<1>4. r \notin Registered /\ received[r] = <<>>
  BY DEF AddRecepient, RegistrationInv
<1>5. /\ Taken' = Taken
      /\ \A i \in Nat : Reached(i) = Begun
      /\ \A i \in Nat : Reached(i)' = Begun
  <2>1. Taken' = Taken /\ worker_' = worker_
    BY <1>2 DEF Taken
  <2>2. Begun = IF worker_ = "dispatch" THEN Taken - 1 ELSE Taken
    BY DEF Begun, Taken
  <2>3. QED
    BY <2>1, <2>2, <1>3 DEF Reached
<1>6. Begun \in 0..Len(accepted)
  BY DEF Begun, CountInv
<1>7. QueueInv'
  BY <1>2, <1>5 DEF QueueInv
<1>8. RegistrationInv'
  <2>1. /\ r \in Registered'
        /\ \A i \in 1..m : dispatch_callbacks_[i] \in Registered'
    <3>1. \A i \in 1..(m + 1) : dispatch_callbacks_'[i] \in Registered'
      BY <1>1 DEF Registered
    <3>2. m + 1 \in 1..(m + 1) /\ 1..m \subseteq 1..(m + 1)
      BY <1>1, UpToNext, Zenon
    <3>3. QED
      BY <3>1, <3>2, <1>1, Zenon
  <2>2. \A i, j \in 1..Len(dispatch_callbacks_') :
          dispatch_callbacks_'[i] = dispatch_callbacks_'[j] => i = j
    <3>1. \A i \in 1..m : dispatch_callbacks_[i] # r
      BY <1>4 DEF Registered
    <3>2. ASSUME NEW i \in 1..(m + 1), NEW j \in 1..(m + 1),
                 dispatch_callbacks_'[i] = dispatch_callbacks_'[j]
          PROVE  i = j
      <4>1. CASE i \in 1..m /\ j \in 1..m
        BY <4>1, <3>2, <1>1 DEF RegistrationInv
      <4>2. CASE i = m + 1 \/ j = m + 1
        <5>1. \A k \in 1..m : dispatch_callbacks_'[k] # dispatch_callbacks_'[m + 1]
          BY <3>1, <1>1
        <5>2. (i \in 1..m \/ i = m + 1) /\ (j \in 1..m \/ j = m + 1)
          <6>1. 1..(m + 1) = (1..m) \cup {m + 1}
            BY <1>1, UpToNext, Zenon
          <6>2. QED
            BY <6>1, Zenon
        <5>3. QED
          BY <4>2, <3>2, <5>1, <5>2, Zenon
      <4>3. QED
        BY <4>1, <4>2, <1>1, UpToNext, Zenon
    <3>3. QED
      BY <3>2, <1>1
  <2>3. \A q \in Recipients \ Registered' :
          received'[q] = <<>> /\ since'[q] = 0
    <3> SUFFICES ASSUME NEW q \in Recipients \ Registered'
                 PROVE  received'[q] = <<>> /\ since'[q] = 0
      OBVIOUS
    <3>1. q # r /\ q \notin Registered
      BY <2>1 DEF Registered
    <3>2. QED
      BY <3>1, <1>2 DEF RegistrationInv
  <2>4. QED
    BY <1>2, <1>3, <2>2, <2>3 DEF RegistrationInv
<1>9. RoundInv'
  <2> SUFFICES ASSUME NEW i \in 1..(m + 1)
               PROVE  since'[dispatch_callbacks_'[i]]
                        + Len(received[dispatch_callbacks_'[i]]) = Begun
    BY <1>1, <1>2, <1>5 DEF RoundInv
  <2>1. CASE i \in 1..m
    <3>1. dispatch_callbacks_[i] # r
      BY <2>1, <1>4 DEF Registered
    <3>2. QED
      BY <2>1, <3>1, <1>1, <1>2, <1>5 DEF RoundInv
  <2>2. CASE i = m + 1
    <3>1. dispatch_callbacks_'[i] = r
      BY <2>2, <1>1
    <3>2. since'[r] = Begun /\ Len(received[r]) = 0
      BY <1>2, <1>4
    <3>3. QED
      BY <3>1, <3>2, <1>6
  <2>3. i \in 1..m \/ i = m + 1
    <3>1. 1..(m + 1) = (1..m) \cup {m + 1}
      BY <1>1, UpToNext, Zenon
    <3>2. QED
      BY <3>1, Zenon
  <2>4. QED
    BY <2>1, <2>2, <2>3, Zenon
<1>10. InOrderDelivery'
  <2> SUFFICES ASSUME NEW q \in Recipients
               PROVE  /\ since'[q] + Len(received[q]) <= Len(accepted)
                      /\ \A i \in 1..Len(received[q]) :
                           received[q][i] = accepted[since'[q] + i]
    BY <1>2 DEF InOrderDelivery
  <2>1. CASE q = r
    BY <2>1, <1>2, <1>4, <1>6
  <2>2. CASE q # r
    BY <2>2, <1>2 DEF InOrderDelivery
  <2>3. QED
    BY <2>1, <2>2
<1>11. QED
  BY <1>7, <1>8, <1>9, <1>10

\* The datum leaves the front of the queue: a round begins in which no callback
\* has received it.
LEMMA TakeFrontDeliveryInv ==
  ASSUME Inv, TakeFront
  PROVE  DeliveryInv'
<1> USE DEF Inv, DeliveryInv, TypeInv, TypeOK
<1>1. /\ sim_vars_ # <<>>
      /\ sim_vars_' = Tail(sim_vars_)
      /\ raw_data' = sim_vars_[1]
  BY DEF TakeFront
<1>2. /\ Len(sim_vars_) \in Nat \ {0}
      /\ Len(sim_vars_') = Len(sim_vars_) - 1
      /\ \A i \in 1..(Len(sim_vars_) - 1) : sim_vars_'[i] = sim_vars_[i + 1]
  BY <1>1, HeadTailProperties, EmptySeq
<1>3. UNCHANGED <<accepted, dispatch_callbacks_, since, next, received>>
  BY DEF TakeFront, clientVars
<1>4. worker_ = "locked" /\ worker_' = "dispatch"
  BY DEF TakeFront
<1>5. Taken' = Taken + 1 /\ Taken \in Nat
  BY <1>2, <1>3 DEF Taken, CountInv
<1>6. QueueInv'
  <2>1. ASSUME NEW i \in 1..Len(sim_vars_') PROVE sim_vars_'[i] = accepted[Taken' + i]
    <3>1. i + 1 \in 1..Len(sim_vars_) /\ Taken' + i = Taken + (i + 1)
      BY <1>2, <1>5
    <3>2. sim_vars_'[i] = sim_vars_[i + 1]
      BY <1>2
    <3>3. sim_vars_[i + 1] = accepted[Taken + (i + 1)]
      BY <3>1 DEF QueueInv
    <3>4. QED
      BY <3>1, <3>2, <3>3
  <2>2. raw_data' = accepted[Taken']
    BY <1>1, <1>2, <1>5 DEF QueueInv
  <2>3. QED
    BY <2>1, <2>2, <1>3 DEF QueueInv
<1>7. RegistrationInv'
  BY <1>3, <1>4 DEF RegistrationInv, Registered
<1>8. RoundInv'
  <2>1. \A i \in Nat : Reached(i)' = Reached(i)
    BY <1>4, <1>5 DEF Reached
  <2>2. QED
    BY <2>1, <1>3 DEF RoundInv
<1>9. InOrderDelivery'
  BY <1>3 DEF InOrderDelivery
<1>10. QED
  BY <1>6, <1>7, <1>8, <1>9

\* Taking callbacks_lock_ moves the loop to the first callback.
LEMMA BeginDispatchDeliveryInv ==
  ASSUME Inv, BeginDispatch
  PROVE  DeliveryInv'
<1> USE DEF Inv, DeliveryInv, TypeInv, TypeOK
<1>1. /\ UNCHANGED <<sim_vars_, accepted, raw_data, dispatch_callbacks_, since, received>>
      /\ worker_ = "dispatch" /\ worker_' = "deliver" /\ next' = 1
  BY DEF BeginDispatch, queueVars, clientVars
<1>2. Taken' = Taken
  BY <1>1 DEF Taken
<1>3. QueueInv'
  BY <1>1, <1>2 DEF QueueInv
<1>4. RegistrationInv'
  BY <1>1 DEF RegistrationInv, Registered
<1>5. RoundInv'
  <2>1. \A i \in Nat \ {0} : Reached(i)' = Reached(i)
    BY <1>1, <1>2 DEF Reached
  <2>2. QED
    BY <2>1, <1>1 DEF RoundInv
<1>6. InOrderDelivery'
  BY <1>1 DEF InOrderDelivery
<1>7. QED
  BY <1>3, <1>4, <1>5, <1>6

\* One callback receives the datum of the round, the next of the accepted data
\* for it.
LEMMA InvokeCallbackDeliveryInv ==
  ASSUME Inv, InvokeCallback
  PROVE  DeliveryInv'
<1> DEFINE c == dispatch_callbacks_[next]
           before == received[c]
           after == received'[c]
<1>1. TypeOK /\ CountInv /\ QueueInv /\ RegistrationInv /\ RoundInv /\ InOrderDelivery
  BY DEF Inv, TypeInv, DeliveryInv
<1>2. /\ UNCHANGED <<worker_, sim_vars_, accepted, raw_data, dispatch_callbacks_, since>>
      /\ worker_ = "deliver" /\ next' = next + 1
      /\ next \in 1..Len(dispatch_callbacks_)
      /\ received' = [received EXCEPT ![c] = Append(@, raw_data)]
  BY <1>1 DEF InvokeCallback, queueVars, clientVars, CountInv, TypeOK
<1>3. c \in Recipients /\ c \in Registered
  BY <1>1, <1>2 DEF Registered, TypeOK
<1>4. Taken' = Taken /\ Taken \in 1..Len(accepted)
  BY <1>1, <1>2 DEF Taken, CountInv, TypeOK
<1>5. raw_data \in 1..MaxNotify /\ raw_data = accepted[Taken]
  BY <1>1, <1>2, DispatcherAssumption
  DEF DispatcherAssumption, CountInv, QueueInv, TypeOK
<1>6. /\ before \in Seq(1..MaxNotify) /\ since[c] \in Nat
      /\ after = Append(before, raw_data)
      /\ \A q \in Recipients \ {c} : received'[q] = received[q]
  BY <1>1, <1>2, <1>3 DEF TypeOK
<1>7. since[c] + Len(before) = Taken - 1
  BY <1>1, <1>2 DEF RoundInv, Reached
<1> HIDE DEF before, after
<1>8. /\ Len(before) \in Nat
      /\ Len(after) = Len(before) + 1
      /\ \A i \in 1..Len(before) : after[i] = before[i]
      /\ after[Len(before) + 1] = raw_data
  BY <1>5, <1>6, AppendProperties, LenProperties
<1>9. QueueInv'
  BY <1>1, <1>2, <1>4 DEF QueueInv
<1>10. RegistrationInv'
  <2>1. Registered' = Registered
    BY <1>2 DEF Registered
  <2>2. \A q \in Recipients \ Registered : received'[q] = received[q]
    BY <1>3, <1>6
  <2>3. next' <= Len(dispatch_callbacks_) + 1
    BY <1>2
  <2>4. QED
    BY <2>1, <2>2, <2>3, <1>1, <1>2 DEF RegistrationInv
<1>11. RoundInv'
  <2> SUFFICES ASSUME NEW i \in 1..Len(dispatch_callbacks_)
               PROVE  since[dispatch_callbacks_[i]] + Len(received'[dispatch_callbacks_[i]])
                        = Reached(i)'
    BY <1>2 DEF RoundInv
  <2>1. CASE i = next
    <3>1. Reached(i)' = Taken
      BY <2>1, <1>2, <1>4 DEF Reached
    <3>2. since[c] + Len(after) = Taken
      <4>1. since[c] \in Nat /\ Len(before) \in Nat /\ Taken \in Int
        BY <1>4, <1>6, <1>8
      <4>2. QED
        BY <4>1, <1>7, <1>8
    <3>3. QED
      BY <2>1, <3>1, <3>2 DEF after
  <2>2. CASE i # next
    <3>1. dispatch_callbacks_[i] \in Recipients \ {c}
      <4>1. dispatch_callbacks_[i] # c
        BY <2>2, <1>1, <1>2 DEF RegistrationInv
      <4>2. dispatch_callbacks_[i] \in Recipients
        BY <1>1 DEF TypeOK
      <4>3. QED
        BY <4>1, <4>2
    <3>2. Reached(i)' = Reached(i)
      BY <2>2, <1>2, <1>4 DEF Reached
    <3>3. QED
      BY <3>1, <3>2, <1>1, <1>6 DEF RoundInv
  <2>3. QED
    BY <2>1, <2>2
<1>12. InOrderDelivery'
  <2> SUFFICES ASSUME NEW q \in Recipients
               PROVE  /\ since[q] + Len(received'[q]) <= Len(accepted)
                      /\ \A i \in 1..Len(received'[q]) :
                           received'[q][i] = accepted[since[q] + i]
    BY <1>2 DEF InOrderDelivery
  <2>1. CASE q = c
    <3>1. ASSUME NEW i \in 1..Len(after)
          PROVE  after[i] = accepted[since[c] + i]
      <4>1. CASE i \in 1..Len(before)
        BY <4>1, <1>1, <1>3, <1>8 DEF InOrderDelivery, before
      <4>2. CASE i = Len(before) + 1
        BY <4>2, <1>4, <1>5, <1>6, <1>7, <1>8
      <4>3. QED
        BY <4>1, <4>2, <1>8
    <3>2. since[c] + Len(after) <= Len(accepted)
      BY <1>4, <1>6, <1>7, <1>8
    <3>3. QED
      BY <2>1, <3>1, <3>2 DEF after
  <2>2. CASE q # c
    BY <2>2, <1>1, <1>6 DEF InOrderDelivery
  <2>3. QED
    BY <2>1, <2>2
<1>13. QED
  BY <1>9, <1>10, <1>11, <1>12 DEF DeliveryInv

\* The loop ends past the last callback: every callback is up to date.
LEMMA EndDispatchDeliveryInv ==
  ASSUME Inv, EndDispatch
  PROVE  DeliveryInv'
<1> USE DEF Inv, DeliveryInv, TypeInv, TypeOK
<1>1. /\ UNCHANGED <<sim_vars_, accepted, dispatch_callbacks_, since, received>>
      /\ worker_ = "deliver" /\ worker_' = "top" /\ next > Len(dispatch_callbacks_)
  BY DEF EndDispatch, queueVars, clientVars
<1>2. Taken' = Taken
  BY <1>1 DEF Taken
<1>3. QueueInv'
  BY <1>1, <1>2 DEF QueueInv
<1>4. RegistrationInv'
  BY <1>1 DEF RegistrationInv, Registered
<1>5. RoundInv'
  <2>1. \A i \in 1..Len(dispatch_callbacks_) : Reached(i)' = Reached(i)
    BY <1>1, <1>2 DEF Reached
  <2>2. QED
    BY <2>1, <1>1 DEF RoundInv
<1>6. InOrderDelivery'
  BY <1>1 DEF InOrderDelivery
<1>7. QED
  BY <1>3, <1>4, <1>5, <1>6

\* Every step preserves the delivery invariant.
LEMMA NextDeliveryInv == Inv /\ [Next]_vars => DeliveryInv'
<1> SUFFICES ASSUME Inv, [Next]_vars PROVE DeliveryInv'
  OBVIOUS
<1> USE DEF ownerVars, notifyVars, queueVars, clientVars, dispatchVars
<1>1. CASE Start
  BY <1>1, QuietStep DEF Start, IsRunning
<1>2. CASE StopNotify
  BY <1>2, QuietStep DEF StopNotify
<1>3. CASE StopJoin
  BY <1>3, QuietStep DEF StopJoin
<1>4. ASSUME NEW n \in Notifiers, CallNotify(n) PROVE DeliveryInv'
  BY <1>4, QuietStep DEF CallNotify
<1>5. ASSUME NEW n \in Notifiers, Notify(n) PROVE DeliveryInv'
  BY <1>5, NotifyDeliveryInv
<1>6. ASSUME NEW r \in Recipients, AddRecepient(r) PROVE DeliveryInv'
  BY <1>6, AddRecepientDeliveryInv
<1>7. CASE TestStop
  BY <1>7, QuietStep DEF TestStop
<1>8. CASE LockAndAwait
  BY <1>8, QuietStep DEF LockAndAwait
<1>9. CASE ContinueWhenEmpty
  BY <1>9, QuietStep DEF ContinueWhenEmpty
<1>10. CASE TakeFront
  BY <1>10, TakeFrontDeliveryInv
<1>11. CASE BeginDispatch
  BY <1>11, BeginDispatchDeliveryInv
<1>12. CASE InvokeCallback
  BY <1>12, InvokeCallbackDeliveryInv
<1>13. CASE EndDispatch
  BY <1>13, EndDispatchDeliveryInv
<1>14. CASE UNCHANGED vars
  BY <1>14, QuietStep DEF vars
<1>15. QED
  BY <1>1, <1>2, <1>3, <1>4, <1>5, <1>6, <1>7, <1>8, <1>9, <1>10, <1>11, <1>12,
     <1>13, <1>14 DEF Next, RunWorker

\* The whole inductive invariant holds throughout.
LEMMA InvHolds == Spec => []Inv
<1>1. Init => Inv
  BY InitTypeInv, InitLockInv, InitDeliveryInv DEF Inv
<1>2. Inv /\ [Next]_vars => Inv'
  BY NextTypeInv, NextLockInv, NextDeliveryInv DEF Inv
<1>3. QED
  BY <1>1, <1>2, PTL DEF Spec

\* Every callback is invoked with consecutive accepted data, in the order in
\* which Notify pushed them, from its registration on.
THEOREM DeliveredInOrder == Spec => []InOrderDelivery
<1>1. Inv => InOrderDelivery
  BY DEF Inv, DeliveryInv
<1>2. QED
  BY <1>1, InvHolds, PTL

\* Between rounds every callback has received all that left the queue since its
\* registration: neither a stop nor a restart loses a datum.
THEOREM StopLosesNothing == Spec => []NothingLost
<1>1. Inv => NothingLost
  BY DEF Inv, TypeInv, TypeOK, DeliveryInv, RoundInv, Reached, NothingLost,
     Registered
<1>2. QED
  BY <1>1, InvHolds, PTL

-----------------------------------------------------------------------------
(* The dispatcher implements the ordered broadcast: Notify is Publish,
   AddRecepient is Subscribe where the round stands, InvokeCallback is Deliver,
   and every other step leaves what the clients see alone. *)

\* Where a registered callback stands in the log.
LEMMA RegisteredPosition ==
  ASSUME Inv, NEW q \in Registered
  PROVE  /\ FB!Position(q) \in {Taken - 1, Taken}
         /\ worker_ # "deliver" => FB!Position(q) = Begun
<1>1. PICK i \in 1..Len(dispatch_callbacks_) : q = dispatch_callbacks_[i]
  BY DEF Registered
<1>2. FB!Position(q) = Reached(i)
  BY <1>1 DEF Inv, DeliveryInv, RoundInv, FB!Position
<1>3. QED
  <2>1. Len(accepted) \in Nat /\ Len(sim_vars_) \in Nat
    BY LenProperties DEF Inv, TypeInv, TypeOK
  <2>2. Reached(i) \in {Taken - 1, Taken}
    BY DEF Reached
  <2>3. worker_ # "deliver" => Reached(i) = Begun
    <3>1. CASE worker_ = "dispatch"
      BY <2>1, <3>1 DEF Reached, Begun, Taken
    <3>2. CASE worker_ # "dispatch" /\ worker_ # "deliver"
      <4>1. Reached(i) = Taken
        BY <3>2, Zenon DEF Reached
      <4>2. Begun = Taken
        BY <2>1, <3>2 DEF Begun, Taken
      <4>3. QED
        BY <4>1, <4>2
    <3>3. QED
      BY <3>1, <3>2
  <2>4. QED
    BY <2>2, <2>3, <1>2

\* Notify publishes.
LEMMA NotifyPublishes ==
  ASSUME Inv, NEW n \in Notifiers, Notify(n)
  PROVE  FB!Publish(calling[n])
  BY DEF Notify, FB!Publish, Registered, clientVars, dispatchVars

\* AddRecepient subscribes where the round stands.
LEMMA AddRecepientSubscribes ==
  ASSUME Inv, NEW r \in Recipients, AddRecepient(r)
  PROVE  FB!Subscribe(r, Begun)
<1>1. Registered' = Registered \cup {r}
  <2>1. /\ Len(dispatch_callbacks_) \in Nat
        /\ Len(dispatch_callbacks_') = Len(dispatch_callbacks_) + 1
        /\ \A i \in 1..Len(dispatch_callbacks_) :
             dispatch_callbacks_'[i] = dispatch_callbacks_[i]
        /\ dispatch_callbacks_'[Len(dispatch_callbacks_) + 1] = r
    BY AppendProperties, LenProperties DEF AddRecepient, Inv, TypeInv, TypeOK
  <2>2. 1..(Len(dispatch_callbacks_) + 1)
          = (1..Len(dispatch_callbacks_)) \cup {Len(dispatch_callbacks_) + 1}
    BY <2>1, UpToNext
  <2>3. \A q : q \in Registered' <=> q \in Registered \/ q = r
    BY <2>1, <2>2, Zenon DEF Registered
  <2>4. QED
    BY <2>3
<1>2. worker_ # "deliver"
  BY DEF AddRecepient, Inv, LockInv
<1>3. \A q \in Registered : FB!Position(q) = Begun
  BY <1>2, RegisteredPosition
<1>4. QED
  BY <1>1, <1>3 DEF AddRecepient, FB!Subscribe, queueVars, dispatchVars

\* A callback of the round is a delivery to a subscriber nobody is behind.
LEMMA InvokeCallbackDelivers ==
  ASSUME Inv, InvokeCallback
  PROVE  FB!Deliver(dispatch_callbacks_[next])
<1> DEFINE c == dispatch_callbacks_[next]
<1>1. /\ UNCHANGED <<accepted, dispatch_callbacks_, since>>
      /\ worker_ = "deliver" /\ next \in 1..Len(dispatch_callbacks_)
      /\ received' = [received EXCEPT ![c] = Append(@, raw_data)]
  BY DEF InvokeCallback, queueVars, clientVars, Inv, TypeInv, CountInv, TypeOK
<1>2. c \in Registered
  BY <1>1 DEF Registered
<1>3. FB!Position(c) = Taken - 1
  BY <1>1 DEF Inv, DeliveryInv, RoundInv, Reached, FB!Position
<1>4. Taken \in 1..Len(accepted) /\ raw_data = accepted[Taken]
  BY <1>1 DEF Inv, TypeInv, TypeOK, CountInv, DeliveryInv, QueueInv, Taken
<1>5. \A q \in Registered : FB!Position(c) <= FB!Position(q)
  BY <1>3, <1>4, RegisteredPosition
<1>6. Registered' = Registered
  BY <1>1 DEF Registered
<1>7. FB!Position(c) < Len(accepted) /\ accepted[FB!Position(c) + 1] = raw_data
  BY <1>3, <1>4
<1>8. received' = [received EXCEPT ![c] = Append(@, accepted[FB!Position(c) + 1])]
  BY <1>1, <1>7
<1>9. QED
  BY <1>1, <1>2, <1>5, <1>6, <1>7, <1>8 DEF FB!Deliver

\* What is delivered, to whom and in which order is that of an ordered
\* broadcast, for every schedule of the threads, stops and restarts included.
THEOREM RefinesFifoBroadcast == Spec => ImplementsFifoBroadcast
<1>1. Init => FB!Init
  BY DEF Init, FB!Init, Registered
<1>2. Inv /\ [Next]_vars => [FB!Next]_FB!vars
  <2> SUFFICES ASSUME Inv, [Next]_vars PROVE [FB!Next]_FB!vars
    OBVIOUS
  <2>1. ASSUME NEW n \in Notifiers, Notify(n) PROVE FB!Next
    <3>1. calling[n] \in 1..MaxNotify
      BY <2>1, DispatcherAssumption
      DEF DispatcherAssumption, Notify, Inv, TypeInv, TypeOK
    <3>2. QED
      BY <2>1, <3>1, NotifyPublishes DEF FB!Next
  <2>2. ASSUME NEW r \in Recipients, AddRecepient(r) PROVE FB!Next
    <3>1. Begun \in 0..Len(accepted)
      BY DEF Begun, Inv, TypeInv, TypeOK, CountInv
    <3>2. QED
      BY <2>2, <3>1, AddRecepientSubscribes DEF FB!Next
  <2>3. CASE InvokeCallback
    <3>1. dispatch_callbacks_[next] \in Recipients
      BY <2>3 DEF InvokeCallback, Inv, TypeInv, TypeOK, CountInv
    <3>2. QED
      BY <2>3, <3>1, InvokeCallbackDelivers DEF FB!Next
  <2>4. ASSUME UNCHANGED <<accepted, dispatch_callbacks_, since, received>>
        PROVE  UNCHANGED FB!vars
    BY <2>4 DEF FB!vars, Registered
  <2> USE DEF ownerVars, notifyVars, queueVars, clientVars, dispatchVars
  <2>5. CASE Start \/ StopNotify \/ StopJoin \/ \E n \in Notifiers : CallNotify(n)
    BY <2>4, <2>5 DEF Start, StopNotify, StopJoin, CallNotify
  <2>6. CASE TestStop \/ LockAndAwait \/ ContinueWhenEmpty
    BY <2>4, <2>6 DEF TestStop, LockAndAwait, ContinueWhenEmpty
  <2>7. CASE TakeFront \/ BeginDispatch \/ EndDispatch
    BY <2>4, <2>7 DEF TakeFront, BeginDispatch, EndDispatch
  <2>8. CASE UNCHANGED vars
    BY <2>4, <2>8 DEF vars
  <2>9. QED
    BY <2>1, <2>2, <2>3, <2>5, <2>6, <2>7, <2>8 DEF Next, RunWorker
<1>3. QED
  BY <1>1, <1>2, InvHolds, PTL DEF Spec, FB!Spec, ImplementsFifoBroadcast

=============================================================================
