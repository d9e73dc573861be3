---------------------------- MODULE DataDispatcher ----------------------------
(***************************************************************************)
(* DataDispatcherImpl of data_dispatcher/data_dispatcher.cpp: a queue of   *)
(* SimVars filled by Notify, a worker thread that takes them off and hands *)
(* each to every registered callback, and an owner that starts and stops   *)
(* the worker.                                                             *)
(*                                                                         *)
(* Threads: the owner (Start, Stop), one worker per Start (RunWorker), the *)
(* notifiers (Notify) and the clients that register (AddRecepient).  A     *)
(* step is a stretch of code in which no other thread can interfere: one   *)
(* lock held from end to end, or one read or write of the notification.    *)
(*                                                                         *)
(* absl::Mutex::Await re-evaluates the condition of a blocked thread only  *)
(* when some thread unlocks that mutex.  Setting the notification does not *)
(* touch data_lock_, so it wakes nobody: only Notify's unlock does.        *)
(*                                                                         *)
(* Callers keep to the order of the repository's tests: one owner thread,  *)
(* Start when IsRunning() is false and Stop when it is true; a callback    *)
(* is registered once and does not call back into the dispatcher.          *)
(***************************************************************************)
EXTENDS Naturals, Sequences

CONSTANTS
  Notifiers,   \* threads that call Notify
  Recipients,  \* callbacks that clients register
  MaxNotify,   \* bound: calls of Notify in a behaviour
  MaxStarts    \* bound: calls of Start in a behaviour

ASSUME DispatcherAssumption == MaxNotify \in Nat /\ MaxStarts \in Nat

VARIABLES
  \* the members of DataDispatcherImpl
  worker_,              \* "none" when not joinable, else where RunWorker is
  stop_notification_,   \* "null", "pending" or "notified"
  callbacks_lock_,      \* whether DispatchData holds it
  dispatch_callbacks_,  \* the registered callbacks, in order
  data_lock_,           \* 0 when free, else the number of the worker thread
  sim_vars_,            \* the queue of data
  \* locals of RunWorker and DispatchData
  raw_data,             \* the datum taken off the queue, 0 when there is none
  next,                 \* the index of the callback to invoke, 0 outside the loop
  \* the callers
  owner,                \* "idle", or "joining" inside Stop
  starts,               \* calls of Start so far: the number of the last worker
  issued,               \* calls of Notify so far
  calling,              \* calling[n]: the datum of n's Notify, 0 outside of it
  \* history
  accepted,             \* every datum pushed on the queue, in order
  received,             \* received[r]: the data r's callback was invoked with
  since                 \* since[r]: the dispatches that began before r registered

ownerVars   == <<owner, starts>>
notifyVars  == <<issued, calling>>
queueVars   == <<data_lock_, sim_vars_, accepted>>
clientVars  == <<dispatch_callbacks_, since>>
dispatchVars == <<callbacks_lock_, raw_data, next, received>>

vars == <<worker_, stop_notification_, ownerVars, notifyVars, queueVars,
          clientVars, dispatchVars>>

WorkerStates == {"none", "top", "lock", "waiting", "locked", "dispatch",
                 "deliver", "returned"}

Registered == {dispatch_callbacks_[i] : i \in 1..Len(dispatch_callbacks_)}

\* bool IsRunning(), int QueueSize()
IsRunning == worker_ # "none"
QueueSize == Len(sim_vars_)

HasBeenNotified == stop_notification_ = "notified"

\* The condition RunWorker awaits.
DataNotEmptyOrStop == HasBeenNotified \/ sim_vars_ # <<>>

Init ==
  /\ worker_ = "none"
  /\ stop_notification_ = "null"
  /\ callbacks_lock_ = FALSE
  /\ dispatch_callbacks_ = <<>>
  /\ data_lock_ = 0
  /\ sim_vars_ = <<>>
  /\ raw_data = 0
  /\ next = 0
  /\ owner = "idle"
  /\ starts = 0
  /\ issued = 0
  /\ calling = [n \in Notifiers |-> 0]
  /\ accepted = <<>>
  /\ received = [r \in Recipients |-> <<>>]
  /\ since = [r \in Recipients |-> 0]

-----------------------------------------------------------------------------
(* The owner. *)

Start ==
  /\ owner = "idle" /\ ~IsRunning /\ starts < MaxStarts
  /\ stop_notification_' = "pending"
  /\ worker_' = "top"
  /\ starts' = starts + 1
  /\ UNCHANGED <<owner, notifyVars, queueVars, clientVars, dispatchVars>>

\* The first half of Stop: stop_notification_->Notify().
StopNotify ==
  /\ owner = "idle" /\ IsRunning
  /\ stop_notification_' = "notified"
  /\ owner' = "joining"
  /\ UNCHANGED <<worker_, starts, notifyVars, queueVars, clientVars, dispatchVars>>

\* The second half of Stop: worker_.join() returns once the thread has.
StopJoin ==
  /\ owner = "joining" /\ worker_ = "returned"
  /\ worker_' = "none"
  /\ owner' = "idle"
  /\ UNCHANGED <<stop_notification_, starts, notifyVars, queueVars, clientVars,
                 dispatchVars>>

-----------------------------------------------------------------------------
(* The notifiers and the registering clients. *)

\* Thread n calls Notify with a new datum and comes to the lock.
CallNotify(n) ==
  /\ calling[n] = 0 /\ issued < MaxNotify
  /\ issued' = issued + 1
  /\ calling' = [calling EXCEPT ![n] = issued + 1]
  /\ UNCHANGED <<worker_, stop_notification_, ownerVars, queueVars, clientVars,
                 dispatchVars>>

\* Altered: an unlock that does not wake the waiting worker.
NotifyWithoutWake(n) ==
  /\ calling[n] # 0 /\ data_lock_ = 0
  /\ sim_vars_' = Append(sim_vars_, calling[n])
  /\ accepted' = Append(accepted, calling[n])
  /\ calling' = [calling EXCEPT ![n] = 0]
  /\ UNCHANGED <<worker_, stop_notification_, ownerVars, issued, data_lock_,
                 clientVars, dispatchVars>>

\* Altered: a push of whatever the thread has at hand, without a call.
NotifyUncalled(n) ==
  /\ data_lock_ = 0 /\ Len(accepted) < MaxNotify
  /\ sim_vars_' = Append(sim_vars_, calling[n])
  /\ accepted' = Append(accepted, calling[n])
  /\ calling' = [calling EXCEPT ![n] = 0]
  /\ worker_' = IF worker_ = "waiting" THEN "lock" ELSE worker_
  /\ UNCHANGED <<stop_notification_, ownerVars, issued, data_lock_, clientVars,
                 dispatchVars>>

\* Notify under data_lock_: push and unlock.  The unlock re-evaluates the
\* condition of a waiting worker, now true, and sends it back to the lock.
Notify(n) ==
  /\ calling[n] # 0 /\ data_lock_ = 0
  /\ sim_vars_' = Append(sim_vars_, calling[n])
  /\ accepted' = Append(accepted, calling[n])
  /\ calling' = [calling EXCEPT ![n] = 0]
  /\ worker_' = IF worker_ = "waiting" THEN "lock" ELSE worker_
  /\ UNCHANGED <<stop_notification_, ownerVars, issued, data_lock_, clientVars,
                 dispatchVars>>

\* The dispatches that have begun: data off the queue, but for one that the
\* worker holds before it has taken callbacks_lock_.
Begun ==
  Len(accepted) - Len(sim_vars_) - (IF worker_ = "dispatch" THEN 1 ELSE 0)

\* Altered: registration without callbacks_lock_.
AddRecepientUnlocked(r) ==
  /\ r \notin Registered
  /\ dispatch_callbacks_' = Append(dispatch_callbacks_, r)
  /\ since' = [since EXCEPT ![r] = Begun]
  /\ UNCHANGED <<worker_, stop_notification_, ownerVars, notifyVars, queueVars,
                 dispatchVars>>

AddRecepient(r) ==
  /\ ~callbacks_lock_ /\ r \notin Registered
  /\ dispatch_callbacks_' = Append(dispatch_callbacks_, r)
  /\ since' = [since EXCEPT ![r] = Begun]
  /\ UNCHANGED <<worker_, stop_notification_, ownerVars, notifyVars, queueVars,
                 dispatchVars>>

-----------------------------------------------------------------------------
(* RunWorker and DispatchData. *)

\* while (!stop_notification_->HasBeenNotified())
TestStop ==
  /\ worker_ = "top"
  /\ worker_' = IF HasBeenNotified THEN "returned" ELSE "lock"
  /\ UNCHANGED <<stop_notification_, ownerVars, notifyVars, queueVars, clientVars,
                 dispatchVars>>

\* Altered: Await returns without looking at its condition.
LockWithoutAwait ==
  /\ worker_ = "lock" /\ data_lock_ = 0
  /\ data_lock_' = starts
  /\ worker_' = "locked"
  /\ UNCHANGED <<stop_notification_, ownerVars, notifyVars, sim_vars_, accepted,
                 clientVars, dispatchVars>>

\* Altered: the awaited condition tests for stop only.
LockAndAwaitStop ==
  /\ worker_ = "lock" /\ data_lock_ = 0
  /\ \/ /\ HasBeenNotified
        /\ data_lock_' = starts
        /\ worker_' = "locked"
     \/ /\ ~HasBeenNotified
        /\ worker_' = "waiting"
        /\ UNCHANGED data_lock_
  /\ UNCHANGED <<stop_notification_, ownerVars, notifyVars, sim_vars_, accepted,
                 clientVars, dispatchVars>>

\* data_lock_.Lock() and Await: take the lock if it is free, keep it if the
\* condition holds, give it back and block if it does not.
LockAndAwait ==
  /\ worker_ = "lock" /\ data_lock_ = 0
  /\ \/ /\ DataNotEmptyOrStop
        /\ data_lock_' = starts
        /\ worker_' = "locked"
     \/ /\ ~DataNotEmptyOrStop
        /\ worker_' = "waiting"
        /\ UNCHANGED data_lock_
  /\ UNCHANGED <<stop_notification_, ownerVars, notifyVars, sim_vars_, accepted,
                 clientVars, dispatchVars>>

\* if (sim_vars_.empty()) continue;   data_lock_ is still held.
ContinueWhenEmpty ==
  /\ worker_ = "locked" /\ sim_vars_ = <<>>
  /\ worker_' = "top"
  /\ UNCHANGED <<stop_notification_, ownerVars, notifyVars, queueVars, clientVars,
                 dispatchVars>>

\* Altered: the last datum is taken, not the first.
TakeBack ==
  /\ worker_ = "locked" /\ sim_vars_ # <<>>
  /\ raw_data' = sim_vars_[Len(sim_vars_)]
  /\ sim_vars_' = SubSeq(sim_vars_, 1, Len(sim_vars_) - 1)
  /\ data_lock_' = 0
  /\ worker_' = "dispatch"
  /\ UNCHANGED <<stop_notification_, ownerVars, notifyVars, accepted, clientVars,
                 callbacks_lock_, next, received>>

\* Altered: no Unlock after the pop.
TakeFrontKeepLock ==
  /\ worker_ = "locked" /\ sim_vars_ # <<>>
  /\ raw_data' = Head(sim_vars_)
  /\ sim_vars_' = Tail(sim_vars_)
  /\ worker_' = "dispatch"
  /\ UNCHANGED <<stop_notification_, ownerVars, notifyVars, data_lock_, accepted,
                 clientVars, callbacks_lock_, next, received>>

TakeFront ==
  /\ worker_ = "locked" /\ sim_vars_ # <<>>
  /\ raw_data' = Head(sim_vars_)
  /\ sim_vars_' = Tail(sim_vars_)
  /\ data_lock_' = 0
  /\ worker_' = "dispatch"
  /\ UNCHANGED <<stop_notification_, ownerVars, notifyVars, accepted, clientVars,
                 callbacks_lock_, next, received>>

\* DispatchData takes callbacks_lock_ and enters its loop.
BeginDispatch ==
  /\ worker_ = "dispatch" /\ ~callbacks_lock_
  /\ callbacks_lock_' = TRUE
  /\ next' = 1
  /\ worker_' = "deliver"
  /\ UNCHANGED <<stop_notification_, ownerVars, notifyVars, queueVars, clientVars,
                 raw_data, received>>

\* callback(sim_data_pb), its status ignored.
InvokeCallback ==
  /\ worker_ = "deliver" /\ next <= Len(dispatch_callbacks_)
  /\ received' = [received EXCEPT ![dispatch_callbacks_[next]] = Append(@, raw_data)]
  /\ next' = next + 1
  /\ UNCHANGED <<worker_, stop_notification_, ownerVars, notifyVars, queueVars,
                 clientVars, callbacks_lock_, raw_data>>

\* Altered: the loop stops one callback early.
EndDispatchEarly ==
  /\ worker_ = "deliver" /\ next >= Len(dispatch_callbacks_)
  /\ callbacks_lock_' = FALSE
  /\ raw_data' = 0
  /\ next' = 0
  /\ worker_' = "top"
  /\ UNCHANGED <<stop_notification_, ownerVars, notifyVars, queueVars, clientVars,
                 received>>

EndDispatch ==
  /\ worker_ = "deliver" /\ next > Len(dispatch_callbacks_)
  /\ callbacks_lock_' = FALSE
  /\ raw_data' = 0
  /\ next' = 0
  /\ worker_' = "top"
  /\ UNCHANGED <<stop_notification_, ownerVars, notifyVars, queueVars, clientVars,
                 received>>

RunWorker ==
  \/ TestStop
  \/ LockAndAwait
  \/ ContinueWhenEmpty
  \/ TakeFront
  \/ BeginDispatch
  \/ InvokeCallback
  \/ EndDispatch

Next ==
  \/ Start
  \/ StopNotify
  \/ StopJoin
  \/ \E n \in Notifiers : CallNotify(n) \/ Notify(n)
  \/ \E r \in Recipients : AddRecepient(r)
  \/ RunWorker

Spec == Init /\ [][Next]_vars

\* Threads that can run do: the worker, a Stop whose thread has returned, and a
\* Notify that has been called.  Nobody has to call Start, Stop or Notify.
Fairness ==
  /\ WF_vars(RunWorker)
  /\ WF_vars(StopJoin)
  /\ \A n \in Notifiers : WF_vars(Notify(n))

FairSpec == Spec /\ Fairness

-----------------------------------------------------------------------------
TypeOK ==
  /\ worker_ \in WorkerStates
  /\ stop_notification_ \in {"null", "pending", "notified"}
  /\ callbacks_lock_ \in BOOLEAN
  /\ dispatch_callbacks_ \in Seq(Recipients)
  /\ data_lock_ \in 0..starts
  /\ sim_vars_ \in Seq(1..MaxNotify)
  /\ raw_data \in 0..MaxNotify
  /\ next \in Nat
  /\ owner \in {"idle", "joining"}
  /\ starts \in 0..MaxStarts
  /\ issued \in 0..MaxNotify
  /\ calling \in [Notifiers -> 0..MaxNotify]
  /\ accepted \in Seq(1..MaxNotify)
  /\ received \in [Recipients -> Seq(1..MaxNotify)]
  /\ since \in [Recipients -> Nat]

\* The data taken off the queue so far.
Taken == Len(accepted) - Len(sim_vars_)

\* No worker comes to data_lock_ while holding it.  The `continue` of RunWorker
\* keeps the lock, and absl::Mutex is not reentrant: all that saves the worker
\* is that Await returns on an empty queue only after a stop, which stays set.
NoSelfDeadlock == worker_ = "lock" => data_lock_ # starts

\* Outside RunWorker's critical section data_lock_ is held only by a worker that
\* stopped on an empty queue (the `continue` that keeps the lock): no datum is
\* ever shut in behind a lock that nobody will release.
LockLeaksOnlyWhenEmpty ==
  data_lock_ # 0 /\ worker_ # "locked"
    => /\ sim_vars_ = <<>>
       /\ data_lock_ = starts => HasBeenNotified

\* Each callback is invoked with consecutive data of the accepted ones, in the
\* order in which Notify pushed them, from its registration on, through stops
\* and restarts and whatever notifiers do in between.
InOrderDelivery ==
  \A r \in Recipients :
    /\ since[r] + Len(received[r]) <= Len(accepted)
    /\ \A i \in 1..Len(received[r]) : received[r][i] = accepted[since[r] + i]

\* Between two rounds of RunWorker's loop, and so once Stop has returned, every
\* datum since a client registered has either reached its callback or is still
\* on the queue: stopping drops nothing, and a restart continues where it was.
NothingLost ==
  worker_ \notin {"dispatch", "deliver"} =>
    \A r \in Registered : since[r] + Len(received[r]) = Taken

\* The dispatcher implements an ordered broadcast in rounds: Notify publishes,
\* AddRecepient subscribes, each callback delivers, nothing else is visible.
FB == INSTANCE FifoBroadcast WITH
        Data <- 1..MaxNotify, log <- accepted, subscribers <- Registered,
        start <- since
ImplementsFifoBroadcast == FB!Spec

-----------------------------------------------------------------------------
(* Liveness, of FairSpec. *)

\* A datum on the queue of a running dispatcher reaches every callback that was
\* registered by then, unless somebody calls Stop.
DispatchedUnlessStopped ==
  \A d \in 1..MaxNotify, r \in Recipients :
    (/\ IsRunning /\ ~HasBeenNotified /\ r \in Registered
     /\ \E i \in 1..QueueSize : sim_vars_[i] = d)
      ~> (HasBeenNotified \/ \E i \in 1..Len(received[r]) : received[r][i] = d)

\* A Stop called while data is queued, or that sees data arrive, returns: the
\* worker cannot be waiting then, and no earlier worker can have kept the lock.
StopWithBacklogReturns ==
  (owner = "joining" /\ sim_vars_ # <<>>) ~> (owner = "idle")

\* "Stop the worker thread, by calling "notify"." (data_dispatcher.cpp:29), and
\* TestIsRunningChecker expects Stop to return and IsRunning() to be false.
StopReturns == (owner = "joining") ~> (owner = "idle" /\ ~IsRunning)

\* "Start running, and dispatch new data when they arrive."
\* (data_dispatcher.h:14): while the dispatcher runs, a call of Notify gets its
\* datum onto the queue, unless somebody calls Stop.
NotifyGetsThrough ==
  \A n \in Notifiers :
    (calling[n] # 0 /\ IsRunning /\ ~HasBeenNotified)
      ~> (calling[n] = 0 \/ HasBeenNotified)

=============================================================================
