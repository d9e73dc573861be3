---------------------------- MODULE FifoBroadcast ----------------------------
(***************************************************************************)
(* What the data dispatcher promises its clients, with no threads, locks   *)
(* or queues: a log of everything published, and for each subscriber the   *)
(* stretch of the log it has received.  Delivery goes in rounds.  A        *)
(* subscriber joins between two rounds and from then on receives every     *)
(* entry of the log, once, in the order of the log.                        *)
(***************************************************************************)
EXTENDS Naturals, Sequences

CONSTANTS
  Data,         \* what can be published
  Recipients    \* who can subscribe

VARIABLES
  log,          \* everything published so far, in order
  subscribers,  \* the recipients that have joined
  start,        \* start[r]: how much of the log went by before r joined
  received      \* received[r]: what r has received since it joined

vars == <<log, subscribers, start, received>>

\* How far into the log recipient r has got.
Position(r) == start[r] + Len(received[r])

Init ==
  /\ log = <<>>
  /\ subscribers = {}
  /\ start = [r \in Recipients |-> 0]
  /\ received = [r \in Recipients |-> <<>>]

Publish(d) ==
  /\ log' = Append(log, d)
  /\ UNCHANGED <<subscribers, start, received>>

\* r joins between two rounds: where every other subscriber stands.
Subscribe(r, at) ==
  /\ r \notin subscribers
  /\ \A q \in subscribers : Position(q) = at
  /\ subscribers' = subscribers \cup {r}
  /\ start' = [start EXCEPT ![r] = at]
  /\ UNCHANGED <<log, received>>

\* r receives the next entry of the log; nobody gets a round ahead.
Deliver(r) ==
  /\ r \in subscribers
  /\ Position(r) < Len(log)
  /\ \A q \in subscribers : Position(r) <= Position(q)
  /\ received' = [received EXCEPT ![r] = Append(@, log[Position(r) + 1])]
  /\ UNCHANGED <<log, subscribers, start>>

Next ==
  \/ \E d \in Data : Publish(d)
  \/ \E r \in Recipients, at \in 0..Len(log) : Subscribe(r, at)
  \/ \E r \in Recipients : Deliver(r)

Spec == Init /\ [][Next]_vars

=============================================================================
