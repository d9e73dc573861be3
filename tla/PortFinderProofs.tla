---------------------------- MODULE PortFinderProofs ----------------------------
(***************************************************************************)
(* Proofs about PortFinder, for any number of calls.                       *)
(***************************************************************************)
EXTENDS PortFinder, Integers, TLAPS

\* What is held at each step: COM was initialised once more than there are locators
\* until the locator is there, and a locator is there before its service.
HeldInv ==
  /\ pc \in {"security", "locator"} => com = refs["loc"] + 1
  /\ pc \notin {"security", "locator", "undefined"} => com = refs["loc"]
  /\ pc = "connect" => refs["loc"] = refs["svc"] + 1
  /\ pc \notin {"connect", "undefined"} => refs["loc"] = refs["svc"]
  /\ pc \in {"next", "clean"} => refs["enum"] = 1
  /\ pc \notin {"next", "clean", "undefined"} => refs["enum"] = 0

\* A service that Clean is to release is one of those held; while the last step of
\* Connect is under way there is one more.
ServiceInv ==
  /\ pc # "undefined" /\ ~isClean_ => refs["svc"] >= 1
  /\ pc = "blanket" => refs["svc"] >= 1 /\ (~isClean_ => refs["svc"] >= 2)
  /\ pc \in {"idle", "initialize", "security", "locator", "connect"} => FlagTellsService
  /\ pc = "query" /\ pSvc_ = "live" => ~isClean_
  /\ pc \in {"next", "clean"} => pSvc_ = "live" /\ ~isClean_

\* In a call in which nothing has failed yet, the objects that were taken are there; the
\* steps of Connect are come to in such a call only.
SmoothInv ==
  /\ pc = "undefined" => broken
  /\ pc \in {"initialize", "security", "locator", "connect", "blanket"} => ~broken
  /\ ~broken =>
       /\ pc \in {"connect", "blanket", "query", "next", "clean"} => pLoc_ = "live"
       /\ pc \in {"blanket", "query", "next", "clean"} => pSvc_ = "live"
       /\ pc \in {"next", "clean"} => pEnumerator_ = "live"

\* A failed query leaves one session behind, and a call whose Connect has not failed
\* has one of its own.
LeakInv ==
  /\ pc \in {"idle", "initialize"} => com <= failedQueries
  /\ pc \in {"security", "locator", "connect", "blanket"} => com <= failedQueries + 1
  /\ pc \in {"query", "next", "clean"} /\ ~broken => com <= failedQueries + 1
  /\ pc \in {"query", "next", "clean"} /\ broken => com <= failedQueries

Inv == TypeOK /\ HeldInv /\ ServiceInv /\ SmoothInv /\ LeakInv

\* TypeOK in two parts, for the two provers.
FlagsTyped == isClean_ \in BOOLEAN /\ broken \in BOOLEAN

CountsTyped ==
  /\ pc \in {"idle", "initialize", "security", "locator", "connect", "blanket",
             "query", "next", "clean", "undefined"}
  /\ pSvc_ \in PointerStates /\ pLoc_ \in PointerStates /\ pEnumerator_ \in PointerStates
  /\ com \in Nat
  /\ refs \in [Objects -> Nat]
  /\ calls \in 0..MaxCalls
  /\ failedQueries \in Nat

\* The type invariant in two parts.
LEMMA TypeParts == TypeOK <=> FlagsTyped /\ CountsTyped
  BY DEF TypeOK, FlagsTyped, CountsTyped

\* Before the first call nothing is held.
LEMMA InitInv == Init => Inv
<1> SUFFICES ASSUME Init PROVE Inv
  OBVIOUS
<1>1. FlagsTyped
  BY Zenon DEF Init, FlagsTyped
<1>2. CountsTyped
  BY PortFinderAssumption DEF PortFinderAssumption, Init, CountsTyped, Objects, PointerStates
<1>3. HeldInv /\ ServiceInv /\ SmoothInv /\ LeakInv
  BY DEF Init, HeldInv, ServiceInv, SmoothInv, LeakInv, Objects, FlagTellsService
<1>4. QED
  BY <1>1, <1>2, <1>3, TypeParts DEF Inv

\* The flags are only set to constants.
LEMMA FlagsStep == FlagsTyped /\ [Next]_vars => FlagsTyped'
  BY Zenon
  DEF FlagsTyped, Next, Connect, Query, GetComPort, CoInitializeEx, CoInitializeSecurity,
      CoCreateInstance, ConnectServer, CoSetProxyBlanket, ExecQuery, ExecQueryUndefined,
      NextDevice, NoMoreDevices, Clean, history, vars

\* Every step keeps the account, the early returns and the failures included.
LEMMA NextInv == Inv /\ [Next]_vars => Inv'
<1> SUFFICES ASSUME Inv, [Next]_vars PROVE Inv'
  OBVIOUS
<1> USE DEF Objects, Take, Release, pointers, history, Complete
<1>0. TypeOK /\ CountsTyped /\ HeldInv /\ ServiceInv /\ SmoothInv /\ LeakInv /\ FlagsTyped'
  BY FlagsStep, TypeParts DEF Inv
<1> SUFFICES CountsTyped' /\ HeldInv' /\ ServiceInv' /\ SmoothInv' /\ LeakInv'
  BY <1>0, TypeParts DEF Inv, TypeOK, CountsTyped, FlagsTyped
<1>1. CASE GetComPort
  <2>1. CountsTyped'
    BY PortFinderAssumption, <1>0, <1>1
    DEF GetComPort, PortFinderAssumption, CountsTyped, PointerStates, HeldInv, ServiceInv
  <2>2. HeldInv'
    BY <1>0, <1>1 DEF GetComPort, CountsTyped, HeldInv
  <2>3. ServiceInv'
    BY <1>0, <1>1 DEF GetComPort, TypeOK, HeldInv, ServiceInv, FlagTellsService
  <2>4. SmoothInv'
    BY <1>0, <1>1 DEF GetComPort, TypeOK, HeldInv, ServiceInv, FlagTellsService, SmoothInv
  <2>5. LeakInv'
    BY <1>0, <1>1 DEF GetComPort, TypeOK, HeldInv, ServiceInv, SmoothInv, LeakInv
  <2>6. QED
    BY <2>1, <2>2, <2>3, <2>4, <2>5
<1>2. CASE CoInitializeEx
  <2>1. CountsTyped'
    BY <1>0, <1>2 DEF CoInitializeEx, CountsTyped, PointerStates, HeldInv, ServiceInv
  <2>2. HeldInv'
    BY <1>0, <1>2 DEF CoInitializeEx, CountsTyped, HeldInv
  <2>3. ServiceInv'
    BY <1>0, <1>2 DEF CoInitializeEx, TypeOK, HeldInv, ServiceInv, FlagTellsService
  <2>4. SmoothInv'
    BY <1>0, <1>2 DEF CoInitializeEx, TypeOK, HeldInv, ServiceInv, FlagTellsService, SmoothInv
  <2>5. LeakInv'
    BY <1>0, <1>2 DEF CoInitializeEx, TypeOK, HeldInv, ServiceInv, SmoothInv, LeakInv
  <2>6. QED
    BY <2>1, <2>2, <2>3, <2>4, <2>5
<1>3. CASE CoInitializeSecurity
  <2>1. CountsTyped'
    BY <1>0, <1>3 DEF CoInitializeSecurity, CountsTyped, PointerStates, HeldInv, ServiceInv
  <2>2. HeldInv'
    BY <1>0, <1>3 DEF CoInitializeSecurity, CountsTyped, HeldInv
  <2>3. ServiceInv'
    BY <1>0, <1>3 DEF CoInitializeSecurity, TypeOK, HeldInv, ServiceInv, FlagTellsService
  <2>4. SmoothInv'
    BY <1>0, <1>3 DEF CoInitializeSecurity, TypeOK, HeldInv, ServiceInv, FlagTellsService, SmoothInv
  <2>5. LeakInv'
    BY <1>0, <1>3 DEF CoInitializeSecurity, TypeOK, HeldInv, ServiceInv, SmoothInv, LeakInv
  <2>6. QED
    BY <2>1, <2>2, <2>3, <2>4, <2>5
<1>4. CASE CoCreateInstance
  <2>1. CountsTyped'
    BY <1>0, <1>4 DEF CoCreateInstance, CountsTyped, PointerStates, HeldInv, ServiceInv
  <2>2. HeldInv'
    BY <1>0, <1>4 DEF CoCreateInstance, CountsTyped, HeldInv
  <2>3. ServiceInv'
    BY <1>0, <1>4 DEF CoCreateInstance, TypeOK, HeldInv, ServiceInv, FlagTellsService
  <2>4. SmoothInv'
    BY <1>0, <1>4 DEF CoCreateInstance, TypeOK, HeldInv, ServiceInv, FlagTellsService, SmoothInv
  <2>5. LeakInv'
    BY <1>0, <1>4 DEF CoCreateInstance, TypeOK, HeldInv, ServiceInv, SmoothInv, LeakInv
  <2>6. QED
    BY <2>1, <2>2, <2>3, <2>4, <2>5
<1>5. CASE ConnectServer
  <2>1. CountsTyped'
    BY <1>0, <1>5 DEF ConnectServer, CountsTyped, PointerStates, HeldInv, ServiceInv
  <2>2. HeldInv'
    BY <1>0, <1>5 DEF ConnectServer, CountsTyped, HeldInv
  <2>3. ServiceInv'
    BY <1>0, <1>5 DEF ConnectServer, TypeOK, HeldInv, ServiceInv, FlagTellsService
  <2>4. SmoothInv'
    BY <1>0, <1>5 DEF ConnectServer, TypeOK, HeldInv, ServiceInv, FlagTellsService, SmoothInv
  <2>5. LeakInv'
    BY <1>0, <1>5 DEF ConnectServer, TypeOK, HeldInv, ServiceInv, SmoothInv, LeakInv
  <2>6. QED
    BY <2>1, <2>2, <2>3, <2>4, <2>5
<1>6. CASE CoSetProxyBlanket
  <2>1. CountsTyped'
    BY <1>0, <1>6 DEF CoSetProxyBlanket, CountsTyped, PointerStates, HeldInv, ServiceInv
  <2>2. HeldInv'
    BY <1>0, <1>6 DEF CoSetProxyBlanket, CountsTyped, HeldInv
  <2>3. ServiceInv'
    BY <1>0, <1>6 DEF CoSetProxyBlanket, TypeOK, HeldInv, ServiceInv, FlagTellsService
  <2>4. SmoothInv'
    BY <1>0, <1>6 DEF CoSetProxyBlanket, TypeOK, HeldInv, ServiceInv, FlagTellsService, SmoothInv
  <2>5. LeakInv'
    BY <1>0, <1>6 DEF CoSetProxyBlanket, TypeOK, HeldInv, ServiceInv, SmoothInv, LeakInv
  <2>6. QED
    BY <2>1, <2>2, <2>3, <2>4, <2>5
<1>7. CASE ExecQuery
  <2>1. CountsTyped'
    BY <1>0, <1>7 DEF ExecQuery, CountsTyped, PointerStates, HeldInv, ServiceInv
  <2>2. HeldInv'
    BY <1>0, <1>7 DEF ExecQuery, CountsTyped, HeldInv
  <2>3. ServiceInv'
    BY <1>0, <1>7 DEF ExecQuery, TypeOK, HeldInv, ServiceInv, FlagTellsService
  <2>4. SmoothInv'
    BY <1>0, <1>7 DEF ExecQuery, TypeOK, HeldInv, ServiceInv, FlagTellsService, SmoothInv
  <2>5. LeakInv'
    BY <1>0, <1>7 DEF ExecQuery, TypeOK, HeldInv, ServiceInv, SmoothInv, LeakInv
  <2>6. QED
    BY <2>1, <2>2, <2>3, <2>4, <2>5
<1>8. CASE ExecQueryUndefined
  <2>1. CountsTyped'
    BY <1>0, <1>8 DEF ExecQueryUndefined, CountsTyped, PointerStates, HeldInv, ServiceInv
  <2>2. HeldInv'
    BY <1>0, <1>8 DEF ExecQueryUndefined, CountsTyped, HeldInv
  <2>3. ServiceInv'
    BY <1>0, <1>8 DEF ExecQueryUndefined, TypeOK, HeldInv, ServiceInv, FlagTellsService
  <2>4. SmoothInv'
    BY <1>0, <1>8 DEF ExecQueryUndefined, TypeOK, HeldInv, ServiceInv, FlagTellsService, SmoothInv
  <2>5. LeakInv'
    BY <1>0, <1>8 DEF ExecQueryUndefined, TypeOK, HeldInv, ServiceInv, SmoothInv, LeakInv
  <2>6. QED
    BY <2>1, <2>2, <2>3, <2>4, <2>5
<1>9. CASE NextDevice
  <2>1. CountsTyped'
    BY <1>0, <1>9 DEF NextDevice, CountsTyped, PointerStates, HeldInv, ServiceInv
  <2>2. HeldInv'
    BY <1>0, <1>9 DEF NextDevice, CountsTyped, HeldInv
  <2>3. ServiceInv'
    BY <1>0, <1>9 DEF NextDevice, TypeOK, HeldInv, ServiceInv, FlagTellsService
  <2>4. SmoothInv'
    BY <1>0, <1>9 DEF NextDevice, TypeOK, HeldInv, ServiceInv, FlagTellsService, SmoothInv
  <2>5. LeakInv'
    BY <1>0, <1>9 DEF NextDevice, TypeOK, HeldInv, ServiceInv, SmoothInv, LeakInv
  <2>6. QED
    BY <2>1, <2>2, <2>3, <2>4, <2>5
<1>10. CASE NoMoreDevices
  <2>1. CountsTyped'
    BY <1>0, <1>10 DEF NoMoreDevices, CountsTyped, PointerStates, HeldInv, ServiceInv
  <2>2. HeldInv'
    BY <1>0, <1>10 DEF NoMoreDevices, CountsTyped, HeldInv
  <2>3. ServiceInv'
    BY <1>0, <1>10 DEF NoMoreDevices, TypeOK, HeldInv, ServiceInv, FlagTellsService
  <2>4. SmoothInv'
    BY <1>0, <1>10 DEF NoMoreDevices, TypeOK, HeldInv, ServiceInv, FlagTellsService, SmoothInv
  <2>5. LeakInv'
    BY <1>0, <1>10 DEF NoMoreDevices, TypeOK, HeldInv, ServiceInv, SmoothInv, LeakInv
  <2>6. QED
    BY <2>1, <2>2, <2>3, <2>4, <2>5
<1>11. CASE Clean
  <2>1. pc = "clean" /\ ~isClean_
    BY <1>0, <1>11 DEF Clean, ServiceInv
  <2>2. CASE Complete
    <3>1. /\ pc' = "idle" /\ com' = com - 1 /\ isClean_' = TRUE
          /\ pSvc_' = "released" /\ pLoc_' = "released" /\ pEnumerator_' = "released"
          /\ refs' = [o \in {"svc", "loc", "enum"} |-> refs[o] - 1]
      BY <2>1, <2>2, <1>11 DEF Clean
    <3>2. UNCHANGED <<calls, broken, failedQueries>>
      BY <1>11 DEF Clean
    <3> HIDE DEF Complete
    <3>3. CountsTyped' /\ HeldInv'
      BY <1>0, <2>1, <3>1, <3>2 DEF CountsTyped, PointerStates, HeldInv, ServiceInv
    <3>4. ServiceInv' /\ SmoothInv' /\ LeakInv'
      BY <1>0, <2>1, <3>1, <3>2
      DEF TypeOK, HeldInv, ServiceInv, FlagTellsService, SmoothInv, LeakInv
    <3>5. QED
      BY <3>3, <3>4
  <2>3. CASE ~Complete
    <3>1. pc' = "undefined" /\ UNCHANGED <<pSvc_, pLoc_, pEnumerator_, isClean_, com, refs>>
      BY <2>1, <2>3, <1>11 DEF Clean
    <3>2. UNCHANGED <<calls, broken, failedQueries>>
      BY <1>11 DEF Clean
    <3>3. broken
      BY <1>0, <2>1, <2>3 DEF SmoothInv, ServiceInv
    <3>4. broken'
      BY <3>2, <3>3
    <3> HIDE DEF Complete
    <3>5. CountsTyped' /\ HeldInv' /\ ServiceInv' /\ LeakInv'
      BY <1>0, <2>1, <3>1, <3>2 DEF CountsTyped, HeldInv, ServiceInv, LeakInv
    <3>6. SmoothInv'
      BY <3>1, <3>4 DEF SmoothInv
    <3>7. QED
      BY <3>5, <3>6
  <2>4. QED
    BY <2>2, <2>3
<1>12. CASE UNCHANGED vars
  BY <1>0, <1>12 DEF vars, CountsTyped, HeldInv, ServiceInv, FlagTellsService, SmoothInv, LeakInv
<1>13. QED
  BY <1>1, <1>2, <1>3, <1>4, <1>5, <1>6, <1>7, <1>8, <1>9, <1>10, <1>11, <1>12
  DEF Next, Connect, Query

\* The invariant holds through every call and every failure.
LEMMA InvHolds == Spec => []Inv
  BY InitInv, NextInv, PTL DEF Spec

\* The pointers, the counts and the place in GetComPort keep their types: nothing is
\* released or uninitialised more often than it was taken.
THEOREM FinderTypeCorrect == Spec => []TypeOK
<1>1. Inv => TypeOK
  BY DEF Inv
<1>2. QED
  BY <1>1, InvHolds, PTL

\* Between two calls of GetComPort only whole sessions are held, one for each failed query
\* at most, and isClean_ is true to the service; what is undefined comes from a failure of
\* the same call, and a query that goes on after one uses a session left behind.
THEOREM FinderAccountsForSessions == Spec => []SessionsAreAccountedFor
<1>1. Inv => SessionsAreAccountedFor
  BY DEF Inv, TypeOK, SessionsAreAccountedFor, Balanced, HeldInv, ServiceInv, SmoothInv, LeakInv
<1>2. QED
  BY <1>1, InvHolds, PTL

=============================================================================
