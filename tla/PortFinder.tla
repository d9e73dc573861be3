------------------------------- MODULE PortFinder -------------------------------
(***************************************************************************)
(* PortFinderImpl of serial_server/port_finder.cpp: GetComPort connects to *)
(* the management service of Windows in five steps, queries it for serial  *)
(* ports and gives everything back.  Each step may fail, the result of     *)
(* Connect is ignored, and a failed query returns without Clean.           *)
(*                                                                         *)
(* COM is external: a call succeeds or fails, an object lives until it is  *)
(* released.  A call through a null pointer or on an object that was       *)
(* released is undefined and ends the model.                               *)
(***************************************************************************)
EXTENDS Naturals

CONSTANT MaxCalls   \* bound: calls of GetComPort

ASSUME PortFinderAssumption == MaxCalls \in Nat

VARIABLES
  pc,            \* the step of Connect or GetComPort that comes next
  pSvc_, pLoc_, pEnumerator_,   \* "null", "live" or "released"
  isClean_,
  com,           \* CoInitializeEx less CoUninitialize
  refs,          \* refs[o]: references to objects of kind o that were taken
  calls,         \* calls of GetComPort
  \* history
  broken,        \* a step of Connect, or a Get, has failed in the last call
  failedQueries  \* calls whose query failed

pointers == <<pSvc_, pLoc_, pEnumerator_>>
history == <<calls, broken, failedQueries>>
vars == <<pc, pointers, isClean_, com, refs, history>>

Objects == {"svc", "loc", "enum"}
PointerStates == {"null", "live", "released"}

Init ==
  /\ pc = "idle"
  /\ pSvc_ = "null" /\ pLoc_ = "null" /\ pEnumerator_ = "null"
  /\ isClean_ = TRUE
  /\ com = 0
  /\ refs = [o \in Objects |-> 0]
  /\ calls = 0
  /\ broken = FALSE /\ failedQueries = 0

Take(o) == refs' = [refs EXCEPT ![o] = @ + 1]
Release(kinds) == refs' = [o \in Objects |-> IF o \in kinds THEN refs[o] - 1 ELSE refs[o]]

\* Somebody asks for the devices.  GetComPort(vid, pid) selects among them.
GetComPort ==
  /\ pc = "idle" /\ calls < MaxCalls
  /\ calls' = calls + 1
  /\ pc' = "initialize"
  /\ broken' = FALSE
  /\ UNCHANGED <<pointers, isClean_, com, refs, failedQueries>>

-----------------------------------------------------------------------------
(* Connect.  Whatever it returns, GetComPort goes on with its query. *)

\* Altered: the first failure is undone like the others.
CoInitializeExUndone ==
  /\ pc = "initialize"
  /\ \/ pc' = "security" /\ com' = com + 1 /\ UNCHANGED broken
     \/ pc' = "query" /\ broken' = TRUE /\ com' = com - 1
  /\ UNCHANGED <<pointers, isClean_, refs, calls, failedQueries>>

CoInitializeEx ==
  /\ pc = "initialize"
  /\ \/ pc' = "security" /\ com' = com + 1 /\ UNCHANGED broken
     \/ pc' = "query" /\ broken' = TRUE /\ UNCHANGED com
  /\ UNCHANGED <<pointers, isClean_, refs, calls, failedQueries>>

\* Altered: COM stays initialised after a failure.
CoInitializeSecurityKept ==
  /\ pc = "security"
  /\ \/ pc' = "locator" /\ UNCHANGED broken
     \/ pc' = "query" /\ broken' = TRUE
  /\ UNCHANGED <<pointers, isClean_, com, refs, calls, failedQueries>>

CoInitializeSecurity ==
  /\ pc = "security"
  /\ \/ pc' = "locator" /\ UNCHANGED <<com, broken>>
     \/ pc' = "query" /\ broken' = TRUE /\ com' = com - 1
  /\ UNCHANGED <<pointers, isClean_, refs, calls, failedQueries>>

CoCreateInstance ==
  /\ pc = "locator"
  /\ \/ pc' = "connect" /\ pLoc_' = "live" /\ Take("loc") /\ UNCHANGED <<com, broken>>
     \/ pc' = "query" /\ pLoc_' = "null" /\ broken' = TRUE /\ com' = com - 1 /\ UNCHANGED refs
  /\ UNCHANGED <<pSvc_, pEnumerator_, isClean_, calls, failedQueries>>

ConnectServer ==
  /\ pc = "connect"
  /\ \/ /\ pc' = "blanket" /\ pSvc_' = "live" /\ Take("svc")
        /\ UNCHANGED <<pLoc_, com, broken>>
     \/ /\ pc' = "query" /\ broken' = TRUE
        /\ pSvc_' = "null" /\ pLoc_' = "released" /\ Release({"loc"})
        /\ com' = com - 1
  /\ UNCHANGED <<pEnumerator_, isClean_, calls, failedQueries>>

\* The last step: Connect succeeds and there is something to clean.
CoSetProxyBlanket ==
  /\ pc = "blanket"
  /\ pc' = "query"
  /\ \/ isClean_' = FALSE /\ UNCHANGED <<pSvc_, pLoc_, com, refs, broken>>
     \/ /\ broken' = TRUE
        /\ pSvc_' = "released" /\ pLoc_' = "released" /\ Release({"svc", "loc"})
        /\ com' = com - 1
        /\ UNCHANGED isClean_
  /\ UNCHANGED <<pEnumerator_, calls, failedQueries>>

Connect ==
  CoInitializeEx \/ CoInitializeSecurity \/ CoCreateInstance \/ ConnectServer
  \/ CoSetProxyBlanket

-----------------------------------------------------------------------------
(* The query. *)

\* ExecQuery, through pSvc_ whatever it points to; a failure returns at once.
ExecQuery ==
  /\ pc = "query" /\ pSvc_ = "live"
  /\ \/ pc' = "next" /\ pEnumerator_' = "live" /\ Take("enum") /\ UNCHANGED failedQueries
     \/ /\ pc' = "idle" /\ pEnumerator_' = "null"
        /\ failedQueries' = failedQueries + 1
        /\ UNCHANGED refs
  /\ UNCHANGED <<pSvc_, pLoc_, isClean_, com, calls, broken>>

ExecQueryUndefined ==
  /\ pc = "query" /\ pSvc_ # "live"
  /\ pc' = "undefined"
  /\ UNCHANGED <<pointers, isClean_, com, refs, history>>

\* Next gives a device, whose properties are copied before it is released.  The
\* results of Get are ignored too: after a failure vtProp holds no string.
NextDevice ==
  /\ pc = "next"
  /\ \/ UNCHANGED <<pc, broken>>
     \/ pc' = "undefined" /\ broken' = TRUE
  /\ UNCHANGED <<pointers, isClean_, com, refs, calls, failedQueries>>

\* Next gives no more.
NoMoreDevices ==
  /\ pc = "next"
  /\ pc' = "clean"
  /\ UNCHANGED <<pointers, isClean_, com, refs, history>>

\* The objects that Clean releases are there.
Complete == {pSvc_, pLoc_, pEnumerator_} = {"live"}

\* Clean, which returns at once when isClean_ is set.
Clean ==
  /\ pc = "clean"
  /\ pc' = IF isClean_ \/ Complete THEN "idle" ELSE "undefined"
  /\ IF isClean_ \/ ~Complete
     THEN UNCHANGED <<pointers, isClean_, com, refs>>
     ELSE /\ pSvc_' = "released" /\ pLoc_' = "released" /\ pEnumerator_' = "released"
          /\ Release(Objects)
          /\ com' = com - 1
          /\ isClean_' = TRUE
  /\ UNCHANGED history

Query == ExecQuery \/ ExecQueryUndefined \/ NextDevice \/ NoMoreDevices \/ Clean

Next == GetComPort \/ Connect \/ Query

Spec == Init /\ [][Next]_vars

-----------------------------------------------------------------------------
TypeOK ==
  /\ pc \in {"idle", "initialize", "security", "locator", "connect", "blanket",
             "query", "next", "clean", "undefined"}
  /\ pSvc_ \in PointerStates /\ pLoc_ \in PointerStates /\ pEnumerator_ \in PointerStates
  /\ isClean_ \in BOOLEAN
  /\ com \in Nat
  /\ refs \in [Objects -> Nat]
  /\ calls \in 0..MaxCalls
  /\ broken \in BOOLEAN
  /\ failedQueries \in Nat

\* What is held was taken by whole sessions: no path takes one thing and gives back
\* another.
Balanced == com = refs["loc"] /\ com = refs["svc"] /\ refs["enum"] = 0

\* isClean_ tells whether there is a service to release, for the early return of Clean.
FlagTellsService == isClean_ <=> pSvc_ # "live"

\* Whatever failed in which call: between two calls the references held are those of
\* whole sessions, of one for each failed query at most, and isClean_ is true to the
\* service.  The calls through a null or released pointer are due to a failure in the
\* same call, never to what an earlier one left; and when the query goes on although
\* Connect has failed, it is on a session that a failed query left behind.
SessionsAreAccountedFor ==
  /\ pc = "idle" => Balanced /\ FlagTellsService /\ com <= failedQueries
  /\ pc = "undefined" => broken
  /\ pc \in {"next", "clean"} /\ broken => 1 <= com /\ com <= failedQueries

=============================================================================
