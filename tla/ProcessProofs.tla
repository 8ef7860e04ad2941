--------------------------- MODULE ProcessProofs ---------------------------
(***************************************************************************)
(* Proofs about the life of the process, for any transports and any number *)
(* of HTTP requests.                                                       *)
(***************************************************************************)
EXTENDS Process, TLAPS

Running == mcp \in {"starting", "serving", "interrupted"} \/ http = "listening"

\* The components run exactly while run waits for them, with the store open;
\* the first error cancels the group's context, and is not replaced.
LifeInv ==
    /\ Running => main = "serving"
    /\ main \in {"wiring", "serving"} => store = "open"
    /\ firstErr # "none" => stopping
    /\ early => firstErr = "failed"
    /\ exit = "success" => main = "exited" /\ firstErr # "failed"

\* The variables of the process keep their ranges.
THEOREM TypeCorrect == Spec => []TypeOK
  <1>1. Init => TypeOK
    <2> SUFFICES ASSUME Init PROVE TypeOK
      OBVIOUS
    <2>1. requests \in 0..MaxRequests
      BY MaxRequestsAssumption DEF Init
    <2> QED
      BY <2>1 DEF Init, TypeOK
  <1>2. TypeOK /\ [Next]_vars => TypeOK'
    <2> SUFFICES ASSUME TypeOK, [Next]_vars PROVE TypeOK'
      OBVIOUS
    <2>0. CASE Load \/ LoadFails \/ Killed
      BY <2>0 DEF TypeOK, Load, LoadFails, Killed, components
    <2>1. CASE Signal
      BY <2>1 DEF TypeOK, Signal
    <2>2. CASE OpenStore \/ BuildFails \/ Built
      BY <2>2 DEF TypeOK, OpenStore, BuildFails, Built, components
    <2>3. CASE McpStarts
      BY <2>3 DEF TypeOK, McpStarts
    <2> DEFINE Kept == /\ firstErr' \in {"none", "failed", "cancelled"}
                       /\ stopping' \in BOOLEAN /\ early' \in BOOLEAN
    <2>3a. ASSUME NEW result \in Returned, Report(result) PROVE Kept
      BY <2>3a DEF TypeOK, Report, Returned
    <2> HIDE DEF Kept
    <2>4. ASSUME NEW result \in Returned, McpReturns(result) PROVE TypeOK'
      <3>1. Kept
        BY <2>3a, <2>4 DEF McpReturns
      <3> QED
        BY <2>4, <3>1 DEF Kept, TypeOK, McpReturns
    <2>5. ASSUME NEW result \in Returned, HttpReturns(result) PROVE TypeOK'
      <3>1. Kept
        BY <2>3a, <2>5 DEF HttpReturns
      <3> QED
        BY <2>5, <3>1 DEF Kept, TypeOK, HttpReturns
    <2>6. CASE UnknownTransport \/ InputEnds \/ McpFails \/ Interrupted
      BY <2>4, <2>6
      DEF UnknownTransport, InputEnds, McpFails, Interrupted, Returned
    <2>7. CASE ListenFails \/ HttpStops
      BY <2>5, <2>7 DEF ListenFails, HttpStops, Returned
    <2>8. CASE Accept \/ Answer
      BY <2>8, MaxRequestsAssumption DEF TypeOK, Accept, Answer
    <2>9. CASE Wait \/ Shutdown
      BY <2>9 DEF TypeOK, Wait, Shutdown, components
    <2>10. CASE Waiting \/ UNCHANGED vars
      BY <2>10 DEF TypeOK, Waiting, vars
    <2> QED
      BY <2>0, <2>1, <2>2, <2>3, <2>6, <2>7, <2>8, <2>9, <2>10 DEF Next
  <1> QED
    BY <1>1, <1>2, PTL DEF Spec

\* The life of the process follows LifeInv.
LEMMA Life == Spec => []LifeInv
  <1>1. Init => LifeInv
    BY DEF Init, LifeInv, Running
  <1>2. TypeOK /\ LifeInv /\ [Next]_vars => LifeInv'
    <2> SUFFICES ASSUME TypeOK, LifeInv, [Next]_vars PROVE LifeInv'
      OBVIOUS
    <2>0. CASE Load \/ LoadFails \/ Killed
      BY <2>0 DEF LifeInv, Running, Load, LoadFails, Killed, components
    <2>1. CASE Signal
      BY <2>1 DEF TypeOK, LifeInv, Running, Signal
    <2>2. CASE OpenStore \/ BuildFails \/ Built
      BY <2>2 DEF LifeInv, Running, OpenStore, BuildFails, Built, components
    <2>3. CASE McpStarts
      BY <2>3 DEF LifeInv, Running, McpStarts
    \* Only a running component returns, hence while run waits.
    <2>4. ASSUME Running, NEW result \in Returned,
                 McpReturns(result) \/ HttpReturns(result)
          PROVE  LifeInv'
      <3>1. /\ main = "serving" /\ main' = main /\ store' = store
            /\ exit' = exit /\ exit # "success"
        BY <2>4 DEF LifeInv, McpReturns, HttpReturns
      <3>2. /\ firstErr' # "none" => stopping'
            /\ early' => firstErr' = "failed"
        BY <2>4 DEF LifeInv, TypeOK, McpReturns, HttpReturns, Report, Returned
      <3> QED
        BY <3>1, <3>2 DEF LifeInv
    <2>5. CASE UnknownTransport \/ InputEnds \/ McpFails \/ Interrupted
      BY <2>4, <2>5
      DEF UnknownTransport, InputEnds, McpFails, Interrupted, Returned,
          Running
    <2>6. CASE ListenFails \/ HttpStops
      BY <2>4, <2>6 DEF ListenFails, HttpStops, Returned, Running
    <2>7. CASE Accept \/ Answer
      BY <2>7 DEF LifeInv, Running, Accept, Answer
    <2>8. CASE Wait
      BY <2>8 DEF LifeInv, Running, Wait, components, Returned
    <2>9. CASE Shutdown
      BY <2>9 DEF LifeInv, Running, Shutdown, components
    <2>10. CASE Waiting \/ UNCHANGED vars
      BY <2>10 DEF LifeInv, Running, Waiting, vars
    <2> QED
      BY <2>0, <2>1, <2>2, <2>3, <2>5, <2>6, <2>7, <2>8, <2>9, <2>10 DEF Next
  <1> QED
    BY <1>1, <1>2, TypeCorrect, PTL DEF Spec

\* While a component runs, the store its handlers use is open.
THEOREM StoreIsOpen == Spec => []OpenWhileServing
  <1>1. LifeInv => OpenWhileServing
    BY DEF LifeInv, Running, OpenWhileServing
  <1> QED
    BY <1>1, Life, PTL

\* A component that fails before anybody wanted the process to stop turns up
\* in the exit status.
THEOREM FailureReported == Spec => []FailureIsReported
  <1>1. LifeInv => FailureIsReported
    BY DEF LifeInv, FailureIsReported
  <1> QED
    BY <1>1, Life, PTL
=============================================================================
