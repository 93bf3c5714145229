------------------------- MODULE SscAdaptorsProofs -------------------------
(***************************************************************************)
(* Proofs about SscAdaptors, for any number of adaptors and sensors.       *)
(***************************************************************************)
EXTENDS SscAdaptors, TLAPS

\* Where the main thread may wait, and in what state the adaptor it works for
\* is there: only an open_sync that has not returned leaves a sensor not open.
CallInv ==
    /\ call.at \in {"new", "open", "close"} =>
          /\ call.of \in Adaptors
          /\ alive[call.of]
    /\ call.at = "new" => sensor[call.of] = NoSensor /\ timer[call.of] = "active"
    /\ call.at = "open" => sensor[call.of] # NoSensor /\ ~sensorOpen[call.of]
    /\ call.at = "close" => sensorOpen[call.of]

\* A sensor_ that is not null is referenced, connected to its own adaptor and
\* pumped; sensorOpen_ implies it, and only open_sync delays sensorOpen_.
SensorInv ==
    \A a \in Adaptors :
        /\ sensor[a] # NoSensor =>
              /\ sensor[a] \in held
              /\ handler[sensor[a]] = a
              /\ timer[a] = "active"
              /\ alive[a]
              /\ sensorOpen[a] \/ (call.at = "open" /\ call.of = a)
        /\ sensorOpen[a] => sensor[a] # NoSensor
        /\ told[a] => sensorOpen[a]
        /\ sensorOpen[a] => sensor[a] \in stream \cup cut

\* A reference belongs to the adaptor whose sensor_ it is.
HeldInv ==
    /\ \A s \in held : \E a \in Adaptors : sensor[a] = s
    /\ stream \subseteq held

\* The inductive invariant.
IInv == TypeOK /\ CallInv /\ SensorInv /\ HeldInv /\ NoDeadCallback

-----------------------------------------------------------------------------
\* What IInv is for: it implies every invariant the runs check.
LEMMA IInvImplies ==
    ASSUME IInv
    PROVE  NoDeadCallback /\ NoLeak /\ OpenIsWired /\ AnswerIsTrue
<1>1. NoDeadCallback
  BY DEF IInv
<1>2. NoLeak
  BY ConstantsAssumption DEF IInv, NoLeak, HeldInv, SensorInv, TypeOK, Free
<1>3. OpenIsWired
  BY DEF IInv, OpenIsWired, SensorInv
<1>4. AnswerIsTrue
  BY DEF IInv, AnswerIsTrue, SensorInv
<1>5. QED
  BY <1>1, <1>2, <1>3, <1>4

LEMMA InitIInv == Init => IInv
<1>1. SUFFICES ASSUME Init PROVE IInv
  OBVIOUS
<1>2. TypeOK
  BY <1>1, ConstantsAssumption DEF Init, TypeOK, Idle, Places, Purposes
<1>3. CallInv /\ SensorInv /\ HeldInv /\ NoDeadCallback
  BY <1>1, ConstantsAssumption
     DEF Init, CallInv, SensorInv, HeldInv, NoDeadCallback, Idle
<1>4. QED
  BY <1>2, <1>3 DEF IInv

-----------------------------------------------------------------------------
\* Every step keeps the inductive invariant: one step per action.
LEMMA StepIInv == IInv /\ [Next]_vars => IInv'
<1> USE ConstantsAssumption
    DEF IInv, TypeOK, CallInv, SensorInv, HeldInv, NoDeadCallback,
        vars, adaptorVars, libVars, Places, Purposes
<1>1. SUFFICES ASSUME IInv, [Next]_vars PROVE IInv'
  OBVIOUS
<1>2. ASSUME NEW a \in Adaptors, Construct(a) PROVE IInv'
  BY <1>1, <1>2 DEF Construct, Free
<1>3. ASSUME NEW a \in Adaptors, startAdaptor(a) PROVE IInv'
  BY <1>1, <1>3 DEF startAdaptor, StartTimer, Free
<1>4. ASSUME NEW a \in Adaptors, startSensor(a) PROVE IInv'
  <2>1. CASE sensorOpen[a]
    <3>1. /\ told' = [told EXCEPT ![a] = TRUE]
          /\ UNCHANGED <<alive, sensor, sensorOpen, timer, newest, call, libVars>>
      BY <1>4, <2>1 DEF startSensor
    <3>2. TypeOK' /\ CallInv' /\ HeldInv' /\ NoDeadCallback'
      BY <1>1, <3>1
    <3>3. SensorInv'
      BY <1>1, <2>1, <3>1
    <3>4. QED
      BY <3>2, <3>3
  <2>2. CASE ~sensorOpen[a]
    <3>1. sensor[a] = NoSensor
      BY <1>1, <1>4, <2>2 DEF startSensor, Free
    <3>2. TypeOK' /\ CallInv' /\ HeldInv' /\ NoDeadCallback'
      BY <1>1, <1>4, <2>2, <3>1 DEF startSensor, StartTimer, In, Free
    <3>3. SensorInv'
      BY <1>1, <1>4, <2>2, <3>1 DEF startSensor, StartTimer, In, Free
    <3>4. QED
      BY <3>2, <3>3
  <2>3. QED
    BY <2>1, <2>2
<1>5. ASSUME NEW a \in Adaptors, NewSucceeds(a) PROVE IInv'
  <2>1. PICK s \in Sensors :
           /\ Fresh(s)
           /\ sensor' = [sensor EXCEPT ![a] = s]
           /\ held' = held \cup {s}
           /\ handler' = [handler EXCEPT ![s] = a]
           /\ cut' = cut \ {s}
    BY <1>5 DEF NewSucceeds
  <2>2. /\ sensor[a] = NoSensor /\ ~sensorOpen[a] /\ timer[a] = "active"
        /\ alive[a]
    BY <1>1, <1>5 DEF NewSucceeds
  <2>3. /\ s \notin held /\ s # NoSensor
        /\ \A b \in Adaptors : sensor[b] # s
    BY <1>1, <2>1 DEF Fresh
  <2>4. TypeOK' /\ CallInv'
    BY <1>1, <1>5, <2>1, <2>2, <2>3 DEF NewSucceeds, In
  <2>5. SensorInv'
    BY <1>1, <1>5, <2>1, <2>2, <2>3 DEF NewSucceeds, In
  <2>6. HeldInv'
    <3>1. \A x \in held' : \E b \in Adaptors : sensor'[b] = x
      BY <1>1, <2>1, <2>2
    <3>2. QED
      BY <1>1, <1>5, <2>1, <3>1 DEF NewSucceeds
  <2>7. NoDeadCallback'
    BY <1>1, <1>5, <2>1, <2>2, <2>3 DEF NewSucceeds
  <2>8. QED
    BY <2>4, <2>5, <2>6, <2>7
<1>6. ASSUME NEW a \in Adaptors, NewFails(a) PROVE IInv'
  BY <1>1, <1>6 DEF NewFails, Idle
<1>7. ASSUME NEW a \in Adaptors, OpenSucceeds(a) PROVE IInv'
  BY <1>1, <1>7 DEF OpenSucceeds, Idle
<1>8. ASSUME NEW a \in Adaptors, OpenFails(a) PROVE IInv'
  BY <1>1, <1>8 DEF OpenFails, Release, Idle
<1>9. ASSUME NEW a \in Adaptors, CloseReturns(a) PROVE IInv'
  BY <1>1, <1>9 DEF CloseReturns, Release, Finish, Idle
<1>10. ASSUME NEW a \in Adaptors, pumpGlib(a) PROVE IInv'
  BY <1>1, <1>10 DEF pumpGlib, In, Free
<1>11. ASSUME NEW a \in Adaptors, NEW purpose \in Purposes, StopOpen(a, purpose) PROVE IInv'
  BY <1>1, <1>11 DEF StopOpen, In, Free
<1>12. ASSUME NEW a \in Adaptors, NEW purpose \in Purposes, StopClosed(a, purpose) PROVE IInv'
  BY <1>1, <1>12 DEF StopClosed, Release, Finish, Idle, Free
<1>13. ASSUME PumpReturns PROVE IInv'
  BY <1>1, <1>13 DEF PumpReturns, Idle
<1>14. ASSUME NEW s \in Sensors, handleMeasurement(s) PROVE IInv'
  BY <1>1, <1>14 DEF handleMeasurement, Iterating
<1>15. ASSUME NEW a \in Adaptors, Enable(a) PROVE IInv'
  BY <1>1, <1>15 DEF Enable
<1>16. ASSUME NEW s \in Sensors, Measure(s) PROVE IInv'
  BY <1>1, <1>16 DEF Measure
<1>17. ASSUME ServiceLost PROVE IInv'
  <2>1. /\ UNCHANGED <<adaptorVars, call, held, handler, pending>>
        /\ up' = FALSE /\ stream' = {} /\ cut' = cut \cup (stream \cap held)
    BY <1>17 DEF ServiceLost
  <2>5. TypeOK'
    BY <1>1, <2>1
  <2>6. CallInv' /\ HeldInv' /\ NoDeadCallback'
    BY <1>1, <2>1
  <2>2. \A b \in Adaptors : sensorOpen[b] => sensor[b] \in cut'
    BY <1>1, <1>17 DEF ServiceLost
  <2>3. SensorInv'
    BY <1>1, <2>1, <2>2
  <2>4. QED
    BY <2>3, <2>5, <2>6
<1>18. ASSUME ServiceBack PROVE IInv'
  BY <1>1, <1>18 DEF ServiceBack
<1>19. CASE UNCHANGED vars
  BY <1>1, <1>19
<1>20. QED
  BY <1>1, <1>2, <1>3, <1>4, <1>5, <1>6, <1>7, <1>8, <1>9, <1>10, <1>11, <1>12, <1>13, <1>14, <1>15, <1>16, <1>17, <1>18, <1>19
     DEF Next, Request, Stop, Returns, Service

\* In every reachable state of every instance, the inductive invariant holds.
THEOREM Invariance == Spec => []IInv
<1>1. QED
  BY InitIInv, StepIInv, PTL DEF Spec

\* Every variable keeps its type.
THEOREM TypeCorrect == Spec => []TypeOK
<1>1. IInv => TypeOK
  BY DEF IInv
<1>2. QED
  BY <1>1, Invariance, PTL

\* Stopping, failing and deleting in any order never leaves a handler that
\* would run on a deleted adaptor or on a sensor that is no longer its own.
THEOREM CallbacksAlive == Spec => []NoDeadCallback
<1>1. QED
  BY Invariance, IInvImplies, PTL

\* No libssc object outlives its adaptor's use of it.
THEOREM ReferencesReturned == Spec => []NoLeak
<1>1. QED
  BY Invariance, IInvImplies, PTL

\* sensorOpen_ implies the whole set-up, the pump timer included.
THEOREM OpenSensorsWired == Spec => []OpenIsWired
<1>1. QED
  BY Invariance, IInvImplies, PTL

\* "running" is said of sensors that were opened and stream, up to a loss of
\* the service.
THEOREM AnswersTrue == Spec => []AnswerIsTrue
<1>1. QED
  BY Invariance, IInvImplies, PTL

-----------------------------------------------------------------------------
\* Only the connected adaptor's own sensor writes to its buffer.
LEMMA MeasurementStep ==
    ASSUME IInv, NEW s \in Sensors, handleMeasurement(s)
    PROVE  \/ handler[s] = NoAdaptor /\ newest' = newest
           \/ /\ handler[s] \in Adaptors
              /\ alive[handler[s]] /\ sensor[handler[s]] = s /\ s # NoSensor
              /\ newest' = [newest EXCEPT ![handler[s]] = s]
<1>1. CASE handler[s] = NoAdaptor
  BY <1>1 DEF handleMeasurement
<1>2. CASE handler[s] # NoAdaptor
  BY <1>2, ConstantsAssumption DEF handleMeasurement, IInv, NoDeadCallback, TypeOK
<1>3. QED
  BY <1>1, <1>2

\* Every action but the constructor and handleMeasurement leaves the newest
\* samples alone.
LEMMA NewestUnchanged ==
    ASSUME [Next]_vars,
           ~\E a \in Adaptors : Construct(a),
           ~\E s \in Sensors : handleMeasurement(s)
    PROVE  newest' = newest
<1> USE DEF vars, adaptorVars, libVars
<1>1. ASSUME NEW a \in Adaptors, Request(a), ~Construct(a) PROVE newest' = newest
  BY <1>1 DEF Request, startAdaptor, startSensor, Stop, StopOpen, StopClosed,
              Finish
<1>2. ASSUME NEW a \in Adaptors, Returns(a) PROVE newest' = newest
  BY <1>2 DEF Returns, NewSucceeds, NewFails, OpenSucceeds, OpenFails,
              CloseReturns, Finish
<1>3. ASSUME NEW a \in Adaptors, pumpGlib(a) PROVE newest' = newest
  BY <1>3 DEF pumpGlib
<1>4. ASSUME PumpReturns PROVE newest' = newest
  BY <1>4 DEF PumpReturns
<1>5. ASSUME Service PROVE newest' = newest
  BY <1>5 DEF Service, Measure, Enable, ServiceLost, ServiceBack
<1>6. CASE UNCHANGED vars
  BY <1>6
<1>7. QED
  BY <1>1, <1>2, <1>3, <1>4, <1>5, <1>6 DEF Next

\* No measurement of an earlier sensor object reaches a buffer.
THEOREM NeverStale == Spec => NoStaleMeasurement
<1> DEFINE Own == \A a \in Adaptors :
                     newest'[a] # newest[a] /\ newest'[a] # NoSensor
                         => newest'[a] = sensor[a]
<1>1. ASSUME IInv, [Next]_vars PROVE Own
  <2>1. CASE \E a \in Adaptors : Construct(a)
    BY <1>1, <2>1 DEF Construct, IInv, TypeOK
  <2>2. CASE \E s \in Sensors : handleMeasurement(s)
    BY <1>1, <2>2, MeasurementStep DEF IInv, TypeOK
  <2>3. CASE /\ ~\E a \in Adaptors : Construct(a)
             /\ ~\E s \in Sensors : handleMeasurement(s)
    BY <1>1, <2>3, NewestUnchanged
  <2>4. QED
    BY <2>1, <2>2, <2>3
<1>2. IInv /\ [Next]_vars => [Own]_vars
  BY <1>1
<1>3. QED
  BY <1>2, Invariance, PTL DEF Spec, NoStaleMeasurement

-----------------------------------------------------------------------------
(* The refinement.                                                         *)

LEMMA FeedInitially == Init => Feed!FeedInit
BY DEF Init, Feed!FeedInit, feedOf, freshOf

\* A step that keeps these four variables is a stutter of the feed.
LEMMA FeedStutter ==
    ASSUME UNCHANGED <<alive, sensor, newest, told>>
    PROVE  UNCHANGED Feed!feedVars
BY DEF Feed!feedVars, feedOf, freshOf

\* Releasing a sensor, with the adaptor kept or deleted, turns its feed off.
LEMMA FeedTurnsOff ==
    ASSUME IInv, NEW a \in Adaptors, alive[a], NEW kept \in BOOLEAN,
           alive' = [alive EXCEPT ![a] = kept],
           sensor' = [sensor EXCEPT ![a] = NoSensor],
           told' = [told EXCEPT ![a] = FALSE],
           newest' = newest
    PROVE  Feed!FeedNext
<1> DEFINE rest == IF kept THEN "off" ELSE "absent"
<1>1. feedOf' = [feedOf EXCEPT ![a] = rest] /\ feedOf[a] # "absent"
  BY DEF feedOf, IInv, TypeOK
<1>2. freshOf' = [freshOf EXCEPT ![a] = FALSE]
  BY DEF freshOf, IInv, TypeOK
<1>3. Feed!TurnOff(a, rest)
  BY <1>1, <1>2 DEF Feed!TurnOff
<1>4. rest \in {"off", "absent"}
  OBVIOUS
<1>5. QED
  BY <1>3, <1>4 DEF Feed!FeedNext

\* Every step of the adaptors is a step of the feed or leaves it alone.
LEMMA FeedStep == IInv /\ [Next]_vars => [Feed!FeedNext]_(Feed!feedVars)
<1> USE ConstantsAssumption DEF vars, adaptorVars, libVars
<1>1. SUFFICES ASSUME IInv, [Next]_vars
               PROVE  Feed!FeedNext \/ UNCHANGED Feed!feedVars
  OBVIOUS
<1>2. ASSUME NEW a \in Adaptors, Construct(a)
      PROVE  Feed!FeedNext \/ UNCHANGED Feed!feedVars
  <2>1. sensor[a] = NoSensor /\ sensor' = sensor
    BY <1>1, <1>2 DEF Construct, IInv, SensorInv, TypeOK
  <2>2. feedOf[a] = "absent" /\ feedOf' = [feedOf EXCEPT ![a] = "off"]
    BY <1>1, <1>2, <2>1 DEF Construct, feedOf, IInv, TypeOK
  <2>3. freshOf' = freshOf
    BY <1>1, <1>2, <2>1 DEF Construct, freshOf, IInv, TypeOK
  <2>4. Feed!Create(a)
    BY <1>2, <2>2, <2>3 DEF Feed!Create, Construct
  <2>5. QED
    BY <2>4 DEF Feed!FeedNext
<1>3. ASSUME NEW a \in Adaptors, startAdaptor(a)
      PROVE  Feed!FeedNext \/ UNCHANGED Feed!feedVars
  BY <1>3, FeedStutter DEF startAdaptor
<1>4. ASSUME NEW a \in Adaptors, startSensor(a)
      PROVE  Feed!FeedNext \/ UNCHANGED Feed!feedVars
  <2>1. CASE sensorOpen[a]
    <3>1. feedOf[a] = "on"
      BY <1>1, <1>4, <2>1 DEF startSensor, feedOf, IInv, SensorInv
    <3>2. UNCHANGED <<feedOf, freshOf>> /\ told' = [told EXCEPT ![a] = TRUE]
      BY <1>4, <2>1 DEF startSensor, feedOf, freshOf
    <3>3. Feed!Report(a)
      BY <3>1, <3>2 DEF Feed!Report
    <3>4. QED
      BY <3>3 DEF Feed!FeedNext
  <2>2. CASE ~sensorOpen[a]
    BY <1>4, <2>2, FeedStutter DEF startSensor
  <2>3. QED
    BY <2>1, <2>2
<1>5. ASSUME NEW a \in Adaptors, NewSucceeds(a)
      PROVE  Feed!FeedNext \/ UNCHANGED Feed!feedVars
  <2>1. PICK s \in Sensors : Fresh(s) /\ sensor' = [sensor EXCEPT ![a] = s]
    BY <1>5 DEF NewSucceeds
  <2>2. /\ sensor[a] = NoSensor /\ alive[a] /\ newest[a] # s /\ s # NoSensor
        /\ UNCHANGED <<alive, newest, told>>
    BY <1>1, <1>5, <2>1 DEF NewSucceeds, IInv, CallInv, Fresh
  <2>3. feedOf[a] = "off" /\ feedOf' = [feedOf EXCEPT ![a] = "on"]
    BY <1>1, <2>1, <2>2 DEF feedOf, IInv, TypeOK
  <2>4. ~freshOf[a] /\ freshOf' = freshOf
    BY <1>1, <2>1, <2>2 DEF freshOf, IInv, TypeOK
  <2>5. Feed!TurnOn(a)
    BY <2>2, <2>3, <2>4 DEF Feed!TurnOn
  <2>6. QED
    BY <2>5 DEF Feed!FeedNext
<1>6. ASSUME NEW a \in Adaptors, NewFails(a)
      PROVE  Feed!FeedNext \/ UNCHANGED Feed!feedVars
  <2>1. sensor' = sensor
    BY <1>1, <1>6 DEF NewFails, IInv, CallInv, TypeOK
  <2>2. told' = told
    BY <1>1, <1>6 DEF NewFails, IInv, CallInv, SensorInv, TypeOK
  <2>3. QED
    BY <1>6, <2>1, <2>2, FeedStutter DEF NewFails
<1>7. ASSUME NEW a \in Adaptors, OpenSucceeds(a)
      PROVE  Feed!FeedNext \/ UNCHANGED Feed!feedVars
  <2>1. feedOf[a] = "on"
    BY <1>1, <1>7 DEF OpenSucceeds, feedOf, IInv, CallInv, SensorInv
  <2>2. UNCHANGED <<feedOf, freshOf>> /\ told' = [told EXCEPT ![a] = TRUE]
    BY <1>7 DEF OpenSucceeds, feedOf, freshOf
  <2>3. QED
    BY <2>1, <2>2 DEF Feed!Report, Feed!FeedNext
<1>8. ASSUME NEW a \in Adaptors, OpenFails(a)
      PROVE  Feed!FeedNext \/ UNCHANGED Feed!feedVars
  <2>1. alive[a] /\ alive' = [alive EXCEPT ![a] = TRUE]
    BY <1>1, <1>8 DEF OpenFails, IInv, CallInv, TypeOK
  <2>2. QED
    BY <1>1, <1>8, <2>1, FeedTurnsOff DEF OpenFails, Release
<1>9. ASSUME NEW a \in Adaptors, CloseReturns(a)
      PROVE  Feed!FeedNext \/ UNCHANGED Feed!feedVars
  <2>1. alive[a]
    BY <1>1, <1>9 DEF CloseReturns, IInv, CallInv
  <2>2. QED
    BY <1>1, <1>9, <2>1, FeedTurnsOff DEF CloseReturns, Release, Finish
<1>10. ASSUME NEW a \in Adaptors, NEW purpose \in Purposes, StopClosed(a, purpose)
       PROVE  Feed!FeedNext \/ UNCHANGED Feed!feedVars
  <2>1. sensor' = [sensor EXCEPT ![a] = NoSensor]
    <3>1. CASE sensor[a] = NoSensor
      BY <1>1, <1>10, <3>1 DEF StopClosed, IInv, TypeOK
    <3>2. CASE sensor[a] # NoSensor
      BY <1>10, <3>2 DEF StopClosed, Release
    <3>3. QED
      BY <3>1, <3>2
  <2>2. QED
    BY <1>1, <1>10, <2>1, FeedTurnsOff DEF StopClosed, Finish
<1>11. ASSUME NEW s \in Sensors, handleMeasurement(s)
       PROVE  Feed!FeedNext \/ UNCHANGED Feed!feedVars
  <2>1. CASE newest' = newest
    BY <1>11, <2>1, FeedStutter DEF handleMeasurement
  <2>2. CASE newest' # newest
    <3> DEFINE a == handler[s]
    <3>1. /\ a \in Adaptors /\ alive[a] /\ sensor[a] = s /\ s # NoSensor
          /\ newest' = [newest EXCEPT ![a] = s]
      BY <1>1, <1>11, <2>2, MeasurementStep
    <3>2. UNCHANGED <<alive, sensor, told>>
      BY <1>11 DEF handleMeasurement
    <3>3. feedOf[a] = "on" /\ feedOf' = feedOf
      BY <3>1, <3>2 DEF feedOf
    <3>4. freshOf' = [freshOf EXCEPT ![a] = TRUE]
      BY <1>1, <3>1, <3>2 DEF freshOf, IInv, TypeOK
    <3>5. Feed!Sample(a)
      BY <3>2, <3>3, <3>4 DEF Feed!Sample
    <3>6. QED
      BY <3>1, <3>5 DEF Feed!FeedNext
  <2>3. QED
    BY <2>1, <2>2
<1>12. ASSUME NEW a \in Adaptors, NEW purpose \in Purposes, StopOpen(a, purpose)
       PROVE  Feed!FeedNext \/ UNCHANGED Feed!feedVars
  BY <1>12, FeedStutter DEF StopOpen
<1>13. CASE \/ \E a \in Adaptors : pumpGlib(a)
            \/ PumpReturns \/ Service \/ UNCHANGED vars
  BY <1>13, FeedStutter DEF pumpGlib, PumpReturns, Service, Measure, Enable,
                            ServiceLost, ServiceBack
<1>14. QED
  BY <1>1, <1>2, <1>3, <1>4, <1>5, <1>6, <1>7, <1>8, <1>9, <1>10, <1>11, <1>12,
     <1>13 DEF Next, Request, Stop, Returns

\* The two adaptors, with any number of sensors and at any service behaviour,
\* implement the abstract feed.
THEOREM FeedRefined == Spec => FeedSpec
<1>1. QED
  BY FeedInitially, FeedStep, Invariance, PTL DEF Spec, FeedSpec, Feed!FeedSpec
============================================================================
