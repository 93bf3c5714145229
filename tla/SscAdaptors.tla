---------------------------- MODULE SscAdaptors ----------------------------
(***************************************************************************)
(* The Qualcomm SSC sensor adaptors of sensorfwd: SscAccelerometerAdaptor  *)
(* and its twin SscAlsAdaptor (pkgs/sensorfw-qt5-libssc/src).  The two     *)
(* classes run the same code on two libssc sensor classes, in ONE thread   *)
(* and over ONE GLib main context, so a call of one adaptor can dispatch   *)
(* the measurements of the other.                                          *)
(*                                                                         *)
(* sensorfwd's Qt loop does not run GLib sources by itself (that is why    *)
(* pumpGlib exists), so a GLib source is dispatched only while pumpGlib    *)
(* iterates the default context, or while a *_sync call of libssc waits    *)
(* for its answer; Qt events (the calls of sensorfw, the timers) are not   *)
(* dispatched inside either.  The main thread is therefore in at most one  *)
(* of those places: the variable call.                                     *)
(***************************************************************************)
EXTENDS Naturals

CONSTANTS
    Adaptors,    \* the adaptor plugins loaded in sensorfwd
    Sensors,     \* the identities of libssc sensor objects (SSCSensor*)
    NoSensor,    \* nullptr in sensor_
    NoAdaptor,   \* no handler connected
    MaxPending   \* bound: measurements of one sensor waiting in the context

ASSUME ConstantsAssumption ==
    /\ NoSensor \notin Sensors
    /\ NoAdaptor \notin Adaptors
    /\ MaxPending \in Nat \ {0}

VARIABLES
    (* The fields of the adaptor objects. *)
    alive,       \* alive[a]: constructed and not destroyed; its buffer_ exists
    sensor,      \* sensor_
    sensorOpen,  \* sensorOpen_
    timer,       \* glibTimer_: "null", "active" or "stopped"
    newest,      \* the sensor whose measurement was committed last to buffer_
    (* The main thread. *)
    call,        \* where it iterates the GLib context, for whom, what follows
    told,        \* told[a]: the last answer to sensorfw was "running"
    (* libssc and the SSC service behind it. *)
    held,        \* the sensor objects the adaptors hold a reference to
    handler,     \* handler[s]: whose trampoline is connected to "measurement"
    stream,      \* the sensors the service streams measurements to
    pending,     \* pending[s]: measurements waiting in the GLib context
    up,          \* the SSC service answers
    cut          \* the sensors whose stream a service loss ended

adaptorVars == <<alive, sensor, sensorOpen, timer, newest, told>>
libVars == <<held, handler, stream, pending, up, cut>>
vars == <<adaptorVars, call, libVars>>

-----------------------------------------------------------------------------
Places == {"idle", "new", "open", "close", "pump"}
Purposes == {"stopSensor", "stopAdaptor", "delete"}
Idle == [at |-> "idle", of |-> NoAdaptor, for |-> "stopSensor"]
In(place, a, purpose) == [at |-> place, of |-> a, for |-> purpose]

\* The main thread is back in Qt's event loop and can take another event.
Free == call.at = "idle"
\* The main thread iterates the GLib context: sources can be dispatched.
Iterating == call.at # "idle"

\* A new libssc object: not in use, nothing of an earlier one left behind.
Fresh(s) ==
    /\ s \notin held
    /\ pending[s] = 0
    /\ \A a \in Adaptors : newest[a] # s

Init ==
    /\ alive = [a \in Adaptors |-> FALSE]
    /\ sensor = [a \in Adaptors |-> NoSensor]
    /\ sensorOpen = [a \in Adaptors |-> FALSE]
    /\ timer = [a \in Adaptors |-> "null"]
    /\ newest = [a \in Adaptors |-> NoSensor]
    /\ told = [a \in Adaptors |-> FALSE]
    /\ call = Idle
    /\ held = {}
    /\ handler = [s \in Sensors |-> NoAdaptor]
    /\ stream = {}
    /\ pending = [s \in Sensors |-> 0]
    /\ up = TRUE
    /\ cut = {}

-----------------------------------------------------------------------------
(* The adaptor.                                                            *)

\* Mutant: glibTimer_ is missing from the constructor's initialisers.
ConstructWild(a) ==
    /\ Free
    /\ ~alive[a]
    /\ alive' = [alive EXCEPT ![a] = TRUE]
    /\ sensor' = [sensor EXCEPT ![a] = NoSensor]
    /\ sensorOpen' = [sensorOpen EXCEPT ![a] = FALSE]
    /\ timer' = [timer EXCEPT ![a] = "wild"]
    /\ newest' = [newest EXCEPT ![a] = NoSensor]
    /\ UNCHANGED <<told, call, libVars>>

\* The constructor, through factoryMethod: a new buffer, no sensor, no timer.
Construct(a) ==
    /\ Free
    /\ ~alive[a]
    /\ alive' = [alive EXCEPT ![a] = TRUE]
    /\ sensor' = [sensor EXCEPT ![a] = NoSensor]
    /\ sensorOpen' = [sensorOpen EXCEPT ![a] = FALSE]
    /\ timer' = [timer EXCEPT ![a] = "null"]
    /\ newest' = [newest EXCEPT ![a] = NoSensor]
    /\ UNCHANGED <<told, call, libVars>>

\* Mutant: the timer is started only where it is created.
StartTimerOnce(a) ==
    timer' = IF timer[a] = "null" THEN [timer EXCEPT ![a] = "active"] ELSE timer

\* startAdaptor creates the pump timer once and starts it whenever it is not
\* active.
StartTimer(a) == timer' = [timer EXCEPT ![a] = "active"]

startAdaptor(a) ==
    /\ Free
    /\ alive[a]
    /\ StartTimer(a)
    /\ UNCHANGED <<alive, sensor, sensorOpen, newest, told, call, libVars>>

\* Mutant: the check of sensorOpen_ is dropped.
StartSensorAgain(a) ==
    /\ Free
    /\ alive[a]
    /\ StartTimer(a)
    /\ call' = In("new", a, "stopSensor")
    /\ UNCHANGED <<alive, sensor, sensorOpen, newest, told, libVars>>

\* startSensor up to the wait inside ssc_sensor_*_new_sync.  An open sensor is
\* not opened again.
startSensor(a) ==
    /\ Free
    /\ alive[a]
    /\ IF sensorOpen[a]
       THEN /\ told' = [told EXCEPT ![a] = TRUE]
            /\ UNCHANGED <<timer, call>>
       ELSE /\ StartTimer(a)
            /\ call' = In("new", a, "stopSensor")
            /\ told' = told
    /\ UNCHANGED <<alive, sensor, sensorOpen, newest, libVars>>

\* new_sync gives an object: its signal is connected before open_sync waits.
NewSucceeds(a) ==
    /\ call.at = "new" /\ call.of = a
    /\ up
    /\ \E s \in Sensors :
        /\ Fresh(s)
        /\ sensor' = [sensor EXCEPT ![a] = s]
        /\ held' = held \cup {s}
        /\ handler' = [handler EXCEPT ![s] = a]
        /\ cut' = cut \ {s}
    /\ call' = In("open", a, "stopSensor")
    /\ UNCHANGED <<alive, sensorOpen, timer, newest, told, stream, pending, up>>

\* new_sync gives null: startSensor answers false, the timer keeps running.
NewFails(a) ==
    /\ call.at = "new" /\ call.of = a
    /\ sensor' = [sensor EXCEPT ![a] = NoSensor]
    /\ told' = [told EXCEPT ![a] = FALSE]
    /\ call' = Idle
    /\ UNCHANGED <<alive, sensorOpen, timer, newest, libVars>>

\* open_sync answers true: the sensor is open.  The service enabled it, and may
\* have gone away again before the answer was dispatched.
OpenSucceeds(a) ==
    /\ call.at = "open" /\ call.of = a
    /\ sensor[a] \in stream \cup cut
    /\ sensorOpen' = [sensorOpen EXCEPT ![a] = TRUE]
    /\ told' = [told EXCEPT ![a] = TRUE]
    /\ call' = Idle
    /\ UNCHANGED <<alive, sensor, timer, newest, libVars>>

\* Mutant: the handler is not disconnected.
ReleaseConnected(a) ==
    /\ held' = held \ {sensor[a]}
    /\ sensor' = [sensor EXCEPT ![a] = NoSensor]
    /\ UNCHANGED <<handler, stream, pending, up, cut>>

\* g_signal_handler_disconnect and g_object_unref of sensor_, then nullptr.
\* libssc ends the stream with its last reference.
Release(a) ==
    /\ handler' = [handler EXCEPT ![sensor[a]] = NoAdaptor]
    /\ held' = held \ {sensor[a]}
    /\ stream' = stream \ {sensor[a]}
    /\ sensor' = [sensor EXCEPT ![a] = NoSensor]
    /\ UNCHANGED <<pending, up, cut>>

\* Mutant: the error path disconnects and forgets the sensor, with no unref.
OpenFailsNoUnref(a) ==
    /\ call.at = "open" /\ call.of = a
    /\ handler' = [handler EXCEPT ![sensor[a]] = NoAdaptor]
    /\ sensor' = [sensor EXCEPT ![a] = NoSensor]
    /\ told' = [told EXCEPT ![a] = FALSE]
    /\ call' = Idle
    /\ UNCHANGED <<alive, sensorOpen, timer, newest, held, stream, pending, up, cut>>

\* open_sync fails (the service may have enabled the stream already).
OpenFails(a) ==
    /\ call.at = "open" /\ call.of = a
    /\ Release(a)
    /\ told' = [told EXCEPT ![a] = FALSE]
    /\ call' = Idle
    /\ UNCHANGED <<alive, sensorOpen, timer, newest>>

\* What the caller of stopSensor does next: stopAdaptor stops the timer (which
\* it keeps), the destructor also deletes the buffer and the object.
Finish(a, purpose) ==
    /\ timer' = IF purpose # "stopSensor" /\ timer[a] # "null"
                THEN [timer EXCEPT ![a] = "stopped"] ELSE timer
    /\ alive' = [alive EXCEPT ![a] = purpose # "delete"]
    /\ told' = [told EXCEPT ![a] = FALSE]
    /\ call' = Idle
    /\ newest' = newest

\* stopSensor with an open sensor, up to the wait inside close_sync.
StopOpen(a, purpose) ==
    /\ Free
    /\ alive[a]
    /\ sensor[a] # NoSensor /\ sensorOpen[a]
    /\ call' = In("close", a, purpose)
    /\ UNCHANGED <<adaptorVars, libVars>>

\* stopSensor without a sensor returns at once; a sensor that is not open
\* needs no close_sync.
StopClosed(a, purpose) ==
    /\ Free
    /\ alive[a]
    /\ sensor[a] = NoSensor \/ ~sensorOpen[a]
    /\ IF sensor[a] = NoSensor THEN UNCHANGED <<sensor, libVars>> ELSE Release(a)
    /\ Finish(a, purpose)
    /\ UNCHANGED sensorOpen

\* Mutant: sensorOpen_ is not reset.
CloseKeepsOpen(a) ==
    /\ call.at = "close" /\ call.of = a
    /\ Release(a)
    /\ Finish(a, call.for)
    /\ UNCHANGED sensorOpen

\* close_sync returns.  Its error is only logged: the rest is the same.
CloseReturns(a) ==
    /\ call.at = "close" /\ call.of = a
    /\ sensorOpen' = [sensorOpen EXCEPT ![a] = FALSE]
    /\ Release(a)
    /\ Finish(a, call.for)

\* The 10 ms timer fires: pumpGlib iterates the default context.
pumpGlib(a) ==
    /\ Free
    /\ alive[a] /\ timer[a] = "active"
    /\ call' = In("pump", a, "stopSensor")
    /\ UNCHANGED <<adaptorVars, libVars>>

\* g_main_context_pending is false: pumpGlib returns.
PumpReturns ==
    /\ call.at = "pump"
    /\ \A s \in Sensors : pending[s] = 0
    /\ call' = Idle
    /\ UNCHANGED <<adaptorVars, libVars>>

\* One iteration dispatches a measurement: the trampoline of the connected
\* adaptor runs handleMeasurement, which commits a slot of its buffer.
handleMeasurement(s) ==
    /\ Iterating
    /\ pending[s] > 0
    /\ pending' = [pending EXCEPT ![s] = @ - 1]
    /\ newest' = IF handler[s] = NoAdaptor
                 THEN newest ELSE [newest EXCEPT ![handler[s]] = s]
    /\ UNCHANGED <<alive, sensor, sensorOpen, timer, told, call,
                   held, handler, stream, up, cut>>

-----------------------------------------------------------------------------
(* libssc and the SSC service (hexagonrpcd-sdsp and the DSP behind it).    *)

\* The service enables the stream of the sensor that open_sync waits for; the
\* answer to open_sync may come later, or never.
Enable(a) ==
    /\ call.at = "open" /\ call.of = a
    /\ up
    /\ sensor[a] \notin stream
    /\ stream' = stream \cup {sensor[a]}
    /\ UNCHANGED <<adaptorVars, call, held, handler, pending, up, cut>>

\* The service sends a measurement, at any time.
Measure(s) ==
    /\ s \in stream
    /\ pending[s] < MaxPending
    /\ pending' = [pending EXCEPT ![s] = @ + 1]
    /\ UNCHANGED <<adaptorVars, call, held, handler, stream, up, cut>>

\* The service goes away (hexagonrpcd-sdsp is restarted after 3 s): every
\* stream ends and the adaptors are not told.
ServiceLost ==
    /\ up
    /\ up' = FALSE
    /\ cut' = cut \cup (stream \cap held)
    /\ stream' = {}
    /\ UNCHANGED <<adaptorVars, call, held, handler, pending>>

ServiceBack ==
    /\ ~up
    /\ up' = TRUE
    /\ UNCHANGED <<adaptorVars, call, held, handler, stream, pending, cut>>

-----------------------------------------------------------------------------
Stop(a) ==
    \E purpose \in Purposes : StopOpen(a, purpose) \/ StopClosed(a, purpose)

\* What sensorfw asks of an adaptor.
Request(a) == Construct(a) \/ startAdaptor(a) \/ startSensor(a) \/ Stop(a)

\* A *_sync call of libssc returns.
Returns(a) ==
    \/ NewSucceeds(a) \/ NewFails(a)
    \/ OpenSucceeds(a) \/ OpenFails(a)
    \/ CloseReturns(a)

Service ==
    \/ \E s \in Sensors : Measure(s)
    \/ \E a \in Adaptors : Enable(a)
    \/ ServiceLost
    \/ ServiceBack

Next ==
    \/ \E a \in Adaptors : Request(a) \/ Returns(a) \/ pumpGlib(a)
    \/ PumpReturns
    \/ \E s \in Sensors : handleMeasurement(s)
    \/ Service

Spec == Init /\ [][Next]_vars

\* Qt fires an active timer again and again, pumpGlib runs until nothing is
\* pending, and a *_sync call of libssc ends.  Neither sensorfw's requests nor
\* the service are fair, and a source need not run inside a *_sync call.
Fairness ==
    /\ \A a \in Adaptors : SF_vars(pumpGlib(a))
    /\ \A a \in Adaptors : WF_vars(Returns(a))
    /\ \A s \in Sensors : WF_vars(call.at = "pump" /\ handleMeasurement(s))
    /\ WF_vars(PumpReturns)

FairSpec == Spec /\ Fairness

-----------------------------------------------------------------------------
(* Properties.                                                             *)

\* Every variable holds a value of its type.
TypeOK ==
    /\ alive \in [Adaptors -> BOOLEAN]
    /\ sensor \in [Adaptors -> Sensors \cup {NoSensor}]
    /\ sensorOpen \in [Adaptors -> BOOLEAN]
    /\ timer \in [Adaptors -> {"null", "active", "stopped"}]
    /\ newest \in [Adaptors -> Sensors \cup {NoSensor}]
    /\ told \in [Adaptors -> BOOLEAN]
    /\ call \in [at : Places, of : Adaptors \cup {NoAdaptor}, for : Purposes]
    /\ held \in SUBSET Sensors
    /\ handler \in [Sensors -> Adaptors \cup {NoAdaptor}]
    /\ stream \in SUBSET Sensors
    /\ pending \in [Sensors -> 0 .. MaxPending]
    /\ up \in BOOLEAN
    /\ cut \in SUBSET Sensors

\* A dispatched measurement never runs the trampoline on a deleted adaptor:
\* whoever's handler is connected exists, and holds that very sensor.
NoDeadCallback ==
    \A s \in Sensors : handler[s] # NoAdaptor =>
        /\ alive[handler[s]]
        /\ sensor[handler[s]] = s
        /\ s \in held

\* No path of start, failed start, stop and delete leaks a libssc object or
\* keeps one half set up: a reference that is held belongs to an adaptor, and
\* between two calls to one whose sensor is open.
NoLeak ==
    \A s \in held : \E a \in Adaptors :
        /\ sensor[a] = s
        /\ Free => sensorOpen[a]

\* sensorOpen_ stands for the whole set-up: an open sensor is held, connected,
\* and its pump timer runs, so its measurements can be dispatched.
OpenIsWired ==
    \A a \in Adaptors : sensorOpen[a] =>
        /\ sensor[a] \in held
        /\ handler[sensor[a]] = a
        /\ timer[a] = "active"

\* sensorfw is told "running" only while the sensor is open, and then the
\* service streams it unless it went away after the open_sync.
AnswerIsTrue ==
    \A a \in Adaptors : told[a] =>
        /\ sensorOpen[a]
        /\ sensor[a] \in stream \cup cut

\* A measurement still queued for an earlier sensor object never reaches the
\* buffer of an adaptor that was stopped or started again meanwhile.
NoStaleMeasurement ==
    [][\A a \in Adaptors :
          newest'[a] # newest[a] /\ newest'[a] # NoSensor
              => newest'[a] = sensor[a]]_vars

\* The handler of adaptor a commits a measurement of its sensor s.
Delivers(a, s) == handler[s] = a /\ handleMeasurement(s)

\* While a sensor stays open, no measurement waits for ever, however many came
\* before it and whatever the other adaptor is asked meanwhile: as long as some
\* are waiting again and again, the adaptor's timer keeps having them
\* delivered to its buffer, one after the other.
Pumped ==
    \A a \in Adaptors, s \in Sensors :
        <>[](sensorOpen[a] /\ sensor[a] = s) /\ []<>(pending[s] > 0)
            => []<><<Delivers(a, s)>>_vars

\* The abstract state of an adaptor: on from the connection of its handler to
\* the release of its sensor.
feedOf ==
    [a \in Adaptors |-> IF ~alive[a] THEN "absent"
                        ELSE IF sensor[a] = NoSensor THEN "off" ELSE "on"]
freshOf == [a \in Adaptors |-> sensor[a] # NoSensor /\ newest[a] = sensor[a]]

Feed == INSTANCE SensorFeed WITH
    Feeds <- Adaptors, feed <- feedOf, fresh <- freshOf, running <- told

\* The adaptors implement the abstract feed: samples only between the start of
\* an on-period and its end, never counting an earlier period's sample.
FeedSpec == Feed!FeedSpec
============================================================================
