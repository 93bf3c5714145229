---------------------------- MODULE SensorFeed ----------------------------
(***************************************************************************)
(* What sensorfw may rely on when it uses a device adaptor: the promise    *)
(* that startSensor, stopSensor and the destructor make together.  A feed  *)
(* is absent, off or on; samples reach the buffer only while it is on; a   *)
(* sample of an earlier period never counts as one of this period; and     *)
(* only a feed that is on is reported as running.                          *)
(***************************************************************************)
CONSTANT Feeds

VARIABLES
    feed,     \* feed[a]: "absent", "off" or "on"
    fresh,    \* fresh[a]: the newest sample is one of this on-period
    running   \* running[a]: the caller was told that the feed runs

feedVars == <<feed, fresh, running>>

FeedTypeOK ==
    /\ feed \in [Feeds -> {"absent", "off", "on"}]
    /\ fresh \in [Feeds -> BOOLEAN]
    /\ running \in [Feeds -> BOOLEAN]

FeedInit ==
    /\ feed = [a \in Feeds |-> "absent"]
    /\ fresh = [a \in Feeds |-> FALSE]
    /\ running = [a \in Feeds |-> FALSE]

Create(a) ==
    /\ feed[a] = "absent"
    /\ feed' = [feed EXCEPT ![a] = "off"]
    /\ UNCHANGED <<fresh, running>>

TurnOn(a) ==
    /\ feed[a] = "off"
    /\ ~fresh[a]
    /\ feed' = [feed EXCEPT ![a] = "on"]
    /\ UNCHANGED <<fresh, running>>

Report(a) ==
    /\ feed[a] = "on"
    /\ running' = [running EXCEPT ![a] = TRUE]
    /\ UNCHANGED <<feed, fresh>>

Sample(a) ==
    /\ feed[a] = "on"
    /\ fresh' = [fresh EXCEPT ![a] = TRUE]
    /\ UNCHANGED <<feed, running>>

\* The on-period ends, with the adaptor kept ("off") or deleted ("absent").
TurnOff(a, rest) ==
    /\ feed[a] # "absent"
    /\ feed' = [feed EXCEPT ![a] = rest]
    /\ fresh' = [fresh EXCEPT ![a] = FALSE]
    /\ running' = [running EXCEPT ![a] = FALSE]

FeedNext ==
    \E a \in Feeds :
        \/ Create(a) \/ TurnOn(a) \/ Report(a) \/ Sample(a)
        \/ \E rest \in {"off", "absent"} : TurnOff(a, rest)

FeedSpec == FeedInit /\ [][FeedNext]_feedVars
============================================================================
