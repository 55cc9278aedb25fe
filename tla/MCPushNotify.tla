---------------------------- MODULE MCPushNotify ----------------------------
(* A small instance of PushNotify: one device over time, or two at once.   *)
EXTENDS PushNotify, TLC

Symmetry == Permutations(Jobs) \cup Permutations(Tokens)

(* Once polls have crossed nothing is claimed of the announcements, and    *)
(* the file and the limiter do not depend on them.                         *)
NotCrossed == ~tunnel.crossed

Involved(t) ==
    \/ answer[t] # "unregister" \/ t \in rejected \/ sends[t] # {}
    \/ file # Torn /\ t \in file
    \/ \E j \in Jobs : job[j].token = t \/ t \in job[j].new

(* Devices share the file and nothing else, and the file knows nothing of  *)
(* the time and of the tunnel: two devices meet in the first tick, with at *)
(* most one message for each and a tunnel that nobody asks for.            *)
OneDeviceOrTheFile ==
    \/ \E t \in Tokens : \A u \in Tokens \ {t} : ~Involved(u)
    \/ /\ now = 0 /\ tunnel = Fresh(TRUE)
       /\ \A j \in Jobs : job[j].op # "tunnel"
       /\ \A t \in Tokens : Cardinality(sends[t]) <= 1

Concerns == NotCrossed /\ OneDeviceOrTheFile
=============================================================================
