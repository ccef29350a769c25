---------------------------- MODULE MqttContract ----------------------------
(***************************************************************************)
(* What the session layer promises its user, net_process, and the broker:  *)
(* one session at a time, online only after the broker has accepted it on  *)
(* that very connection, and a subscription only from a device that is     *)
(* online (mqtt_connection_cb).  A session may fail at any point; a device *)
(* without one dials again.                                                *)
(***************************************************************************)
VARIABLES
  phase,   \* what mqtt_client_is_connected and the callbacks let the user see
  broker   \* what the broker has made of the current connection

vars == <<phase, broker>>

Phase  == {"down", "dialing", "handshake", "online"}
Broker == {"none", "open", "refused", "accepted", "subscribed", "left"}

Init == phase \in {"down", "dialing"} /\ broker = "none"

\* net_process dials when no session is online; an attempt under way is dropped.
Dial == phase # "online" /\ phase' = "dialing" /\ broker' = "none"

Establish == /\ phase = "dialing"
             /\ phase' = "handshake"
             /\ broker' = "open"

BrokerRefuses == /\ phase = "handshake" /\ broker = "open"
                 /\ broker' = "refused"
                 /\ UNCHANGED phase

BrokerLeaves == /\ broker \in {"accepted", "subscribed"}
                /\ broker' = "left"
                /\ UNCHANGED phase

BrokerAccepts == /\ phase = "handshake" /\ broker = "open"
                 /\ broker' = "accepted"
                 /\ UNCHANGED phase

\* An acceptance that is already under way counts even if the broker has left.
GoOnline == /\ phase = "handshake" /\ broker \in {"accepted", "left"}
            /\ phase' = "online"
            /\ UNCHANGED broker

BrokerSubscribes == /\ phase = "online" /\ broker = "accepted"
                    /\ broker' = "subscribed"
                    /\ UNCHANGED phase

Fail == phase' = "down" /\ broker' = "none"

Next == \/ Dial \/ Establish \/ BrokerRefuses \/ BrokerLeaves \/ BrokerAccepts \/ GoOnline
        \/ BrokerSubscribes \/ Fail

\* A device that is down dials.
Fairness == WF_vars(phase = "down" /\ Dial)

Spec == Init /\ [][Next]_vars /\ Fairness
=============================================================================
