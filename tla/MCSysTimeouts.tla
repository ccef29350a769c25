---------------------------- MODULE MCSysTimeouts ----------------------------
EXTENDS SysTimeouts

\* IP_TMR_INTERVAL and ARP_TMR_INTERVAL are equal; a handler may take longer
\* than they are, less than that of the MQTT client.
MCCyclic == <<"ip_reass", "arp">>
MCInterval == [t \in {"ip_reass", "arp", "tcp", "mqtt"} |->
  CASE t = "tcp" -> 1 [] t = "mqtt" -> 3 [] OTHER -> 1]
=============================================================================
