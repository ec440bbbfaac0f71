-------------------------- MODULE MCIpfixTemplate ---------------------------
(***************************************************************************)
(* The elements every query gets, with their sizes, and up to three more,  *)
(* of every size there is, in any order and also repeated. SizeRange is an *)
(* even power of two, so that as with 2^64 what is left of it modulo 6 is  *)
(* 4: behind an element without a size, one of 6 bytes is rounded up to an *)
(* offset that is no multiple of 6.                                        *)
(***************************************************************************)
EXTENDS IpfixTemplate, TLC

MCSizeOf ==
  "flowStartMilliseconds" :> 8 @@ "flowEndMilliseconds" :> 8 @@
  "sourceIPv4Address" :> 4 @@ "destinationIPv4Address" :> 4 @@
  "sourceTransportPort" :> 2 @@ "destinationTransportPort" :> 2 @@
  "ingressInterface" :> 4 @@ "egressInterface" :> 4 @@
  "packetDeltaCount" :> 8 @@ "octetDeltaCount" :> 8 @@
  "protocolIdentifier" :> 1 @@ "ipClassOfService" :> 1 @@
  "tcpControlBits" :> 1 @@
  "sourceIPv6PrefixLength" :> 1 @@ "vlanId" :> 2 @@ "flowStartSeconds" :> 4 @@
  "sourceMacAddress" :> 6 @@ "flowDurationMicroseconds" :> 8 @@
  "sourceIPv6Address" :> 16 @@ "interfaceName" :> NoSize @@
  "no such element" :> Unknown

MCNames == DOMAIN MCSizeOf

MCDefaults ==
  <<"flowStartMilliseconds", "flowEndMilliseconds", "sourceIPv4Address",
    "destinationIPv4Address", "sourceTransportPort",
    "destinationTransportPort", "ingressInterface", "egressInterface",
    "packetDeltaCount", "octetDeltaCount", "protocolIdentifier",
    "ipClassOfService", "tcpControlBits">>

InQueries ==
  (MCNames \ {MCDefaults[k] : k \in DOMAIN MCDefaults}) \cup {"sourceTransportPort"}

MCQueries == UNION {[1 .. n -> InQueries] : n \in 0 .. 3}
=============================================================================
