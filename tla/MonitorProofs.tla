--------------------------- MODULE MonitorProofs ----------------------------
(***************************************************************************)
(* The connector and the DDC/CI bus, for any number of users of the bus    *)
(* and any bounds: the steps of module Monitor are steps of module Ddcci,  *)
(* and the responses that transfers copy are fresh.                        *)
(***************************************************************************)
EXTENDS Monitor, TLAPS

-----------------------------------------------------------------------------
(***************************************************************************)
(* Implementation.                                                         *)
(***************************************************************************)

LEMMA MonitorStep == [MonitorNext]_monitorVars => [Next]_vars
<1>1. CASE ConnectMonitor
  BY <1>1 DEF ConnectMonitor, Next
<1>2. CASE DisconnectMonitor
  BY <1>2 DEF DisconnectMonitor, Next
<1>3. CASE DisconnectReturns
  BY <1>3 DEF DisconnectReturns, Next
<1>4. CASE Probe \/ ConnectorStep
  BY <1>4 DEF Probe, ConnectorStep, HotplugCheck, HotplugCheckEnd,
              ProbeDetected, evdi_get_modes, ValidateModes
<1>5. CASE BusStep
  BY <1>5 DEF BusStep, Next
<1>6. CASE UNCHANGED monitorVars
  BY <1>6 DEF monitorVars
<1> QED
  BY <1>1, <1>2, <1>3, <1>4, <1>5, <1>6 DEF MonitorNext

\* The connector reads the painter and never changes what the bus depends on:
\* with a client that connects again and again, hotplug checks and probes,
\* the DDC/CI requests behave as module Ddcci has them.
THEOREM MonitorImplementsDdcci == MonitorSpec => Spec
<1>1. MonitorInit => Init
  BY DEF MonitorInit
<1> QED
  BY <1>1, MonitorStep, PTL DEF MonitorSpec, Spec

-----------------------------------------------------------------------------
(***************************************************************************)
(* Types.                                                                  *)
(***************************************************************************)

Transfers == [pc   : {"idle", "message", "request", "wait", "copy"},
              user : Users \cup {NoUser}, left : 0..MaxMessages,
              id   : {0} \cup RequestIds, len : Lengths \cup {0}]

LEMMA TruncatedType ==
  ASSUME NEW len \in Lengths
  PROVE  Truncated(len) \in 0..DDCCI_BUFFER_SIZE
BY LengthAssumption DEF Truncated

LEMMA NoTransferType == NoTransfer \in Transfers
BY BoundAssumption DEF NoTransfer, Transfers

\* What the other variables are.
OtherTypes ==
  /\ is_connected \in BOOLEAN
  /\ i2c_adapter \in {"none", "live", "deleting"}
  /\ disconnect \in {"idle", "locked", "unlocked"}
  /\ holders \subseteq Users
  /\ done \in 0..MaxCompletions
  /\ ddcci_buffer \in {0} \cup RequestIds
  /\ ddcci_buffer_length \in 0..DDCCI_BUFFER_SIZE
  /\ requests \in 0..MaxRequests
  /\ asked \subseteq 1..requests
  /\ fresh \in BOOLEAN
  /\ copied_fresh \in BOOLEAN

LEMMA TypeParts == TypeOK <=> xfer \in Transfers /\ OtherTypes
BY Zenon DEF TypeOK, Transfers, OtherTypes

\* A transfer under way has a request only if one was made, and messages left.
XferInv ==
  /\ xfer \in Transfers
  /\ xfer.pc # "idle" => xfer.left > 0
  /\ xfer.pc = "request" => xfer.id \in 1..requests

LEMMA NextMessageType ==
  ASSUME XferInv, xfer.pc # "idle"
  PROVE  /\ NextMessage \in Transfers
         /\ NextMessage.pc \in {"idle", "message"}
         /\ NextMessage.pc # "idle" => NextMessage.left > 0
<1>1. CASE xfer.left = 1
  BY <1>1, NoTransferType DEF NextMessage, NoTransfer
<1>2. CASE xfer.left # 1
  <2>1. xfer.left \in 0..MaxMessages /\ xfer.left - 1 \in 0..MaxMessages
    BY <1>2, BoundAssumption DEF XferInv, Transfers
  <2>2. NextMessage = [xfer EXCEPT !.pc = "message", !.left = xfer.left - 1,
                                   !.id = 0, !.len = 0]
    BY <1>2 DEF NextMessage
  <2>3. xfer.left - 1 > 0
    BY <1>2, <2>1 DEF XferInv
  <2> QED
    BY <2>1, <2>2, <2>3 DEF XferInv, Transfers
<1> QED
  BY <1>1, <1>2

LEMMA XferNext == OtherTypes /\ XferInv /\ [Next]_vars => XferInv'
<1> SUFFICES ASSUME OtherTypes, XferInv, [Next]_vars
             PROVE  XferInv'
  OBVIOUS
<1>a. ASSUME UNCHANGED <<xfer, requests>>
      PROVE  XferInv'
  BY <1>a DEF XferInv
<1>b. ASSUME xfer.pc # "idle", xfer' = NextMessage
      PROVE  XferInv'
  BY <1>b, NextMessageType DEF XferInv
<1>1. ASSUME NEW u \in Users, NEW n \in 1..MaxMessages, StartTransfer(u, n)
      PROVE  XferInv'
  <2>1. xfer' = [pc |-> "message", user |-> u, left |-> n, id |-> 0,
                 len |-> 0]
    BY <1>1 DEF StartTransfer, NoTransfer
  <2>2. n \in 0..MaxMessages /\ n > 0
    BY BoundAssumption
  <2> QED
    BY <2>1, <2>2 DEF XferInv, Transfers
<1>2. CASE TransferStep
  <2>1. CASE IgnoreMessage \/ ResponseTimeout \/ CopyResponse
    BY <1>b, <2>1 DEF IgnoreMessage, ResponseTimeout, CopyResponse
  <2>2. ASSUME NEW len \in Lengths, evdi_painter_i2c_data_notify(len)
        PROVE  XferInv'
    <3>1. /\ xfer' = [xfer EXCEPT !.pc = "request", !.id = requests',
                                  !.len = len]
          /\ requests' = requests + 1 /\ requests < MaxRequests
          /\ xfer.pc = "message"
      BY <2>2 DEF evdi_painter_i2c_data_notify
    <3>2. requests' \in RequestIds /\ requests' \in 1..requests'
      BY <3>1, BoundAssumption DEF OtherTypes, RequestIds
    <3> HIDE DEF RequestIds
    <3> QED
      BY <3>1, <3>2 DEF XferInv, Transfers
  <2>3. CASE RequestResponse
    BY <2>3 DEF RequestResponse, XferInv, Transfers
  <2>4. CASE TakeCompletion
    BY <2>4 DEF TakeCompletion, XferInv, Transfers, painterVars, bufferVars
  <2> QED
    BY <1>2, <2>1, <2>2, <2>3, <2>4 DEF TransferStep
<1> QED
  BY <1>a, <1>1, <1>2
     DEF Next, vars, evdi_painter_connect, evdi_painter_disconnect,
         evdi_remove_i2c_adapter, DisconnectComplete, OpenBus, CloseBus,
         evdi_painter_ddcci_response_ioctl, ResponseFails

LEMMA CompleteType ==
  ASSUME done \in 0..MaxCompletions, complete
  PROVE  done' \in 0..MaxCompletions
BY BoundAssumption DEF complete

LEMMA OtherTypesNext == OtherTypes /\ XferInv /\ [Next]_vars => OtherTypes'
<1> SUFFICES ASSUME OtherTypes, XferInv, [Next]_vars
             PROVE  OtherTypes'
  OBVIOUS
<1>1. CASE evdi_painter_connect \/ evdi_remove_i2c_adapter
  BY <1>1 DEF evdi_painter_connect, evdi_remove_i2c_adapter, OtherTypes,
              bufferVars
<1>7. CASE evdi_painter_disconnect
  <2>1. 0 \in 0..DDCCI_BUFFER_SIZE
    BY LengthAssumption
  <2> QED
    BY <1>7, <2>1 DEF evdi_painter_disconnect, OtherTypes
<1>2. CASE DisconnectComplete
  BY <1>2, CompleteType DEF DisconnectComplete, OtherTypes, bufferVars
<1>3. CASE \/ \E u \in Users : OpenBus(u) \/ CloseBus(u)
           \/ \E u \in Users, n \in 1..MaxMessages : StartTransfer(u, n)
  BY <1>3 DEF OpenBus, CloseBus, StartTransfer, OtherTypes, painterVars,
              bufferVars
<1>4. CASE TransferStep
  <2>1. CASE IgnoreMessage \/ ResponseTimeout \/ CopyResponse
    BY <2>1 DEF IgnoreMessage, ResponseTimeout, CopyResponse, OtherTypes,
                painterVars, bufferVars
  <2>2. ASSUME NEW len \in Lengths, evdi_painter_i2c_data_notify(len)
        PROVE  OtherTypes'
    BY <2>2, BoundAssumption
       DEF evdi_painter_i2c_data_notify, OtherTypes, painterVars, bufferVars
  <2>3. CASE RequestResponse
    <3>1. xfer.id \in 1..requests /\ 0 \in 0..MaxCompletions
      BY <2>3, BoundAssumption DEF RequestResponse, XferInv
    <3> QED
      BY <2>3, <3>1 DEF RequestResponse, OtherTypes, painterVars
  <2>4. CASE TakeCompletion
    BY <2>4, BoundAssumption DEF TakeCompletion, OtherTypes, painterVars,
                                 bufferVars
  <2> QED
    BY <1>4, <2>1, <2>2, <2>3, <2>4 DEF TransferStep
<1>5. ASSUME NEW id \in asked, NEW len \in Lengths,
             \/ evdi_painter_ddcci_response_ioctl(id, len)
             \/ ResponseFails(id, len)
      PROVE  OtherTypes'
  <2>1. id \in RequestIds /\ Truncated(len) \in 0..DDCCI_BUFFER_SIZE
    BY TruncatedType, BoundAssumption DEF OtherTypes, RequestIds
  <2> QED
    BY <1>5, <2>1, CompleteType
       DEF evdi_painter_ddcci_response_ioctl, ResponseFails, OtherTypes,
           painterVars
<1>6. CASE UNCHANGED vars
  BY <1>6 DEF vars, OtherTypes, painterVars, bufferVars
<1> QED
  BY <1>1, <1>2, <1>3, <1>4, <1>5, <1>6, <1>7 DEF Next

LEMMA TypesAtInit == Init => OtherTypes /\ XferInv
<1> SUFFICES ASSUME Init PROVE OtherTypes /\ XferInv
  OBVIOUS
<1>1. /\ 0 \in 0..MaxCompletions /\ 0 \in 0..DDCCI_BUFFER_SIZE
      /\ 0 \in 0..MaxRequests
  BY BoundAssumption, LengthAssumption
<1>2. OtherTypes
  BY <1>1 DEF Init, OtherTypes
<1>3. XferInv
  BY NoTransferType DEF Init, XferInv, NoTransfer
<1> QED
  BY <1>2, <1>3

\* Lengths, completions and request numbers stay within their bounds: the
\* stored length is never more than the buffer holds, and a response always
\* answers a request that was made.
THEOREM DdcciTypeCorrect == Spec => []TypeOK
<1>1. OtherTypes /\ XferInv => TypeOK
  BY TypeParts DEF XferInv
<1> QED
  BY <1>1, TypesAtInit, XferNext, OtherTypesNext, PTL DEF Spec

-----------------------------------------------------------------------------
(***************************************************************************)
(* Fresh answers.                                                          *)
(***************************************************************************)

\* Nobody holds the bus of an adapter that is gone, and a transfer's user
\* holds it; a disconnect has emptied the bus when it gives the lock back, and
\* no client connects before it has returned.
BusInv ==
  /\ xfer = NoTransfer \/ xfer.user \in holders
  /\ i2c_adapter = "none" => holders = {}
  /\ disconnect = "locked" => i2c_adapter \in {"deleting", "none"}
  /\ disconnect = "unlocked" => i2c_adapter = "none"

\* A completion that a transfer may take, or has taken, comes from a response
\* to this request, unless there is nothing to copy.
FreshInv ==
  /\ Signalled => fresh \/ ddcci_buffer = 0
  /\ copied_fresh

LEMMA BusNext ==
  ~OverlapDisconnect /\ OtherTypes /\ XferInv /\ BusInv /\ [Next]_vars => BusInv'
<1> SUFFICES ASSUME ~OverlapDisconnect, OtherTypes, XferInv, BusInv, [Next]_vars
             PROVE  BusInv'
  OBVIOUS
<1>1. CASE evdi_painter_connect
  BY <1>1 DEF evdi_painter_connect, BusInv
<1>2. CASE evdi_painter_disconnect
  BY <1>2 DEF evdi_painter_disconnect, OtherTypes, BusInv
<1>3. CASE evdi_remove_i2c_adapter
  BY <1>3 DEF evdi_remove_i2c_adapter, BusInv
<1>4. CASE DisconnectComplete
  BY <1>4 DEF DisconnectComplete, BusInv
<1>5. ASSUME NEW u \in Users, OpenBus(u) \/ CloseBus(u)
      PROVE  BusInv'
  BY <1>5 DEF OpenBus, CloseBus, BusInv, painterVars
<1>6. ASSUME NEW u \in Users, NEW n \in 1..MaxMessages, StartTransfer(u, n)
      PROVE  BusInv'
  BY <1>6 DEF StartTransfer, BusInv, NoTransfer, painterVars
<1>7. CASE TransferStep
  <2>1. UNCHANGED <<painterVars, holders>>
    BY <1>7 DEF TransferStep, IgnoreMessage, evdi_painter_i2c_data_notify,
                RequestResponse, TakeCompletion, ResponseTimeout, CopyResponse
  <2>a. xfer.pc # "idle"
    BY <1>7 DEF TransferStep, IgnoreMessage, evdi_painter_i2c_data_notify,
                RequestResponse, TakeCompletion, ResponseTimeout,
                CopyResponse
  <2>2. xfer # NoTransfer
    BY <2>a DEF NoTransfer
  <2>3. xfer' = NoTransfer \/ xfer'.user = xfer.user
    BY <1>7 DEF TransferStep, IgnoreMessage, evdi_painter_i2c_data_notify,
                RequestResponse, TakeCompletion, ResponseTimeout,
                CopyResponse, NextMessage, XferInv, Transfers
  <2> QED
    BY <2>1, <2>2, <2>3 DEF BusInv, painterVars
<1>8. ASSUME NEW id \in asked, NEW len \in Lengths,
             \/ evdi_painter_ddcci_response_ioctl(id, len)
             \/ ResponseFails(id, len)
      PROVE  BusInv'
  BY <1>8 DEF evdi_painter_ddcci_response_ioctl, ResponseFails, BusInv,
              painterVars
<1>9. CASE UNCHANGED vars
  BY <1>9 DEF vars, BusInv, painterVars
<1> QED
  BY <1>1, <1>2, <1>3, <1>4, <1>5, <1>6, <1>7, <1>8, <1>9 DEF Next

LEMMA FreshNext ==
  ~OverlapDisconnect /\ XferInv /\ BusInv /\ FreshInv /\ [Next]_vars => FreshInv'
<1> SUFFICES ASSUME ~OverlapDisconnect, XferInv, BusInv, FreshInv, [Next]_vars
             PROVE  FreshInv'
  OBVIOUS
<1>1. CASE evdi_painter_connect \/ evdi_remove_i2c_adapter
  BY <1>1 DEF evdi_painter_connect, evdi_remove_i2c_adapter, FreshInv,
              Signalled, bufferVars
<1>2. CASE evdi_painter_disconnect
  BY <1>2 DEF evdi_painter_disconnect, FreshInv
<1>3. CASE DisconnectComplete
  <2>1. xfer = NoTransfer /\ xfer' = xfer /\ UNCHANGED copied_fresh
    BY <1>3 DEF DisconnectComplete, BusInv
  <2> QED
    BY <2>1 DEF FreshInv, Signalled, NoTransfer
<1>4. ASSUME NEW u \in Users, OpenBus(u) \/ CloseBus(u)
      PROVE  FreshInv'
  BY <1>4 DEF OpenBus, CloseBus, FreshInv, Signalled, bufferVars
<1>5. ASSUME NEW u \in Users, NEW n \in 1..MaxMessages, StartTransfer(u, n)
      PROVE  FreshInv'
  BY <1>5 DEF StartTransfer, FreshInv, Signalled, NoTransfer, bufferVars
<1>6. CASE TransferStep
  <2>1. CASE IgnoreMessage \/ ResponseTimeout
    BY <2>1, NextMessageType
       DEF IgnoreMessage, ResponseTimeout, FreshInv, Signalled
  <2>2. ASSUME NEW len \in Lengths, evdi_painter_i2c_data_notify(len)
        PROVE  FreshInv'
    BY <2>2 DEF evdi_painter_i2c_data_notify, FreshInv, Signalled, XferInv,
                Transfers
  <2>3. CASE RequestResponse
    BY <2>3 DEF RequestResponse, FreshInv, Signalled, XferInv, Transfers
  <2>4. CASE TakeCompletion
    BY <2>4 DEF TakeCompletion, FreshInv, Signalled, bufferVars
  <2>5. CASE CopyResponse
    BY <2>5, NextMessageType
       DEF CopyResponse, CanCopy, FreshInv, Signalled, bufferVars
  <2> QED
    BY <1>6, <2>1, <2>2, <2>3, <2>4, <2>5 DEF TransferStep
<1>7. ASSUME NEW id \in asked, NEW len \in Lengths,
             \/ evdi_painter_ddcci_response_ioctl(id, len)
             \/ ResponseFails(id, len)
      PROVE  FreshInv'
  BY <1>7 DEF evdi_painter_ddcci_response_ioctl, ResponseFails, FreshInv,
              Signalled
<1>8. CASE UNCHANGED vars
  BY <1>8 DEF vars, FreshInv, Signalled, bufferVars
<1> QED
  BY <1>1, <1>2, <1>3, <1>4, <1>5, <1>6, <1>7, <1>8 DEF Next

\* Whatever the client answers and when, a transfer copies no response that
\* was stored before its request, as long as disconnects stay clear of a
\* response being copied.
THEOREM AnswersAreFresh ==
  ASSUME ~OverlapDisconnect
  PROVE  MonitorSpec => []AnswerIsFresh
<1>1. Init => OtherTypes /\ XferInv /\ BusInv /\ FreshInv
  BY TypesAtInit DEF Init, BusInv, FreshInv, Signalled, NoTransfer
<1>2. OtherTypes /\ XferInv /\ BusInv /\ FreshInv /\ [Next]_vars
        => OtherTypes' /\ XferInv' /\ BusInv' /\ FreshInv'
  BY XferNext, OtherTypesNext, BusNext, FreshNext
<1>3. FreshInv => AnswerIsFresh
  BY DEF FreshInv, AnswerIsFresh
<1> QED
  BY <1>1, <1>2, <1>3, MonitorImplementsDdcci, PTL DEF Spec

-----------------------------------------------------------------------------
(***************************************************************************)
(* The connector: a check follows every change, and a probe that began     *)
(* before the change is followed by an event.                              *)
(***************************************************************************)
Probes == [pc : {"none", "check", "detect", "modes", "valid"},
           connected : BOOLEAN, edid : Connections]

ConnectorTypes ==
  /\ edid \in Connections /\ limits \in Connections
  /\ hpd \in Nat
  /\ status \in {"unknown", "connected", "disconnected"}
  /\ probe \in Probes
  /\ uevent \in BOOLEAN
  /\ shown \in [edid : Connections, limits : Connections]

Bit(b) == IF b THEN 1 ELSE 0

\* A connect makes one check and its disconnect another one.
HpdInv == hpd + Bit(disconnect # "idle") + Bit(is_connected) <= 2 * edid

StatusRight == (status = "connected") <=> is_connected

\* What a check or a probe has read is what is, unless another check is due.
StatusInv ==
  /\ hpd = 0 /\ disconnect = "idle" =>
       /\ StatusRight
       /\ probe.pc = "detect" => (probe.connected <=> is_connected)
  /\ probe.pc = "check" =>
       /\ hpd > 0
       /\ hpd = 1 /\ disconnect = "idle" => (probe.connected <=> is_connected)

ShownRight ==
  shown = IF is_connected THEN [edid |-> edid, limits |-> edid] ELSE Nothing

\* The probe under way will show the right modes.
ProbeRight ==
  \/ probe.pc = "detect" /\ (probe.connected <=> is_connected)
  \/ probe.pc = "modes" /\ is_connected
  \/ probe.pc = "valid" /\ probe.edid = IF is_connected THEN edid ELSE 0

\* Somebody will look at the connector again.
LookDue == uevent \/ ~StatusRight \/ ProbeRight

ModesInv ==
  /\ limits = edid
  /\ is_connected => edid > 0
  /\ ShownRight \/ LookDue
  /\ probe.pc \in {"modes", "valid"} => LookDue

LEMMA NoProbeType ==
  NoProbe \in Probes /\ NoProbe.pc = "none" /\ 0 \in Connections
BY MaxConnectsAssumption DEF NoProbe, Probes, Connections

\* The bus leaves the client and the connector alone.
LEMMA BusStepStays ==
  ASSUME BusStep
  PROVE  /\ UNCHANGED <<edid, limits, hpd, connectorVars, is_connected>>
         /\ disconnect' = "idle" <=> disconnect = "idle"
BY DEF BusStep, painterVars, evdi_remove_i2c_adapter, OpenBus, CloseBus,
       StartTransfer, TransferStep, IgnoreMessage,
       evdi_painter_i2c_data_notify, RequestResponse, TakeCompletion,
       ResponseTimeout, CopyResponse, evdi_painter_ddcci_response_ioctl,
       ResponseFails

\* What the steps of the client do to what the connector reads.
LEMMA ClientSteps ==
  /\ ConnectMonitor =>
       /\ edid < MaxConnects /\ edid' = edid + 1 /\ limits' = edid'
       /\ hpd' = hpd + 1 /\ is_connected' = TRUE
       /\ UNCHANGED <<disconnect, connectorVars>>
       /\ OneClient => ~is_connected /\ disconnect = "idle" /\ hpd = 0
  /\ DisconnectMonitor =>
       /\ is_connected /\ is_connected' = FALSE
       /\ disconnect = "idle" /\ disconnect' = "locked"
       /\ UNCHANGED <<edid, limits, hpd, connectorVars>>
       /\ OneClient => hpd = 0
  /\ DisconnectReturns =>
       /\ disconnect = "unlocked" /\ disconnect' = "idle"
       /\ hpd' = hpd + 1
       /\ UNCHANGED <<edid, limits, is_connected, connectorVars>>
BY DEF ConnectMonitor, DisconnectMonitor, DisconnectReturns,
       evdi_painter_connect, evdi_painter_disconnect, DisconnectComplete

\* What the fields of a probe become.
LEMMA ProbeFields ==
  ASSUME ConnectorTypes, is_connected \in BOOLEAN
  PROVE
  /\ HotplugCheck =>
       /\ probe = NoProbe /\ probe'.pc = "check" /\ probe' \in Probes
       /\ probe'.connected <=> is_connected
  /\ Probe =>
       /\ probe = NoProbe /\ probe'.pc = "detect" /\ probe' \in Probes
       /\ probe'.connected <=> is_connected
  /\ ProbeDetected =>
       IF probe.connected
       THEN probe'.pc = "modes" /\ probe' \in Probes /\ UNCHANGED shown
       ELSE probe' = NoProbe /\ shown' = Nothing
  /\ evdi_get_modes =>
       /\ probe'.pc = "valid" /\ probe' \in Probes
       /\ probe'.edid = IF is_connected THEN edid ELSE 0
<1> USE NoProbeType DEF ConnectorTypes
<1>1. ASSUME NEW pc \in {"check", "detect"},
             probe' = [NoProbe EXCEPT !.pc = pc, !.connected = evdi_detect]
      PROVE  /\ probe'.pc = pc /\ probe' \in Probes
             /\ probe'.connected <=> is_connected
  BY <1>1 DEF Probes, evdi_detect
<1>2. HotplugCheck => probe = NoProbe /\ probe'.pc = "check" /\ probe' \in Probes
                        /\ (probe'.connected <=> is_connected)
  BY <1>1 DEF HotplugCheck
<1>3. Probe => probe = NoProbe /\ probe'.pc = "detect" /\ probe' \in Probes
                 /\ (probe'.connected <=> is_connected)
  BY <1>1 DEF Probe
<1>4. ProbeDetected =>
        IF probe.connected
        THEN probe'.pc = "modes" /\ probe' \in Probes /\ UNCHANGED shown
        ELSE probe' = NoProbe /\ shown' = Nothing
  BY DEF ProbeDetected, Probes
<1>5. ASSUME evdi_get_modes
      PROVE  /\ probe'.pc = "valid" /\ probe' \in Probes
             /\ probe'.edid = IF is_connected THEN edid ELSE 0
  <2>1. PICK e \in Connections : e = IF is_connected THEN edid ELSE 0
    OBVIOUS
  <2>2. probe' = [probe EXCEPT !.pc = "valid", !.edid = e]
    BY <1>5, <2>1 DEF evdi_get_modes, evdi_painter_get_edid_copy
  <2> QED BY <2>1, <2>2 DEF Probes
<1> QED BY <1>2, <1>3, <1>4, <1>5

\* Every step of MonitorNext is a step of the client, of the connector, or one
\* that both ignore.
LEMMA MonitorCases ==
  ASSUME [MonitorNext]_monitorVars
  PROVE  \/ ConnectMonitor \/ DisconnectMonitor \/ DisconnectReturns
         \/ /\ HotplugCheck \/ HotplugCheckEnd \/ Probe \/ ProbeDetected
               \/ evdi_get_modes \/ ValidateModes
            /\ UNCHANGED <<edid, limits, is_connected, disconnect>>
         \/ /\ UNCHANGED <<edid, limits, hpd, connectorVars, is_connected>>
            /\ disconnect' = "idle" <=> disconnect = "idle"
<1>1. CASE BusStep
  BY <1>1, BusStepStays
<1>2. CASE UNCHANGED monitorVars
  BY <1>2 DEF monitorVars, vars, painterVars
<1>3. CASE ConnectorStep \/ Probe
  BY <1>3 DEF ConnectorStep, HotplugCheck, HotplugCheckEnd, Probe,
     ProbeDetected, evdi_get_modes, ValidateModes, vars, painterVars
<1> QED BY <1>1, <1>2, <1>3 DEF MonitorNext

LEMMA NextConnectorTypes ==
  OtherTypes /\ ConnectorTypes /\ StatusInv /\ [MonitorNext]_monitorVars
    => ConnectorTypes'
<1> SUFFICES ASSUME OtherTypes, ConnectorTypes, StatusInv,
                    [MonitorNext]_monitorVars
             PROVE  ConnectorTypes'
  OBVIOUS
<1> USE NoProbeType DEF OtherTypes, ConnectorTypes
<1>1. CASE ConnectMonitor
  BY <1>1, ClientSteps, MaxConnectsAssumption DEF Connections, connectorVars
<1>2. CASE DisconnectMonitor \/ DisconnectReturns
  BY <1>2, ClientSteps DEF connectorVars
<1>3. CASE HotplugCheck \/ Probe \/ evdi_get_modes
  BY <1>3, ProbeFields DEF HotplugCheck, Probe, evdi_get_modes
<1>4. CASE HotplugCheckEnd
  BY <1>4 DEF HotplugCheckEnd, StatusOf, StatusInv
<1>5. CASE ProbeDetected
  BY <1>5, ProbeFields DEF ProbeDetected, StatusOf, Nothing
<1>6. CASE ValidateModes
  BY <1>6 DEF ValidateModes, Nothing, Probes
<1> QED BY <1>1, <1>2, <1>3, <1>4, <1>5, <1>6, MonitorCases DEF connectorVars

LEMMA NextStatusInv ==
  OtherTypes /\ ConnectorTypes /\ StatusInv /\ [MonitorNext]_monitorVars
    => StatusInv'
<1> SUFFICES ASSUME OtherTypes, ConnectorTypes, StatusInv,
                    [MonitorNext]_monitorVars
             PROVE  StatusInv'
  OBVIOUS
<1> USE DEF OtherTypes, ConnectorTypes, StatusInv, StatusRight
<1>1. CASE ConnectMonitor \/ DisconnectMonitor \/ DisconnectReturns
  BY <1>1, ClientSteps DEF connectorVars
<1>2. CASE HotplugCheck \/ Probe
  <2>1. /\ probe.pc = "none" /\ probe'.pc \in {"check", "detect"}
        /\ probe'.connected <=> is_connected
        /\ probe'.pc = "check" => hpd > 0
    BY <1>2, ProbeFields, NoProbeType DEF HotplugCheck
  <2>2. UNCHANGED <<is_connected, disconnect, hpd, status>>
    BY <1>2 DEF HotplugCheck, Probe, vars, painterVars
  <2> QED BY <2>1, <2>2
<1>3. CASE HotplugCheckEnd
  <2>1. probe.pc = "check" /\ hpd' = hpd - 1 /\ probe'.pc = "none"
        /\ status' = StatusOf(probe.connected)
        /\ UNCHANGED <<is_connected, disconnect>>
    BY <1>3, NoProbeType DEF HotplugCheckEnd, vars, painterVars
  <2> QED BY <2>1 DEF StatusOf
<1>4. CASE ProbeDetected
  <2>1. probe.pc = "detect" /\ hpd' = hpd /\ probe'.pc \in {"none", "modes"}
        /\ status' = StatusOf(probe.connected)
        /\ UNCHANGED <<is_connected, disconnect>>
    BY <1>4, NoProbeType, ProbeFields DEF ProbeDetected, vars, painterVars
  <2> QED BY <2>1 DEF StatusOf
<1>5. CASE evdi_get_modes \/ ValidateModes
  <2>1. probe'.pc \in {"none", "valid"}
        /\ UNCHANGED <<is_connected, disconnect, hpd, status>>
    BY <1>5, NoProbeType, ProbeFields
       DEF evdi_get_modes, ValidateModes, vars, painterVars
  <2> QED BY <2>1
<1> QED BY <1>1, <1>2, <1>3, <1>4, <1>5, MonitorCases DEF connectorVars

LEMMA NextHpdInv ==
  OtherTypes /\ ConnectorTypes /\ HpdInv /\ [MonitorNext]_monitorVars => HpdInv'
<1> SUFFICES ASSUME OtherTypes, ConnectorTypes, HpdInv,
                    [MonitorNext]_monitorVars
             PROVE  HpdInv'
  OBVIOUS
<1>1. edid \in Nat /\ hpd \in Nat
  BY DEF ConnectorTypes, Connections
<1>2. CASE ConnectMonitor \/ DisconnectMonitor \/ DisconnectReturns
  BY <1>1, <1>2, ClientSteps DEF OtherTypes, HpdInv, Bit
<1>3. CASE ~(ConnectMonitor \/ DisconnectMonitor \/ DisconnectReturns)
  <2>1. hpd' = hpd \/ hpd' = hpd - 1
    BY <1>3, MonitorCases DEF HotplugCheck, HotplugCheckEnd, Probe,
       ProbeDetected, evdi_get_modes, ValidateModes
  <2>2. /\ UNCHANGED <<edid, is_connected>>
        /\ disconnect' = "idle" <=> disconnect = "idle"
    BY <1>3, MonitorCases
  <2> QED BY <1>1, <2>1, <2>2 DEF HpdInv, Bit
<1> QED BY <1>2, <1>3

LEMMA InitConnector ==
  MonitorInit => ConnectorTypes /\ HpdInv /\ StatusInv /\ ModesInv
<1> SUFFICES ASSUME MonitorInit
             PROVE  ConnectorTypes /\ HpdInv /\ StatusInv /\ ModesInv
  OBVIOUS
<1> USE NoProbeType DEF MonitorInit, Init
<1>1. ConnectorTypes
  BY DEF ConnectorTypes, Nothing
<1>2. HpdInv /\ StatusInv /\ ModesInv
  BY DEF HpdInv, Bit, StatusInv, StatusRight, ModesInv, ShownRight
<1> QED BY <1>1, <1>2

LEMMA ConnectorAlways ==
  MonitorSpec => [](OtherTypes /\ ConnectorTypes /\ StatusInv)
<1>1. MonitorSpec => []OtherTypes
  BY MonitorImplementsDdcci, TypesAtInit, XferNext, OtherTypesNext, PTL DEF Spec
<1> QED
  BY <1>1, InitConnector, NextConnectorTypes, NextStatusInv, PTL DEF MonitorSpec

\* Hotplug checks do not pile up: a connect owes one, and so does the
\* disconnect that ends it, with any number of clients.
THEOREM MonitorTypeCorrect == MonitorSpec => []MonitorTypeOK
<1>1. TypeOK /\ OtherTypes /\ ConnectorTypes /\ HpdInv => MonitorTypeOK
  <2> SUFFICES ASSUME TypeOK, OtherTypes, ConnectorTypes, HpdInv
               PROVE  MonitorTypeOK
    OBVIOUS
  <2>1. hpd \in 0..(2 * MaxConnects)
    BY MaxConnectsAssumption
       DEF OtherTypes, ConnectorTypes, HpdInv, Bit, Connections
  <2> QED BY <2>1 DEF MonitorTypeOK, ConnectorTypes, Probes
<1>2. MonitorSpec => []HpdInv
  BY InitConnector, NextHpdInv, ConnectorAlways, PTL DEF MonitorSpec
<1> QED
  BY <1>1, <1>2, DdcciTypeCorrect, MonitorImplementsDdcci, ConnectorAlways, PTL

\* evdi_detect reads is_connected without a lock, and any number of clients may
\* connect and disconnect while checks and probes are under way: the status
\* that remains is that of the painter.
THEOREM TheStatusSettles == MonitorSpec => []StatusSettles
<1>1. OtherTypes /\ StatusInv => StatusSettles
  BY DEF OtherTypes, StatusInv, StatusRight, StatusSettles, Settled
<1> QED BY <1>1, ConnectorAlways, PTL

LEMMA NextModesInv ==
  ASSUME OneClient
  PROVE  OtherTypes /\ ConnectorTypes /\ StatusInv /\ ModesInv
           /\ [MonitorNext]_monitorVars => ModesInv'
<1> SUFFICES ASSUME OtherTypes, ConnectorTypes, StatusInv, ModesInv,
                    [MonitorNext]_monitorVars
             PROVE  ModesInv'
  OBVIOUS
<1> DEFINE Now == IF is_connected THEN [edid |-> edid, limits |-> edid]
                  ELSE Nothing
<1> USE NoProbeType DEF OtherTypes, ConnectorTypes, ModesInv, LookDue,
                        StatusRight, ShownRight, ProbeRight
<1>1. CASE ConnectMonitor \/ DisconnectMonitor
  <2>1. ~StatusRight'
    BY <1>1, ClientSteps DEF connectorVars, StatusInv
  <2> QED BY <1>1, <2>1, ClientSteps DEF connectorVars, Connections
<1>2. CASE DisconnectReturns
  BY <1>2, ClientSteps DEF connectorVars
<1>3. CASE HotplugCheck
  <2>1. /\ probe.pc = "none" /\ probe'.pc = "check"
        /\ UNCHANGED <<edid, limits, is_connected, shown, uevent, status>>
    BY <1>3, ProbeFields DEF HotplugCheck, vars, painterVars
  <2> QED BY <2>1
<1>8. CASE Probe
  <2>1. /\ probe'.pc = "detect" /\ (probe'.connected <=> is_connected)
        /\ UNCHANGED <<edid, limits, is_connected, shown, status>>
    BY <1>8, ProbeFields DEF Probe, vars, painterVars
  <2> QED BY <2>1
<1>4. CASE HotplugCheckEnd
  <2>1. /\ probe.pc = "check" /\ probe'.pc = "none"
        /\ status' = StatusOf(probe.connected)
        /\ uevent' = (uevent \/ status' # status)
        /\ UNCHANGED <<edid, limits, shown, is_connected>>
    BY <1>4 DEF HotplugCheckEnd, vars, painterVars
  <2> QED BY <2>1
<1>5. CASE ProbeDetected
  <2>1. /\ probe.pc = "detect"
        /\ status' = StatusOf(probe.connected)
        /\ uevent' = (uevent \/ status' # status)
        /\ UNCHANGED <<edid, limits, is_connected>>
    BY <1>5 DEF ProbeDetected, vars, painterVars
  <2>2. CASE probe.connected
    <3>1. probe'.pc = "modes" /\ UNCHANGED shown /\ status' = "connected"
      BY <1>5, <2>1, <2>2, ProbeFields DEF StatusOf
    <3> QED BY <2>1, <2>2, <3>1
  <2>3. CASE ~probe.connected
    <3>1. probe'.pc = "none" /\ shown' = Nothing /\ status' # "connected"
      BY <1>5, <2>1, <2>3, ProbeFields DEF StatusOf
    <3> QED BY <2>1, <2>3, <3>1
  <2> QED BY <2>2, <2>3
<1>6. CASE evdi_get_modes
  <2>1. /\ probe'.pc = "valid" /\ probe'.edid = IF is_connected THEN edid ELSE 0
        /\ UNCHANGED <<edid, limits, is_connected, shown, uevent, status>>
    BY <1>6, ProbeFields DEF evdi_get_modes, vars, painterVars
  <2> QED BY <2>1
<1>7. CASE ValidateModes
  <2>1. /\ probe.pc = "valid" /\ probe'.pc = "none"
        /\ shown' = IF probe.edid = 0 THEN Nothing
                    ELSE [edid |-> probe.edid, limits |-> limits]
        /\ UNCHANGED <<edid, limits, is_connected, uevent, status>>
    BY <1>7 DEF ValidateModes, vars, painterVars
  <2>2. CASE ProbeRight
    <3>1. shown' = Now
      BY <2>1, <2>2 DEF Connections
    <3> QED BY <2>1, <3>1
  <2>3. CASE ~ProbeRight
    BY <2>1, <2>3
  <2> QED BY <2>2, <2>3
<1> QED BY <1>1, <1>2, <1>3, <1>4, <1>5, <1>6, <1>7, <1>8, MonitorCases
        DEF connectorVars

\* The compositor ends up with the modes of the monitor that is connected,
\* although evdi_get_modes and evdi_mode_valid read at different times of a
\* probe what the painter changes: for a client that disconnects before it
\* connects again.
THEOREM TheModesSettle == MonitorSpec => []ModesSettle
<1>1. CASE OneClient
  <2>1. StatusInv /\ ModesInv => ModesSettle
    BY NoProbeType DEF StatusInv, ModesInv, LookDue, StatusRight, ProbeRight,
       ShownRight, ModesSettle, Settled
  <2>2. MonitorSpec => []ModesInv
    BY <1>1, InitConnector, NextModesInv, ConnectorAlways, PTL DEF MonitorSpec
  <2> QED BY <2>1, <2>2, ConnectorAlways, PTL
<1>2. CASE ~OneClient
  <2>1. ModesSettle
    BY <1>2 DEF ModesSettle
  <2> QED BY <2>1, PTL
<1> QED BY <1>1, <1>2, OneClientAssumption
=============================================================================
