------------------------------- MODULE Monitor ------------------------------
(***************************************************************************)
(* The connector (module/evdi_connector.c) on top of module Ddcci: a       *)
(* client's connects and disconnects, the hotplug checks that follow them, *)
(* and the compositor, which probes the connector for the EDID and the     *)
(* modes of the monitor.                                                   *)
(*                                                                         *)
(* Checks and probes are DRM's: they hold mode_config.mutex, and call      *)
(* evdi_detect, which reads is_connected without a lock, evdi_get_modes,   *)
(* which takes painter->lock, and evdi_mode_valid, which reads the limits  *)
(* without it.  A connection is its number: that of the connect which set  *)
(* the EDID and the limits.  Module Arithmetic has the limits themselves.  *)
(***************************************************************************)
EXTENDS Ddcci

CONSTANTS
  MaxConnects,   \* bound on the connects of a behaviour
  OneClient      \* is there one client with one thread, which disconnects
                 \* before it connects again?

ASSUME MaxConnectsAssumption == MaxConnects \in Nat
ASSUME OneClientAssumption == OneClient \in BOOLEAN

VARIABLES
  edid,      \* the connection whose EDID painter->edid is; NULL is 0
  limits,    \* the connection whose limits evdi_device has
  hpd,       \* hotplug checks that connects and disconnects still have to make
  status,    \* connector->status
  probe,     \* the check or probe that holds mode_config.mutex: where it is,
             \* what evdi_detect told it, and the EDID it has found
  uevent,    \* has a hotplug event been sent that nobody has looked into?
  shown      \* the connection of the EDID and of the limits that the
             \* compositor's modes were made with

connectorVars == <<status, probe, uevent, shown>>
monitorVars == <<vars, edid, limits, hpd, connectorVars>>

Connections == 0..MaxConnects
NoProbe == [pc |-> "none", connected |-> FALSE, edid |-> 0]
Nothing == [edid |-> 0, limits |-> 0]

MonitorTypeOK ==
  /\ TypeOK
  /\ edid \in Connections /\ limits \in Connections
  /\ hpd \in 0..(2 * MaxConnects)
  /\ status \in {"unknown", "connected", "disconnected"}
  /\ probe \in [pc : {"none", "check", "detect", "modes", "valid"},
                connected : BOOLEAN, edid : Connections]
  /\ uevent \in BOOLEAN
  /\ shown \in [edid : Connections, limits : Connections]

MonitorInit ==
  /\ Init
  /\ edid = 0 /\ limits = 0
  /\ hpd = 0
  /\ status = "unknown"
  /\ probe = NoProbe
  /\ uevent = FALSE
  /\ shown = Nothing

-----------------------------------------------------------------------------
(***************************************************************************)
(* The client.                                                             *)
(***************************************************************************)

\* Mutant: the limits of the last client stay.
ConnectKeepsLimits ==
  /\ edid < MaxConnects
  /\ OneClient => ~is_connected /\ disconnect = "idle" /\ hpd = 0
  /\ evdi_painter_connect
  /\ edid' = edid + 1
  /\ limits' = IF limits = 0 THEN edid + 1 ELSE limits
  /\ hpd' = hpd + 1
  /\ UNCHANGED connectorVars

\* evdi_painter_connect stores the EDID and the limits under painter->lock;
\* after the unlock it makes a hotplug check.
ConnectMonitor ==
  /\ edid < MaxConnects
  /\ OneClient => ~is_connected /\ disconnect = "idle" /\ hpd = 0
  /\ evdi_painter_connect
  /\ edid' = edid + 1 /\ limits' = edid + 1
  /\ hpd' = hpd + 1
  /\ UNCHANGED connectorVars

\* evdi_painter_disconnect keeps both.
DisconnectMonitor ==
  /\ OneClient => hpd = 0
  /\ evdi_painter_disconnect
  /\ UNCHANGED <<edid, limits, hpd, connectorVars>>

\* Mutant: no hotplug check.
ReturnUnchecked ==
  /\ DisconnectComplete
  /\ UNCHANGED <<edid, limits, hpd, connectorVars>>

\* Its hotplug check follows the complete().
DisconnectReturns ==
  /\ DisconnectComplete
  /\ hpd' = hpd + 1
  /\ UNCHANGED <<edid, limits, connectorVars>>

-----------------------------------------------------------------------------
(***************************************************************************)
(* The connector.                                                          *)
(***************************************************************************)

evdi_detect == is_connected

\* drm_helper_hpd_irq_event: it detects ...
HotplugCheck ==
  /\ hpd > 0
  /\ probe = NoProbe
  /\ probe' = [NoProbe EXCEPT !.pc = "check", !.connected = evdi_detect]
  /\ UNCHANGED <<vars, edid, limits, hpd, status, uevent, shown>>

StatusOf(connected) == IF connected THEN "connected" ELSE "disconnected"

\* ... and sends an event if the status has changed.
HotplugCheckEnd ==
  /\ probe.pc = "check"
  /\ status' = StatusOf(probe.connected)
  /\ uevent' = (uevent \/ status' # status)
  /\ probe' = NoProbe
  /\ hpd' = hpd - 1
  /\ UNCHANGED <<vars, edid, limits, shown>>

\* The compositor probes the connector, because of an event or by itself
\* (drm_helper_probe_single_connector_modes).
Probe ==
  /\ probe = NoProbe
  /\ uevent' = FALSE
  /\ probe' = [NoProbe EXCEPT !.pc = "detect", !.connected = evdi_detect]
  /\ UNCHANGED <<vars, edid, limits, hpd, status, shown>>

\* A probe that finds another status sends an event itself.  There are no
\* modes for a connector that is disconnected.
ProbeDetected ==
  /\ probe.pc = "detect"
  /\ status' = StatusOf(probe.connected)
  /\ uevent' = (uevent \/ status' # status)
  /\ IF probe.connected
     THEN probe' = [probe EXCEPT !.pc = "modes"] /\ UNCHANGED shown
     ELSE probe' = NoProbe /\ shown' = Nothing
  /\ UNCHANGED <<vars, edid, limits, hpd>>

\* evdi_painter_get_edid_copy, under painter->lock
evdi_painter_get_edid_copy == IF is_connected THEN edid ELSE 0

\* Mutant: a probe waits for an EDID.
WaitForEdid ==
  /\ probe.pc = "modes"
  /\ LockFree
  /\ probe' = IF evdi_painter_get_edid_copy = 0 THEN probe
              ELSE [probe EXCEPT !.pc = "valid",
                                 !.edid = evdi_painter_get_edid_copy]
  /\ UNCHANGED <<vars, edid, limits, hpd, status, uevent, shown>>

\* evdi_get_modes: without an EDID there are no modes.  Failed allocations are
\* left out.
evdi_get_modes ==
  /\ probe.pc = "modes"
  /\ LockFree
  /\ probe' = [probe EXCEPT !.pc = "valid", !.edid = evdi_painter_get_edid_copy]
  /\ UNCHANGED <<vars, edid, limits, hpd, status, uevent, shown>>

\* The modes of the EDID are validated with the limits of now.
ValidateModes ==
  /\ probe.pc = "valid"
  /\ shown' = IF probe.edid = 0 THEN Nothing
              ELSE [edid |-> probe.edid, limits |-> limits]
  /\ probe' = NoProbe
  /\ UNCHANGED <<vars, edid, limits, hpd, status, uevent>>

ConnectorStep ==
  \/ HotplugCheck \/ HotplugCheckEnd
  \/ ProbeDetected \/ evdi_get_modes \/ ValidateModes

\* Module Ddcci's other steps.
BusStep ==
  /\ \/ evdi_remove_i2c_adapter
     \/ \E u \in Users : OpenBus(u) \/ CloseBus(u)
     \/ \E u \in Users, n \in 1..MaxMessages : StartTransfer(u, n)
     \/ TransferStep
     \/ \E id \in asked, len \in Lengths :
          evdi_painter_ddcci_response_ioctl(id, len) \/ ResponseFails(id, len)
  /\ UNCHANGED <<edid, limits, hpd, connectorVars>>

MonitorNext ==
  \/ ConnectMonitor \/ DisconnectMonitor \/ DisconnectReturns
  \/ Probe \/ ConnectorStep
  \/ BusStep

MonitorSpec == MonitorInit /\ [][MonitorNext]_monitorVars

\* The kernel runs the threads of a transfer, of a disconnect and of a probe
\* until they wait for one another or for a program.
MonitorFairness ==
  LET Others == <<edid, limits, hpd, connectorVars>>
  IN /\ WF_monitorVars(TransferStep /\ UNCHANGED Others)
     /\ WF_monitorVars(evdi_remove_i2c_adapter /\ UNCHANGED Others)
     /\ WF_monitorVars(ConnectorStep)

MonitorFairSpec == MonitorSpec /\ MonitorFairness

-----------------------------------------------------------------------------
(***************************************************************************)
(* Properties.                                                             *)
(***************************************************************************)

\* Nothing is under way that will look at the connector again.
Settled == hpd = 0 /\ probe = NoProbe /\ disconnect = "idle"

\* Whatever clients, checks and probes do at the same time, the status that
\* remains is that of the painter: evdi_detect reads is_connected without a
\* lock, but a check follows every change of it.
StatusSettles == Settled => (status = "connected") = is_connected

\* Once one client's connect or disconnect has settled and the compositor has
\* looked into its events, its modes are those of the monitor that is
\* connected: never an earlier monitor's, nor filtered by its limits.
ModesSettle ==
  OneClient /\ Settled /\ ~uevent =>
    shown = IF is_connected THEN [edid |-> edid, limits |-> edid] ELSE Nothing

\* A probe returns, although it waits for a disconnect that waits, with
\* painter->lock held, for the programs that hold the i2c bus open: if they
\* close it now and then, nobody waits in a circle.
ProbeReturns ==
  (\A u \in Users : []<>(u \notin holders)) =>
    (probe # NoProbe ~> probe = NoProbe)
=============================================================================
