------------------------------ MODULE ControlBus ------------------------------
(***************************************************************************)
(* The control CAN bus with the nodes attached to it: an actuator module's *)
(* CAN interface, the gateway and the diagnostics tool.  A frame that one  *)
(* node sends is heard by all the others at once; the application, and the *)
(* modules that are not modelled here, send the rest.                      *)
(*                                                                         *)
(* Which nodes are attached is chosen at the start.                        *)
(***************************************************************************)
EXTENDS ModuleCan, Gateway, DiagnosticsTool

CONSTANTS
  Topologies,   \* records [nodes, refusals, orders, traffic, obd, obdMax]:
                \* what is attached, how often the module's chip refuses a
                \* mode, the frames sent to the module, to the rest, and by
                \* the vehicle, and how many of the last (a bound)
  MaxOrders     \* bound: frames sent to the module

\* What the senders that are not modelled put on the buses are frames, and
\* with the tool attached every identifier on the control bus is in Ids.
ASSUME BusAssumption ==
  \A t \in Topologies :
    /\ t.refusals \in 0 .. MaxRefusals
    /\ t.orders \cup t.traffic \cup t.obd \subseteq Frame
    /\ "tool" \in t.nodes =>
         /\ \A f \in t.orders \cup t.traffic : f.id \in Ids
         /\ "module" \in t.nodes => ReportId \in Ids
         /\ "gateway" \in t.nodes => ObdIds \subseteq Ids

VARIABLES net, obdSent

busVars == <<net, obdSent>>
vars == <<moduleVars, gatewayVars, toolVars, busVars>>

Init ==
  /\ ModuleInit /\ GatewayInit /\ ToolInit
  /\ net \in Topologies
  /\ "tool" \in net.nodes \/ tool = "running"
  /\ refusals = net.refusals
  /\ obdSent = 0

Attached(node) == node \in net.nodes

\* A frame as the tool's driver hands it over.
ForTool(f) ==
  [id |-> f.id, buffer |-> [enabled |-> f.data[1], override |-> f.data[2],
                            dtcs |-> f.data[3]]]

\* What the nodes other than the sender do with a frame on the bus.
OthersHear(f, sender) ==
  /\ IF sender = "module" THEN TRUE
     ELSE IF Attached("module") THEN ModuleHears(f) ELSE UNCHANGED moduleVars
  /\ IF sender = "gateway" THEN TRUE
     ELSE IF Attached("gateway") THEN GatewayHears(f) ELSE UNCHANGED gatewayVars
  /\ IF Attached("tool") THEN ToolHears(ForTool(f)) ELSE UNCHANGED toolVars

\* The application, or another module, sends a frame the module may want.
OrderSent ==
  /\ Len(mSent) < MaxOrders
  /\ \E f \in net.orders : OthersHear(f, "application")
  /\ UNCHANGED busVars

TrafficSent ==
  /\ \E f \in net.traffic : OthersHear(f, "application")
  /\ UNCHANGED busVars

VehicleSends ==
  /\ Attached("gateway") /\ obdSent < net.obdMax
  /\ obdSent' = obdSent + 1
  /\ \E f \in net.obd : GatewayHearsObd(f)
  /\ UNCHANGED <<moduleVars, toolVars, net>>

\* The bus takes a frame from the module's or the gateway's chip.
ModuleSends ==
  /\ Attached("module")
  /\ \E b \in NextToSend(mChip) :
       /\ OthersHear(mChip.tx[b].frame, "module")
       /\ ModuleSent(b)
  /\ UNCHANGED busVars

GatewaySends ==
  /\ Attached("gateway")
  /\ \E b \in NextToSend(gCtl) :
       /\ OthersHear(gCtl.tx[b].frame, "gateway")
       /\ GatewaySent(b)
  /\ UNCHANGED busVars

ModuleActs ==
  Attached("module") /\ ModuleStep
  /\ UNCHANGED <<gatewayVars, toolVars, busVars>>

GatewayActs ==
  Attached("gateway") /\ GatewayMain
  /\ UNCHANGED <<moduleVars, toolVars, busVars>>

GatewayDisplays ==
  Attached("gateway") /\ UpdateDisplay
  /\ UNCHANGED <<moduleVars, toolVars, busVars>>

ToolActs ==
  Attached("tool") /\ ToolStep
  /\ UNCHANGED <<moduleVars, gatewayVars, busVars>>

Next ==
  \/ OrderSent \/ TrafficSent \/ VehicleSends \/ ModuleSends \/ GatewaySends
  \/ ModuleActs \/ GatewayActs \/ GatewayDisplays \/ ToolActs

\* The gateway's main loop runs on a processor of its own; its interrupt
\* returns.  Nothing is assumed of the bus.
Fairness == WF_vars(GatewayActs)

Spec == Init /\ [][Next]_vars /\ Fairness

--------------------------------------------------------------------------
\* The state space of the three nodes.
TypeOK == ModuleTypeOK /\ GatewayTypeOK /\ ToolTypeOK

=============================================================================
