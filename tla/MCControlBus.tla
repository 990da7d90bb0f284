----------------------------- MODULE MCControlBus -----------------------------
(***************************************************************************)
(* ControlBus for TLC: the throttle module, the gateway and the tool, each *)
(* with the traffic that matters to it, and the gateway with each other.   *)
(***************************************************************************)
EXTENDS ControlBus

F(id, ext, len, data) == [id |-> id, ext |-> ext, len |-> len, data |-> data]

\* The throttle module's disable frame, a fault report cut to one byte, and
\* an extended frame with the number of the disable frame.
MCOrders ==
  { F(145, FALSE, 3, <<0, 7, 7>>), F(175, FALSE, 1, <<0, 0, 0>>),
    F(145, TRUE, 3, <<0, 7, 7>>) }

\* The brake module disabled, enabled, and with a DTC; the throttle module
\* disabled and enabled; one DTC of the brake module after the other.
Reports ==
  { F(115, FALSE, 3, <<0, 0, 0>>), F(115, FALSE, 3, <<1, 0, 0>>),
    F(115, FALSE, 3, <<1, 0, 2>>),
    F(147, FALSE, 3, <<0, 0, 0>>), F(147, FALSE, 3, <<1, 0, 0>>) }

BothDtcs == { F(115, FALSE, 3, <<0, 0, 1>>), F(115, FALSE, 3, <<1, 0, 2>>) }

\* The wheel speed, whole and short, an extended frame with the number of
\* the brake pressure, and a frame that is not forwarded.
MCObd ==
  { F(1200, FALSE, 3, <<0, 9, 9>>), F(1200, FALSE, 2, <<0, 8, 0>>),
    F(544, TRUE, 9, <<0, 9, 9>>),   F(1316, FALSE, 3, <<0, 9, 9>>) }

ToolTraffic ==
  { F(id, FALSE, 3, d) :
      id \in {0, 114, 115, 147, 1200}, d \in {<<0, 0, 0>>, <<1, 0, 1>>} }

T(nodes, limit, orders, traffic, obd, obdMax) ==
  [nodes |-> nodes, refusals |-> limit, orders |-> orders,
   traffic |-> traffic, obd |-> obd, obdMax |-> obdMax]

WheelSpeed == F(1200, FALSE, 3, <<0, 9, 9>>)

\* An enable frame is no report.  Four frames of the vehicle find all transmit buffers full.
MCTopologies ==
  { T({"module"}, 0, MCOrders, {}, {}, 0),
    T({"module"}, 1, {F(145, FALSE, 1, <<0, 0, 0>>)}, {}, {}, 0),
    T({"gateway"}, 0, {}, Reports, {}, 0),
    T({"gateway"}, 0, {}, BothDtcs, {}, 0),
    T({"gateway"}, 0, {}, {F(144, FALSE, 3, <<0, 7, 7>>)}, MCObd, 2),
    T({"gateway"}, 0, {}, {}, {WheelSpeed}, 4),
    T({"tool"}, 0, {}, ToolTraffic, {}, 0),
    T({"module", "gateway"}, 0, {}, {}, {}, 0),
    T({"gateway", "tool"}, 0, {}, {F(147, FALSE, 3, <<1, 0, 1>>)},
      {WheelSpeed}, 1) }

MCModules    == {"brakes", "throttle"}
MCReportIdOf == [brakes |-> 115, throttle |-> 147]
MCReportOf   == [brakes |-> 115, steering |-> 131, throttle |-> 147]
MCCommandOf  == [brakes |-> 114, steering |-> 130, throttle |-> 146]
MCIds        == {0, 114, 115, 130, 131, 146, 147, 544, 688, 1200}
MCObdIds     == {688, 1200, 544}

\* Filters at power-up: one that takes a foreign report, or one that takes
\* nothing that is sent; with no mask they are all the same.
MCPowerUp   == {WriteId(FALSE, 115)}
MCAnyFilter == {WriteId(FALSE, 0)}
=============================================================================
