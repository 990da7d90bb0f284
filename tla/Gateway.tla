------------------------------- MODULE Gateway -------------------------------
(***************************************************************************)
(* The CAN gateway, firmware/can_gateway: the main loop parses the         *)
(* modules' reports into g_display_state, one field after the other, and   *)
(* copies the vehicle's frames from the OBD bus to the control bus; the    *)
(* display interrupt reads that state between any two of its steps.        *)
(*                                                                         *)
(* A read of a chip is one step here, since a full buffer is not touched   *)
(* by the bus (ModuleCan shows what cutting it changes); a send is cut at  *)
(* every poll.                                                             *)
(***************************************************************************)
EXTENDS CanController, Sequences

CONSTANTS
  Modules,       \* the modules that report
  ReportIdOf,    \* OSCC_..._REPORT_CAN_ID of each
  ObdIds,        \* the identifiers that are republished
  AnyFilter      \* what the filter registers hold: no mask is ever set

\* A report names its DTCs in its third byte behind the magic.
ASSUME GatewayAssumption ==
  /\ "none" \notin Modules
  /\ ReportIdOf \in [Modules -> CanId(FALSE)]
  /\ ObdIds \subseteq CanId(FALSE)
  /\ AnyFilter \subseteq IdRegisters
  /\ DataMax >= 3

VARIABLES
  gCtl, gObd,    \* the two controllers
  gCan, gObdCan, \* the fields of g_control_can and g_obd_can
  gPc,           \* next step of the main loop
  gFrame,        \* the report being parsed
  gSend,         \* sendMsg to the control bus
  status, dtc,   \* g_display_state: status_screen and dtc_screen
  screen,        \* g_display_state.current_screen
  button,        \* button_val_last
  toggle,        \* toggleState of update_leds
  led,           \* the lit LED
  parsed,        \* the last report parsed to the end, of each module
  gSeen,         \* frames taken from the OBD bus, numbered from 1
  gFrom,         \* the number of the frame a transmit buffer was filled from
  gOut           \* frames put on the control bus: [from, frame]

gatewayVars == <<gCtl, gObd, gCan, gObdCan, gPc, gFrame, gSend, status, dtc,
                 screen, button, toggle, led, parsed, gSeen, gFrom, gOut>>
chips   == <<gCtl, gObd, gCan, gObdCan>>
display == <<status, dtc, screen, button, toggle, led>>
notes   == <<parsed, gSeen, gFrom, gOut>>

NoReport == [module |-> "none", enabled |-> 0, dtcs |-> 0]

Dtcs == 0 .. 1      \* ..._DTC_INVALID_SENSOR_VAL, ..._DTC_OPERATOR_OVERRIDE

GatewayInit ==
  /\ \E f \in AnyFilter :
       /\ gCtl = SetMode(Reset([n \in 0 .. 5 |-> f]), "normal")
       /\ gObd = gCtl
  /\ gCan = NoFrame /\ gObdCan = NoFrame
  /\ gPc = "reports" /\ gFrame = NoReport /\ gSend = NotSending
  /\ status = [m \in Modules |-> "UNKNOWN"]
  /\ dtc = [m \in Modules |-> [d \in Dtcs |-> FALSE]]
  /\ screen = "STATUS_SCREEN" /\ button = FALSE
  /\ toggle = 0 /\ led = "off"
  /\ parsed = [m \in Modules |-> NoReport]
  /\ gSeen = <<>> /\ gFrom = [b \in 0 .. 2 |-> 0] /\ gOut = <<>>

--------------------------------------------------------------------------
(* Reports of the modules. *)

\* oscc_..._report_s behind the magic bytes, which nobody checks here.
Report(m, frame) ==
  [module |-> m, enabled |-> frame.data[1], dtcs |-> frame.data[3]]

\* DTC_CHECK
DtcCheck(dtcs, d) == (dtcs \div (IF d = 0 THEN 1 ELSE 2)) % 2 = 1

CheckForModuleReports ==
  /\ gPc = "reports"
  /\ \/ /\ Pending(gCtl) = {}
        /\ gPc' = "obd"
        /\ UNCHANGED <<gCtl, gCan, gFrame>>
     \/ \E b \in Pending(gCtl) :
          /\ gCan' = ReadAll(gCtl, b, gCan)
          /\ gCtl' = Release(gCtl, b)
          /\ LET frame == Copy(gCan')
                 from  == {m \in Modules : ReportIdOf[m] = frame.id}
             IN  \/ /\ from = {}
                    /\ gPc' = "obd"
                    /\ UNCHANGED gFrame
                 \/ \E m \in from :
                      /\ gFrame' = Report(m, frame)
                      /\ gPc' = "enabled"
  /\ UNCHANGED <<gObd, gObdCan, gSend, display, notes>>

\* Mutant: a module that is no longer enabled keeps its status.
ParseEnabledOnly ==
  /\ gPc = "enabled"
  /\ status' = IF gFrame.enabled = 1
               THEN [status EXCEPT ![gFrame.module] = "ENABLED"]
               ELSE status
  /\ gPc' = "error"
  /\ UNCHANGED <<chips, gFrame, gSend, dtc, screen, button, toggle, led, notes>>

\* parse_..._report, its four if statements one by one.
ParseEnabled ==
  /\ gPc = "enabled"
  /\ status' = [status EXCEPT ![gFrame.module] =
                  IF gFrame.enabled = 1 THEN "ENABLED" ELSE "DISABLED"]
  /\ gPc' = "error"
  /\ UNCHANGED <<chips, gFrame, gSend, dtc, screen, button, toggle, led, notes>>

ParseError ==
  /\ gPc = "error"
  /\ status' = IF gFrame.dtcs # 0
               THEN [status EXCEPT ![gFrame.module] = "ERROR"]
               ELSE status
  /\ gPc' = "sensor"
  /\ UNCHANGED <<chips, gFrame, gSend, dtc, screen, button, toggle, led, notes>>

\* Mutant: a DTC that is gone is not taken off the screen.
ParseDtcSet(d) ==
  dtc' = IF DtcCheck(gFrame.dtcs, d) THEN [dtc EXCEPT ![gFrame.module][d] = TRUE]
                                     ELSE dtc

ParseDtc(d) == dtc' = [dtc EXCEPT ![gFrame.module][d] = DtcCheck(gFrame.dtcs, d)]

ParseSensorDtc ==
  /\ gPc = "sensor"
  /\ ParseDtc(0)
  /\ gPc' = "override"
  /\ UNCHANGED <<chips, gFrame, gSend, status, screen, button, toggle, led,
                 notes>>

ParseOverrideDtc ==
  /\ gPc = "override"
  /\ ParseDtc(1)
  /\ parsed' = [parsed EXCEPT ![gFrame.module] = gFrame]
  /\ gFrame' = NoReport
  /\ gPc' = "obd"
  /\ UNCHANGED <<chips, gSend, status, screen, button, toggle, led,
                 gSeen, gFrom, gOut>>

--------------------------------------------------------------------------
(* Frames of the vehicle. *)

\* republish_obd_frames_to_control_can_bus up to the cli and setMsg; the
\* length passed is sizeof(rx_frame), 17, more than a frame can hold.
RepublishObdFrame ==
  /\ gPc = "obd"
  /\ \/ /\ Pending(gObd) = {}
        /\ gPc' = "reports"
        /\ UNCHANGED <<gObd, gObdCan, gCan, gSend, gSeen>>
     \/ \E b \in Pending(gObd) :
          /\ gObdCan' = ReadAll(gObd, b, gObdCan)
          /\ gObd' = Release(gObd, b)
          /\ gSeen' = Append(gSeen, gObd.rx[b])
          /\ LET frame == Copy(gObdCan')
             IN  IF frame.id \in ObdIds
                 THEN /\ gCan' = SetMsg(gCan, frame.id, 17, frame.data)
                      /\ gSend' = Polling
                      /\ gPc' = "send"
                 ELSE /\ gPc' = "reports"
                      /\ UNCHANGED <<gCan, gSend>>
  /\ UNCHANGED <<gCtl, gFrame, display, parsed, gFrom, gOut>>

AfterSend == gPc' = IF gSend' = NotSending THEN "reports" ELSE "send"

GatewayPoll ==
  /\ gPc = "send" /\ gSend.at = "poll"
  /\ gSend' = Poll(gCtl, gSend)
  /\ AfterSend
  /\ UNCHANGED <<chips, gFrame, display, notes>>

GatewayWrite ==
  /\ gPc = "send" /\ gSend.at = "write"
  /\ gCtl' = Write(gCtl, gSend, gCan)
  /\ gSend' = Written(gSend)
  /\ gFrom' = [gFrom EXCEPT ![gSend.buf] = Len(gSeen)]
  /\ UNCHANGED <<gObd, gCan, gObdCan, gPc, gFrame, display, parsed, gSeen, gOut>>

GatewayWait ==
  /\ gPc = "send" /\ gSend.at = "wait"
  /\ gSend' = Wait(gCtl, gSend)
  /\ AfterSend
  /\ UNCHANGED <<chips, gFrame, display, notes>>

GatewayMain ==
  \/ CheckForModuleReports
  \/ ParseEnabled \/ ParseError \/ ParseSensorDtc \/ ParseOverrideDtc
  \/ RepublishObdFrame \/ GatewayPoll \/ GatewayWrite \/ GatewayWait

--------------------------------------------------------------------------
(* The display interrupt; the cli around sendMsgBuf keeps it out. *)

All(s) == \A m \in Modules : status[m] = s

\* enableRedLed and its like: three bits of the shift register, of which
\* each call clears the others.
Lit(colour) == led' = colour

\* update_leds; elapsed says whether half a second, or a second, has passed
\* since lastToggle.
UpdateLeds(elapsed) ==
  IF \E m \in Modules : status[m] = "ERROR"
  THEN Lit("red") /\ UNCHANGED toggle
  ELSE IF All("DISABLED")
  THEN IF elapsed
       THEN /\ Lit(IF toggle = 1 THEN "yellow" ELSE "off")
            /\ toggle' = 1 - toggle
       ELSE UNCHANGED <<led, toggle>>
  ELSE /\ Lit(IF All("ENABLED") THEN "green" ELSE "red")
       /\ UNCHANGED toggle

\* display_status_screen and display_dtc_screen: a word for each module, or
\* a column of codes for each module in error, row under row.
StatusScreen == status

Line(m, d) == IF dtc[m][d] THEN <<d>> ELSE <<>>

DtcColumn(m) == Line(m, 0) \o Line(m, 1)

DtcScreen == [m \in Modules |-> IF status[m] = "ERROR" THEN DtcColumn(m) ELSE <<>>]

\* What update_display draws.
Picture == IF screen = "STATUS_SCREEN" THEN StatusScreen ELSE DtcScreen

ReadButton(pressed) ==
  /\ screen' = IF pressed /\ ~button
               THEN IF screen = "STATUS_SCREEN" THEN "DTC_SCREEN"
                                                ELSE "STATUS_SCREEN"
               ELSE screen
  /\ button' = pressed

UpdateDisplay ==
  /\ gPc # "send"
  /\ \E elapsed, pressed \in BOOLEAN :
       UpdateLeds(elapsed) /\ ReadButton(pressed)
  /\ UNCHANGED <<chips, gPc, gFrame, gSend, status, dtc, notes>>

--------------------------------------------------------------------------
(* The buses. *)

GatewayHears(f) ==
  /\ gCtl' = Receive(gCtl, f)
  /\ UNCHANGED <<gObd, gCan, gObdCan, gPc, gFrame, gSend, display, notes>>

GatewayHearsObd(f) ==
  /\ gObd' = Receive(gObd, f)
  /\ UNCHANGED <<gCtl, gCan, gObdCan, gPc, gFrame, gSend, display, notes>>

\* The control bus takes a frame from the chip.
GatewaySent(b) ==
  /\ gCtl' = Sent(gCtl, b)
  /\ gOut' = Append(gOut, [from |-> gFrom[b], frame |-> gCtl.tx[b].frame])
  /\ UNCHANGED <<gObd, gCan, gObdCan, gPc, gFrame, gSend, display, parsed,
                 gSeen, gFrom>>

\* The gateway among buses that carry anything.
GatewayNext ==
  \/ GatewayMain \/ UpdateDisplay
  \/ \E f \in Frame : GatewayHears(f) \/ GatewayHearsObd(f)
  \/ \E b \in NextToSend(gCtl) : GatewaySent(b)

GatewaySpec == GatewayInit /\ [][GatewayNext]_gatewayVars

--------------------------------------------------------------------------
(* Properties. *)

\* module_status_t for a report, and for its enabled byte alone.
Judged(r) == IF r = NoReport THEN "UNKNOWN"
             ELSE IF r.dtcs # 0 THEN "ERROR"
             ELSE IF r.enabled = 1 THEN "ENABLED" ELSE "DISABLED"

Parsing(m) == gFrame.module = m

Row(column, d) == \E i \in DOMAIN column : column[i] = d

\* Whenever the display interrupt comes, what it draws of a module is the
\* last report parsed or, field by field, the one being parsed: an error may
\* still be missing from the status, and its codes be those of the report
\* before, but nothing older is ever drawn, no code without an error and
\* none twice (communications.cpp:73, the fields are written one after the
\* other).
ScreenFollowsReports ==
  \A m \in Modules :
    IF screen = "STATUS_SCREEN"
    THEN Picture[m] \in {Judged(parsed[m])} \cup
           (IF Parsing(m)
            THEN {Judged(gFrame), Judged([gFrame EXCEPT !.dtcs = 0])} ELSE {})
    ELSE /\ \A d \in Dtcs :
              Row(Picture[m], d) \in
                {FALSE, DtcCheck(parsed[m].dtcs, d)} \cup
                (IF Parsing(m) THEN {DtcCheck(gFrame.dtcs, d)} ELSE {})
         /\ Picture[m] # <<>> =>
              "ERROR" \in {Judged(parsed[m])} \cup
                          (IF Parsing(m) THEN {Judged(gFrame)} ELSE {})
         /\ Len(Picture[m]) <= 2
         /\ ~Parsing(m) =>
              \A d \in Dtcs : Row(Picture[m], d) = DtcCheck(parsed[m].dtcs, d)

\* The green LED is lit only while every module's latest report, the one in
\* hand included, says enabled and names no DTC; only the DTCs of a report
\* whose enabled byte has just been stored can be missed (display.cpp:160).
\* Once lit it may outlive the control by a second, since update_leds does
\* nothing for modules that are all disabled until its next toggle is due.
GreenIsEarned ==
  [][led' = "green" /\ led # "green" =>
       \A m \in Modules :
         LET r == IF Parsing(m) /\ gPc # "enabled" THEN gFrame ELSE parsed[m]
         IN  r.enabled = 1 /\ (r.dtcs = 0 \/ (Parsing(m) /\ gPc = "error"))
    ]_gatewayVars

\* Every frame the gateway puts on the control bus is a frame of the vehicle
\* with one of the identifiers it forwards, its data whole and zero behind
\* its end, and none is forwarded twice, whatever time-outs, full buffers
\* and reports come in between (communications.cpp:54).
Republished(f) ==
  [id |-> f.id, ext |-> FALSE, len |-> DataMax,
   data |-> [i \in 1 .. DataMax |-> IF i <= f.len THEN f.data[i] ELSE 0]]

RepublishedFaithfully ==
  /\ \A i \in DOMAIN gOut :
       /\ gOut[i].from \in DOMAIN gSeen
       /\ gSeen[gOut[i].from].id \in ObdIds
       /\ gOut[i].frame = Republished(gSeen[gOut[i].from])
  /\ \A i, j \in DOMAIN gOut : gOut[i].from = gOut[j].from => i = j

\* The main loop comes round for ever, and resets the watchdog, although the
\* control bus may never take a frame: both loops of sendMsg give up
\* (mcp_can.cpp:800, main.cpp:32).
LoopComesRound == []<>(gPc = "reports")

GatewayTypeOK ==
  /\ gPc \in {"reports", "enabled", "error", "sensor", "override", "obd",
              "send"}
  /\ gFrame \in [module : Modules \cup {"none"}, enabled : Byte, dtcs : Byte]
  /\ gSend \in [at : {"off", "poll", "write", "wait"}, buf : 0 .. 2,
                polls : 0 .. TimeoutValue]
  /\ status \in [Modules -> {"UNKNOWN", "ENABLED", "DISABLED", "ERROR"}]
  /\ dtc \in [Modules -> [Dtcs -> BOOLEAN]]
  /\ screen \in {"STATUS_SCREEN", "DTC_SCREEN"} /\ button \in BOOLEAN
  /\ led \in {"off", "red", "yellow", "green"} /\ toggle \in 0 .. 1
  /\ gCan \in Slot /\ gObdCan \in Slot
  /\ gCtl \in Chip /\ gObd \in Chip
=============================================================================
