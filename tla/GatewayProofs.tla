---------------------------- MODULE GatewayProofs ----------------------------
(***************************************************************************)
(* What the gateway shows and forwards, for any set of modules, any frames *)
(* on either bus and a display interrupt at any point of the parsing.      *)
(*                                                                         *)
(* IInv ties each field of the display to a report.  GatewayInv adds what  *)
(* is on its way between the buses: SendingInv says what the driver holds  *)
(* at each step of sendMsg, BuffersInv what each transmit buffer holds and *)
(* that no frame of the vehicle is in two of them or already sent.         *)
(***************************************************************************)
EXTENDS Gateway, ModuleCanProofs

Parse == {"enabled", "error", "sensor", "override"}

\* A report is in hand exactly while it is being parsed.
HandInv ==
  /\ gPc \in Parse => gFrame.module \in Modules
  /\ gPc \notin Parse => gFrame = NoReport
  /\ gFrame = [module |-> gFrame.module, enabled |-> gFrame.enabled,
               dtcs |-> gFrame.dtcs]
  /\ parsed = [m \in Modules |-> parsed[m]]

\* The status of a module is that of its last report until the first two
\* fields of the next have been stored, one after the other.
StatusInv ==
  /\ status = [m \in Modules |-> status[m]]
  /\ \A m \in Modules :
       status[m] =
         IF ~Parsing(m) \/ gPc = "enabled" THEN Judged(parsed[m])
         ELSE IF gPc = "error" THEN Judged([gFrame EXCEPT !.dtcs = 0])
         ELSE Judged(gFrame)

\* Its DTCs are those of its last report until each has been stored.
DtcInv ==
  /\ dtc = [m \in Modules |-> [d \in Dtcs |-> dtc[m][d]]]
  /\ \A m \in Modules : \A d \in Dtcs :
       dtc[m][d] = DtcCheck(IF Parsing(m) /\ gPc = "override" /\ d = 0
                            THEN gFrame.dtcs ELSE parsed[m].dtcs, d)

IInv == HandInv /\ StatusInv /\ DtcInv

--------------------------------------------------------------------------

\* No report, no DTC.
LEMMA NoDtc == \A d \in Dtcs : DtcCheck(NoReport.dtcs, d) = FALSE
BY DEF DtcCheck, NoReport, Dtcs

\* A DTC is set or not.
LEMMA CheckBoolean == \A x, d : DtcCheck(x, d) \in BOOLEAN
BY ZenonT(10) DEF DtcCheck

\* Nothing is drawn before a report was parsed.
LEMMA InitIInv == GatewayInit => IInv
<1> SUFFICES ASSUME GatewayInit PROVE IInv
  OBVIOUS
<1>0. /\ gPc = "reports" /\ gFrame = NoReport
      /\ status = [m \in Modules |-> "UNKNOWN"]
      /\ dtc = [m \in Modules |-> [d \in Dtcs |-> FALSE]]
      /\ parsed = [m \in Modules |-> NoReport]
  BY DEF GatewayInit
<1>1. HandInv
  BY <1>0 DEF HandInv, Parse, NoReport
<1>2. StatusInv
  BY <1>0, GatewayAssumption DEF StatusInv, Judged, Parsing, NoReport
<1>3. DtcInv
  BY <1>0, NoDtc DEF DtcInv
<1> QED
  BY <1>1, <1>2, <1>3 DEF IInv

\* The steps that leave the report in hand and what is shown of the last one
\* as they are.
LEMMA Elsewhere ==
  ASSUME IInv, UNCHANGED <<status, dtc, gFrame, parsed>>,
         gPc \notin Parse, gPc' \notin Parse
  PROVE  IInv'
BY DEF IInv, HandInv, StatusInv, DtcInv, Judged, Parsing, Parse

\* What the four if statements store, field by field.
LEMMA ParseSteps ==
  ASSUME IInv, ParseEnabled \/ ParseError \/ ParseSensorDtc \/ ParseOverrideDtc
  PROVE  IInv'
<1>0. /\ "none" \notin Modules /\ 0 \in Dtcs /\ 1 \in Dtcs /\ 0 # 1
      /\ \A d \in Dtcs : d = 0 \/ d = 1
  BY GatewayAssumption DEF Dtcs
<1>1. CASE ParseEnabled
  <2>1. /\ gPc = "enabled" /\ gPc' = "error" /\ gFrame.module \in Modules
        /\ gFrame.module # "none"
        /\ UNCHANGED <<gFrame, dtc, parsed>>
        /\ status' = [status EXCEPT ![gFrame.module] =
                        IF gFrame.enabled = 1 THEN "ENABLED" ELSE "DISABLED"]
    BY <1>0, <1>1 DEF ParseEnabled, IInv, HandInv, Parse, notes
  <2>2. HandInv'
    BY <2>1 DEF IInv, HandInv, Parse
  <2>3. StatusInv'
    BY <2>1 DEF IInv, HandInv, StatusInv, Judged, Parsing, NoReport
  <2>4. DtcInv'
    BY <2>1 DEF IInv, DtcInv, Parsing
  <2> QED
    BY <2>2, <2>3, <2>4 DEF IInv
<1>2. CASE ParseError
  <2>1. /\ gPc = "error" /\ gPc' = "sensor" /\ gFrame.module \in Modules
        /\ gFrame.module # "none"
        /\ UNCHANGED <<gFrame, dtc, parsed>>
        /\ status' = IF gFrame.dtcs # 0
                     THEN [status EXCEPT ![gFrame.module] = "ERROR"]
                     ELSE status
    BY <1>0, <1>2 DEF ParseError, IInv, HandInv, Parse, notes
  <2>2. HandInv'
    BY <2>1 DEF IInv, HandInv, Parse
  <2>3. StatusInv'
    BY <2>1 DEF IInv, HandInv, StatusInv, Judged, Parsing, NoReport
  <2>4. DtcInv'
    BY <2>1 DEF IInv, DtcInv, Parsing
  <2> QED
    BY <2>2, <2>3, <2>4 DEF IInv
<1>3. CASE ParseSensorDtc
  <2>1. /\ gPc = "sensor" /\ gPc' = "override" /\ gFrame.module \in Modules
        /\ UNCHANGED <<gFrame, status, parsed>>
        /\ dtc' = [dtc EXCEPT ![gFrame.module][0] = DtcCheck(gFrame.dtcs, 0)]
    BY <1>3 DEF ParseSensorDtc, ParseDtc, IInv, HandInv, Parse, notes
  <2>2. HandInv'
    BY <2>1 DEF IInv, HandInv, Parse
  <2>3. StatusInv'
    BY <2>1 DEF IInv, StatusInv, Judged, Parsing
  <2>4. dtc' = [m \in Modules |-> [d \in Dtcs |-> dtc'[m][d]]]
    BY <1>0, <2>1 DEF IInv, DtcInv
  <2>5. ASSUME NEW m \in Modules, NEW d \in Dtcs
        PROVE  dtc'[m][d] = IF m = gFrame.module /\ d = 0
                            THEN DtcCheck(gFrame.dtcs, d) ELSE dtc[m][d]
    BY <1>0, <2>1, <2>5 DEF IInv, DtcInv
  <2>6. ASSUME NEW m \in Modules, NEW d \in Dtcs
        PROVE  dtc[m][d] = DtcCheck(parsed[m].dtcs, d)
    BY <2>1, <2>6 DEF IInv, DtcInv
  <2>7. DtcInv'
    BY <2>1, <2>4, <2>5, <2>6, Zenon DEF DtcInv, Parsing
  <2> QED
    BY <2>2, <2>3, <2>7 DEF IInv
<1>4. CASE ParseOverrideDtc
  <2>1. /\ gPc = "override" /\ gPc' = "obd" /\ gFrame.module \in Modules
        /\ gFrame' = NoReport /\ UNCHANGED status
        /\ parsed' = [parsed EXCEPT ![gFrame.module] = gFrame]
        /\ dtc' = [dtc EXCEPT ![gFrame.module][1] = DtcCheck(gFrame.dtcs, 1)]
    BY <1>4 DEF ParseOverrideDtc, ParseDtc, IInv, HandInv, Parse
  <2>2. HandInv'
    BY <2>1 DEF IInv, HandInv, Parse, NoReport
  <2>3. StatusInv'
    BY <1>0, <2>1 DEF IInv, HandInv, StatusInv, Judged, Parsing, NoReport
  <2>4. dtc' = [m \in Modules |-> [d \in Dtcs |-> dtc'[m][d]]]
    BY <1>0, <2>1 DEF IInv, DtcInv
  <2>5. ASSUME NEW m \in Modules, NEW d \in Dtcs
        PROVE  dtc'[m][d] = IF m = gFrame.module
                            THEN DtcCheck(gFrame.dtcs, d) ELSE dtc[m][d]
    <3>1. CASE d = 1
      BY <1>0, <2>1, <3>1 DEF IInv, DtcInv
    <3>2. CASE d = 0
      <4>1. dtc'[m][d] = dtc[m][d]
        BY <1>0, <2>1, <3>2 DEF IInv, DtcInv
      <4>2. m = gFrame.module => dtc[m][d] = DtcCheck(gFrame.dtcs, d)
        BY <2>1, <3>2, Zenon DEF IInv, DtcInv, Parsing
      <4> QED
        BY <4>1, <4>2
    <3> QED
      BY <1>0, <3>1, <3>2
  <2>6. ASSUME NEW m \in Modules, NEW d \in Dtcs, m # gFrame.module
        PROVE  dtc[m][d] = DtcCheck(parsed[m].dtcs, d)
    BY <2>6, Zenon DEF IInv, DtcInv, Parsing
  <2>7. \A m \in Modules :
          parsed'[m] = IF m = gFrame.module THEN gFrame ELSE parsed[m]
    BY <2>1 DEF IInv, HandInv
  <2>8. \A m \in Modules : ~Parsing(m)'
    BY <1>0, <2>1 DEF Parsing, NoReport
  <2>9. ASSUME NEW m \in Modules, NEW d \in Dtcs
        PROVE  dtc'[m][d] = DtcCheck(parsed'[m].dtcs, d)
    <3>1. CASE m = gFrame.module
      BY <2>5, <2>7, <3>1, Zenon
    <3>2. CASE m # gFrame.module
      <4>1. dtc'[m][d] = dtc[m][d]
        BY <2>5, <3>2, Zenon
      <4>2. parsed'[m] = parsed[m]
        BY <2>7, <3>2, Zenon
      <4>3. dtc[m][d] = DtcCheck(parsed[m].dtcs, d)
        BY <2>6, <3>2, Zenon
      <4> QED
        BY <4>1, <4>2, <4>3, Zenon
    <3> QED
      BY <3>1, <3>2
  <2>10. DtcInv'
    BY <2>4, <2>8, <2>9, Zenon DEF DtcInv
  <2> QED
    BY <2>2, <2>3, <2>10 DEF IInv
<1> QED
  BY <1>1, <1>2, <1>3, <1>4

\* A report that has just been read is in hand; nothing of it is shown yet.
LEMMA ReportStep ==
  ASSUME IInv, CheckForModuleReports
  PROVE  IInv'
<1>0. gPc = "reports" /\ UNCHANGED <<status, dtc, parsed>>
  BY DEF CheckForModuleReports, display, notes
<1>1. CASE gPc' = "obd" /\ UNCHANGED gFrame
  BY <1>0, <1>1, Elsewhere DEF Parse
<1>2. CASE \E m, frame : m \in Modules /\
             gFrame' = Report(m, frame) /\ gPc' = "enabled"
  <2>1. PICK m, frame : m \in Modules /\
          gFrame' = Report(m, frame) /\ gPc' = "enabled"
    BY <1>2
  <2>2. HandInv'
    BY <1>0, <2>1 DEF IInv, HandInv, Parse, Report
  <2>3. gFrame = NoReport
    BY <1>0 DEF IInv, HandInv, Parse
  <2>4. StatusInv'
    BY <1>0, <2>1, <2>3, GatewayAssumption
    DEF IInv, StatusInv, Judged, Parsing, NoReport
  <2>5. DtcInv'
    BY <1>0, <2>1 DEF IInv, DtcInv
  <2> QED
    BY <2>2, <2>4, <2>5 DEF IInv
<1> QED
  BY <1>1, <1>2 DEF CheckForModuleReports

\* Every step of the loop, of the display and of the buses keeps it.
LEMMA NextIInv == IInv /\ [GatewayNext]_gatewayVars => IInv'
<1> SUFFICES ASSUME IInv, [GatewayNext]_gatewayVars PROVE IInv'
  OBVIOUS
<1>1. CASE CheckForModuleReports
  BY <1>1, ReportStep
<1>2. CASE ParseEnabled \/ ParseError \/ ParseSensorDtc \/ ParseOverrideDtc
  BY <1>2, ParseSteps
<1>3. CASE RepublishObdFrame \/ GatewayPoll \/ GatewayWrite \/ GatewayWait
  BY <1>3, Elsewhere
  DEF RepublishObdFrame, GatewayPoll, GatewayWrite, GatewayWait, AfterSend,
      Parse, display, notes
<1>4. CASE UNCHANGED <<status, dtc, gFrame, parsed, gPc>>
  BY <1>4 DEF IInv, HandInv, StatusInv, DtcInv, Judged, Parsing
<1>5. UpdateDisplay => UNCHANGED <<status, dtc, gFrame, parsed, gPc>>
  BY DEF UpdateDisplay, notes
<1>6. \A f : GatewayHears(f) \/ GatewayHearsObd(f)
               => UNCHANGED <<status, dtc, gFrame, parsed, gPc>>
  BY DEF GatewayHears, GatewayHearsObd, display, notes
<1>7. \A b : GatewaySent(b) => UNCHANGED <<status, dtc, gFrame, parsed, gPc>>
  BY DEF GatewaySent, display
<1>8. UNCHANGED gatewayVars => UNCHANGED <<status, dtc, gFrame, parsed, gPc>>
  BY DEF gatewayVars
<1> QED
  BY <1>1, <1>2, <1>3, <1>4, <1>5, <1>6, <1>7, <1>8 DEF GatewayNext, GatewayMain

--------------------------------------------------------------------------
(* The results. *)

\* The display state belongs, field by field, to the last report or to the one in
\* hand.
LEMMA Invariance == GatewaySpec => []IInv
BY InitIInv, NextIInv, PTL DEF GatewaySpec

\* The columns there can be, and their rows.
LEMMA Columns ==
  /\ <<0>> \o <<1>> = <<0, 1>> /\ <<0>> \o << >> = <<0>>
  /\ << >> \o <<1>> = <<1>> /\ << >> \o << >> = << >>
<1>1. <<0>> \o <<1>> = <<0, 1>>
  <2> DEFINE s == <<0>> \o <<1>>
  <2>1. /\ <<0>> \in Seq(Nat) /\ Len(<<0>>) = 1 /\ <<0>>[1] = 0
        /\ <<1>> \in Seq(Nat) /\ Len(<<1>>) = 1 /\ <<1>>[1] = 1
    OBVIOUS
  <2>2. s \in Seq(Nat) /\ Len(s) = 2 /\ s[1] = 0 /\ s[2] = 1
    BY <2>1, ConcatProperties
  <2> HIDE DEF s
  <2>3. s = <<0, 1>>
    BY <2>2
  <2> QED
    BY <2>3 DEF s
<1>2. \A s \in Seq(Nat) : s \o << >> = s /\ << >> \o s = s
  BY ConcatEmptySeq
<1>3. <<0>> \in Seq(Nat) /\ <<1>> \in Seq(Nat) /\ << >> \in Seq(Nat)
  OBVIOUS
<1> QED
  BY <1>1, <1>2, <1>3

\* Which codes the four columns contain.
LEMMA Rows ==
  /\ Row(<<0, 1>>, 0) /\ Row(<<0, 1>>, 1) /\ Len(<<0, 1>>) <= 2
  /\ Row(<<0>>, 0) /\ ~Row(<<0>>, 1) /\ Len(<<0>>) <= 2
  /\ ~Row(<<1>>, 0) /\ Row(<<1>>, 1) /\ Len(<<1>>) <= 2
  /\ ~Row(<< >>, 0) /\ ~Row(<< >>, 1) /\ Len(<< >>) <= 2
BY DEF Row

\* The rows of a column are the DTCs that are set, each once.
LEMMA ColumnRows ==
  ASSUME DtcInv, NEW m \in Modules
  PROVE  /\ Row(DtcColumn(m), 0) <=> dtc[m][0]
         /\ Row(DtcColumn(m), 1) <=> dtc[m][1]
         /\ Len(DtcColumn(m)) <= 2
<1>1. CASE dtc[m][0] /\ dtc[m][1]
  BY <1>1, Columns, Rows, Zenon DEF DtcColumn, Line
<1>2. CASE dtc[m][0] /\ ~dtc[m][1]
  BY <1>2, Columns, Rows, Zenon DEF DtcColumn, Line
<1>3. CASE ~dtc[m][0] /\ dtc[m][1]
  BY <1>3, Columns, Rows, Zenon DEF DtcColumn, Line
<1>4. CASE ~dtc[m][0] /\ ~dtc[m][1]
  BY <1>4, Columns, Rows, Zenon DEF DtcColumn, Line
<1> QED
  BY <1>1, <1>2, <1>3, <1>4

\* A status that is ERROR or ENABLED has its reason in a report.
LEMMA StatusMeans ==
  ASSUME IInv, NEW m \in Modules
  PROVE  /\ status[m] \in {Judged(parsed[m])} \cup
              (IF Parsing(m)
               THEN {Judged(gFrame), Judged([gFrame EXCEPT !.dtcs = 0])}
               ELSE {})
         /\ status[m] = "ERROR" =>
              "ERROR" \in {Judged(parsed[m])} \cup
                          (IF Parsing(m) THEN {Judged(gFrame)} ELSE {})
         /\ status[m] = "ENABLED" =>
              LET r == IF Parsing(m) /\ gPc # "enabled" THEN gFrame ELSE parsed[m]
              IN  r.enabled = 1 /\ (r.dtcs = 0 \/ (Parsing(m) /\ gPc = "error"))
<1>1. CASE ~Parsing(m) \/ gPc = "enabled"
  BY <1>1 DEF IInv, StatusInv, Judged
<1>2. CASE Parsing(m) /\ gPc = "error"
  BY <1>2 DEF IInv, HandInv, StatusInv, Judged
<1>3. CASE Parsing(m) /\ gPc \notin {"enabled", "error"}
  BY <1>3 DEF IInv, StatusInv, Judged
<1> QED
  BY <1>1, <1>2, <1>3

\* Every row of a module's column is a code of its last report or of the one
\* being parsed.
LEMMA DtcMeans ==
  ASSUME IInv, NEW m \in Modules, NEW d \in Dtcs
  PROVE  /\ Row(DtcColumn(m), d) = dtc[m][d]
         /\ dtc[m][d] \in {FALSE, DtcCheck(parsed[m].dtcs, d)} \cup
              (IF Parsing(m) THEN {DtcCheck(gFrame.dtcs, d)} ELSE {})
         /\ ~Parsing(m) => dtc[m][d] = DtcCheck(parsed[m].dtcs, d)
<1>1. d = 0 \/ d = 1
  BY DEF Dtcs
<1>2. dtc[m][d] \in BOOLEAN
  BY CheckBoolean, Zenon DEF IInv, DtcInv
<1>3. Row(DtcColumn(m), d) <=> dtc[m][d]
  BY <1>1, ColumnRows DEF IInv
<1>4. Row(DtcColumn(m), d) = dtc[m][d]
  BY <1>2, <1>3, Zenon DEF Row
<1>5. CASE Parsing(m) /\ gPc = "override" /\ d = 0
  BY <1>4, <1>5, Zenon DEF IInv, DtcInv
<1>6. CASE ~(Parsing(m) /\ gPc = "override" /\ d = 0)
  BY <1>4, <1>6, Zenon DEF IInv, DtcInv
<1> QED
  BY <1>5, <1>6

\* No row without a code.
LEMMA NoRow == \A d : Row(<< >>, d) = FALSE
BY DEF Row

\* At any point of the parsing the display interrupt draws of each module its
\* last report, or field by field the one being parsed, and nothing older.
THEOREM ScreenIsTrue == GatewaySpec => []ScreenFollowsReports
<1>1. IInv => ScreenFollowsReports
  <2> SUFFICES ASSUME IInv PROVE ScreenFollowsReports
    OBVIOUS
  <2>1. CASE screen = "STATUS_SCREEN"
    BY <2>1, StatusMeans, Zenon DEF ScreenFollowsReports, Picture, StatusScreen
  <2>2. CASE screen # "STATUS_SCREEN"
    <3>1. ASSUME NEW m \in Modules, status[m] = "ERROR"
          PROVE  Picture[m] = DtcColumn(m)
      BY <2>2, <3>1, Zenon DEF Picture, DtcScreen
    <3>2. ASSUME NEW m \in Modules, status[m] # "ERROR"
          PROVE  Picture[m] = << >>
      BY <2>2, <3>2, Zenon DEF Picture, DtcScreen
    <3>3. ASSUME NEW m \in Modules, status[m] # "ERROR", ~Parsing(m)
          PROVE  \A d \in Dtcs : DtcCheck(parsed[m].dtcs, d) = FALSE
      <4>1. Judged(parsed[m]) # "ERROR"
        BY <3>3 DEF IInv, StatusInv
      <4>2. parsed[m].dtcs = NoReport.dtcs
        BY <4>1 DEF Judged, NoReport
      <4> QED
        BY <4>2, NoDtc, Zenon
    <3>4. ASSUME NEW m \in Modules
          PROVE  /\ \A d \in Dtcs :
                      Row(Picture[m], d) \in
                        {FALSE, DtcCheck(parsed[m].dtcs, d)} \cup
                        (IF Parsing(m) THEN {DtcCheck(gFrame.dtcs, d)} ELSE {})
                 /\ Picture[m] # << >> =>
                      "ERROR" \in {Judged(parsed[m])} \cup
                                  (IF Parsing(m) THEN {Judged(gFrame)} ELSE {})
                 /\ Len(Picture[m]) <= 2
                 /\ ~Parsing(m) =>
                      \A d \in Dtcs :
                        Row(Picture[m], d) = DtcCheck(parsed[m].dtcs, d)
      <4>1. CASE status[m] = "ERROR"
        <5>1. Picture[m] = DtcColumn(m)
          BY <3>1, <4>1
        <5>2. Len(DtcColumn(m)) <= 2
          BY ColumnRows DEF IInv
        <5> QED
          BY <4>1, <5>1, <5>2, DtcMeans, StatusMeans, Zenon
      <4>2. CASE status[m] # "ERROR"
        <5>1. Picture[m] = << >> /\ Len(<< >>) <= 2
          BY <3>2, <4>2
        <5> QED
          BY <3>3, <4>2, <5>1, NoRow, Zenon
      <4> QED
        BY <4>1, <4>2
    <3> QED
      BY <2>2, <3>4, Zenon DEF ScreenFollowsReports
  <2> QED
    BY <2>1, <2>2
<1> QED
  BY <1>1, Invariance, PTL

\* The green LED is lit only for reports that say enabled, and name no DTC
\* but one whose status has not been stored yet.
THEOREM GreenIsTrue == GatewaySpec => GreenIsEarned
<1>1. ASSUME IInv, [GatewayNext]_gatewayVars, led' = "green", led # "green",
             NEW m \in Modules
      PROVE  status[m] = "ENABLED"
  <2>1. UpdateDisplay
    BY <1>1 DEF GatewayNext, GatewayMain, CheckForModuleReports, ParseEnabled,
      ParseError, ParseSensorDtc, ParseOverrideDtc, RepublishObdFrame,
      GatewayPoll, GatewayWrite, GatewayWait, GatewayHears, GatewayHearsObd,
      GatewaySent, display, gatewayVars
  <2> QED
    BY <1>1, <2>1 DEF UpdateDisplay, UpdateLeds, Lit, All
<1>2. IInv /\ [GatewayNext]_gatewayVars =>
        [led' = "green" /\ led # "green" =>
           \A m \in Modules :
             LET r == IF Parsing(m) /\ gPc # "enabled" THEN gFrame ELSE parsed[m]
             IN  r.enabled = 1 /\ (r.dtcs = 0 \/ (Parsing(m) /\ gPc = "error"))
        ]_gatewayVars
  BY <1>1, StatusMeans, Zenon
<1> QED
  BY <1>2, Invariance, PTL DEF GatewaySpec, GreenIsEarned

--------------------------------------------------------------------------
(* Types, and the frames of the vehicle. *)

\* sendMsg is going on exactly while the main loop waits for it, and the
\* fields of g_control_can hold the last frame taken from the OBD bus.
SendingInv ==
  /\ gPc = "send" <=> gSend # NotSending
  /\ gSend = NotSending \/ gSend.at \in {"poll", "write", "wait"}
  /\ gSend.polls < TimeoutValue
  /\ gSend.at = "write" => ~gCtl.tx[gSend.buf].req
  /\ gPc = "send" =>
       /\ Len(gSeen) \in DOMAIN gSeen
       /\ gSeen[Len(gSeen)].id \in ObdIds
       /\ gCan = Republished(gSeen[Len(gSeen)])

Requested(b) == gCtl.tx[b].req

\* Frame n has been put into a transmit buffer.
Forwarded(n) ==
  \/ \E b \in 0 .. 2 : Requested(b) /\ gFrom[b] = n
  \/ \E i \in DOMAIN gOut : gOut[i].from = n

\* A pending transmit buffer holds one frame of the vehicle, which is in no
\* other and has not been sent; the frame in hand is in none until it is
\* written.
BuffersInv ==
  /\ gSeen \in Seq(Frame)
  /\ gOut \in Seq([from : Nat, frame : Slot])
  /\ gFrom \in [0 .. 2 -> Nat]
  /\ \A b \in 0 .. 2 : Requested(b) =>
       /\ gFrom[b] \in DOMAIN gSeen
       /\ gSeen[gFrom[b]].id \in ObdIds
       /\ gCtl.tx[b].frame = Republished(gSeen[gFrom[b]])
       /\ \A i \in DOMAIN gOut : gOut[i].from # gFrom[b]
  /\ \A a, b \in 0 .. 2 :
       Requested(a) /\ Requested(b) /\ gFrom[a] = gFrom[b] => a = b
  /\ gSend.at \in {"poll", "write"} => ~Forwarded(Len(gSeen))

\* The two halves of the type invariant.
DisplayTypes ==
  /\ status \in [Modules -> {"UNKNOWN", "ENABLED", "DISABLED", "ERROR"}]
  /\ dtc \in [Modules -> [Dtcs -> BOOLEAN]]
  /\ screen \in {"STATUS_SCREEN", "DTC_SCREEN"} /\ button \in BOOLEAN
  /\ led \in {"off", "red", "yellow", "green"} /\ toggle \in 0 .. 1

LoopTypes ==
  /\ gPc \in {"reports", "enabled", "error", "sensor", "override", "obd",
              "send"}
  /\ gFrame \in [module : Modules \cup {"none"}, enabled : Byte, dtcs : Byte]
  /\ gSend \in SendType
  /\ gCan \in Slot /\ gObdCan \in Slot
  /\ gCtl \in Chip /\ gObd \in Chip

GatewayInv ==
  /\ IInv /\ DisplayTypes /\ LoopTypes
  /\ SendingInv /\ BuffersInv /\ RepublishedFaithfully

\* The type invariant is part of the inductive one.
LEMMA TypesInv ==
  ASSUME GatewayInv
  PROVE  GatewayTypeOK
BY DEF GatewayInv, GatewayTypeOK, DisplayTypes, LoopTypes, SendType

\* A step that changes nothing of the way from the OBD bus to the control bus.
LEMMA SameWay ==
  ASSUME SendingInv, BuffersInv, RepublishedFaithfully,
         UNCHANGED <<gSeen, gFrom, gOut, gSend, gCan>>,
         gCtl'.tx = gCtl.tx, gPc = "send" <=> gPc' = "send"
  PROVE  SendingInv' /\ BuffersInv' /\ RepublishedFaithfully'
<1>1. SendingInv'
  BY DEF SendingInv, Republished
<1>2. BuffersInv'
  <2>1. \A n : Republished(n)' = Republished(n)
    BY DEF Republished
  <2>2. \A b : Requested(b)' = Requested(b)
    BY DEF Requested
  <2> QED
    BY <2>1, <2>2 DEF BuffersInv, Forwarded, Requested
<1>3. RepublishedFaithfully'
  BY DEF RepublishedFaithfully
<1> QED
  BY <1>1, <1>2, <1>3

\* The steps of the display and of the parsing store values of their types.
LEMMA DisplayStep ==
  ASSUME GatewayInv, [GatewayNext]_gatewayVars
  PROVE  DisplayTypes'
<1>1. CASE ParseEnabled \/ ParseError
  <2>1. status' \in [Modules -> {"UNKNOWN", "ENABLED", "DISABLED", "ERROR"}]
    BY <1>1 DEF ParseEnabled, ParseError, GatewayInv, DisplayTypes
  <2>2. UNCHANGED <<dtc, screen, button, toggle, led>>
    BY <1>1 DEF ParseEnabled, ParseError
  <2> QED
    BY <2>1, <2>2 DEF GatewayInv, DisplayTypes
<1>2. CASE ParseSensorDtc \/ ParseOverrideDtc
  <2>1. PICK d \in Dtcs : ParseDtc(d)
    BY <1>2 DEF ParseSensorDtc, ParseOverrideDtc, Dtcs
  <2>2. DtcCheck(gFrame.dtcs, d) \in BOOLEAN
    BY CheckBoolean
  <2>3. dtc' \in [Modules -> [Dtcs -> BOOLEAN]]
    <3> DEFINE x == DtcCheck(gFrame.dtcs, d)
    <3>1. dtc' = [dtc EXCEPT ![gFrame.module][d] = x]
      BY <2>1 DEF ParseDtc
    <3>2. x \in BOOLEAN
      BY <2>2
    <3> HIDE DEF x
    <3> QED
      BY <3>1, <3>2 DEF GatewayInv, DisplayTypes
  <2>4. UNCHANGED <<status, screen, button, toggle, led>>
    BY <1>2 DEF ParseSensorDtc, ParseOverrideDtc
  <2> QED
    BY <2>3, <2>4 DEF GatewayInv, DisplayTypes
<1>3. CASE UpdateDisplay
  <2>1. UNCHANGED <<status, dtc>>
    BY <1>3 DEF UpdateDisplay
  <2>2. led' \in {"off", "red", "yellow", "green"} /\ toggle' \in 0 .. 1
    BY <1>3 DEF UpdateDisplay, UpdateLeds, Lit, GatewayInv, DisplayTypes
  <2>3. screen' \in {"STATUS_SCREEN", "DTC_SCREEN"}
    BY <1>3 DEF UpdateDisplay, ReadButton, GatewayInv, DisplayTypes
  <2>4. button' \in BOOLEAN
    BY <1>3, Zenon DEF UpdateDisplay, ReadButton
  <2> QED
    BY <2>1, <2>2, <2>3, <2>4 DEF GatewayInv, DisplayTypes
<1>4. CASE UNCHANGED display
  BY <1>4 DEF GatewayInv, DisplayTypes, display
<1>5. CheckForModuleReports \/ RepublishObdFrame \/ GatewayPoll \/ GatewayWrite
        \/ GatewayWait => UNCHANGED display
  BY Zenon DEF CheckForModuleReports, RepublishObdFrame, GatewayPoll, GatewayWrite,
     GatewayWait
<1>6. \A f : GatewayHears(f) \/ GatewayHearsObd(f) => UNCHANGED display
  BY Zenon DEF GatewayHears, GatewayHearsObd
<1>7. \A b : GatewaySent(b) => UNCHANGED display
  BY Zenon DEF GatewaySent
<1>8. UNCHANGED gatewayVars => UNCHANGED display
  BY DEF gatewayVars, display
<1> QED
  BY <1>1, <1>2, <1>3, <1>4, <1>5, <1>6, <1>7, <1>8 DEF GatewayNext, GatewayMain

\* The frame a full buffer holds.
LEMMA PendingFrame ==
  ASSUME NEW c \in Chip, NEW b \in Pending(c)
  PROVE  b \in 0 .. 1 /\ c.rx[b] \in Frame
BY DEF Pending, Chip, Slot

\* Reading a report uses the fields of g_control_can, but no send is in progress.
LEMMA ReportsStep ==
  ASSUME GatewayInv, CheckForModuleReports
  PROVE  LoopTypes' /\ SendingInv' /\ BuffersInv' /\ RepublishedFaithfully'
<1>0. /\ gPc = "reports" /\ UNCHANGED <<gObd, gObdCan, gSend>> /\ UNCHANGED notes
  BY DEF CheckForModuleReports
<1>1. CASE /\ gPc' = "obd" /\ UNCHANGED <<gCtl, gCan, gFrame>>
  <2>1. LoopTypes'
    BY <1>0, <1>1 DEF GatewayInv, LoopTypes
  <2>2. SendingInv' /\ BuffersInv' /\ RepublishedFaithfully'
    BY <1>0, <1>1, SameWay DEF GatewayInv, notes
  <2> QED
    BY <2>1, <2>2
<1>2. ASSUME NEW b \in Pending(gCtl),
             gCan' = ReadAll(gCtl, b, gCan), gCtl' = Release(gCtl, b),
             \/ gPc' = "obd" /\ UNCHANGED gFrame
             \/ \E m \in Modules : gFrame' = Report(m, Copy(gCan')) /\ gPc' = "enabled"
      PROVE  LoopTypes' /\ SendingInv' /\ BuffersInv' /\ RepublishedFaithfully'
  <2>1. gCtl \in Chip /\ gCan \in Slot /\ gSend = NotSending
    BY <1>0 DEF GatewayInv, LoopTypes, SendingInv
  <2>2. b \in 0 .. 1 /\ gCtl.rx[b] \in Frame
    BY <1>2, <2>1, PendingFrame
  <2> DEFINE f == gCtl.rx[b]
             data == [i \in 1 .. DataMax |-> IF i <= f.len THEN f.data[i] ELSE 0]
  <2>3. gCan' \in Frame /\ Copy(gCan') = [id |-> f.id, dlc |-> f.len, data |-> data]
    BY <1>2, <2>1, <2>2, ReadAllType
  <2>4. data \in Data
    BY <2>2, PaddedData
  <2> HIDE DEF f, data
  <2>5. Copy(gCan').data[1] \in Byte /\ Copy(gCan').data[3] \in Byte
    BY <2>3, <2>4, GatewayAssumption, ControllerAssumption DEF Data
  <2>6. gFrame' \in [module : Modules \cup {"none"}, enabled : Byte, dtcs : Byte]
    BY <1>2, <2>5 DEF Report, GatewayInv, LoopTypes
  <2>7. gCtl' \in Chip /\ gCtl'.tx = gCtl.tx
    BY <1>2, <2>1, <2>2, ReleaseType
  <2>8. LoopTypes'
    BY <1>0, <1>2, <2>3, <2>6, <2>7, InFrame DEF GatewayInv, LoopTypes
  <2>9. SendingInv'
    BY <1>0, <1>2, <2>1, NotSendingType DEF GatewayInv, SendingInv
  <2>10. BuffersInv'
    <3>1. \A n : Republished(n)' = Republished(n)
      BY DEF Republished
    <3>2. \A a : Requested(a)' = Requested(a)
      BY <2>7 DEF Requested
    <3> QED
      BY <1>0, <2>1, <2>7, <3>1, <3>2, NotSendingType
      DEF GatewayInv, BuffersInv, notes
  <2>11. RepublishedFaithfully'
    BY <1>0 DEF GatewayInv, RepublishedFaithfully, notes
  <2> QED
    BY <2>8, <2>9, <2>10, <2>11
<1> QED
  BY <1>1, <1>2 DEF CheckForModuleReports

\* Parsing uses neither chip.
LEMMA ParsingStep ==
  ASSUME GatewayInv, ParseEnabled \/ ParseError \/ ParseSensorDtc \/ ParseOverrideDtc
  PROVE  LoopTypes' /\ SendingInv' /\ BuffersInv' /\ RepublishedFaithfully'
<1>1. /\ gPc \in Parse /\ gPc # "send" /\ gPc' # "send"
      /\ gPc' \in {"error", "sensor", "override", "obd"}
      /\ UNCHANGED <<gCtl, gObd, gCan, gObdCan, gSend, gSeen, gFrom, gOut>>
      /\ gFrame' = gFrame \/ gFrame' = NoReport
  BY DEF ParseEnabled, ParseError, ParseSensorDtc, ParseOverrideDtc, chips, notes,
     Parse
<1>2. NoReport \in [module : Modules \cup {"none"}, enabled : Byte, dtcs : Byte]
  BY DEF NoReport, Byte
<1>3. LoopTypes'
  BY <1>1, <1>2 DEF GatewayInv, LoopTypes
<1>4. SendingInv' /\ BuffersInv' /\ RepublishedFaithfully'
  BY <1>1, SameWay DEF GatewayInv
<1> QED
  BY <1>3, <1>4

\* A frame of the vehicle is taken, and is the one in hand if it is forwarded.
LEMMA ObdStep ==
  ASSUME GatewayInv, RepublishObdFrame
  PROVE  LoopTypes' /\ SendingInv' /\ BuffersInv' /\ RepublishedFaithfully'
<1>0. /\ gPc = "obd" /\ UNCHANGED <<gCtl, gFrame, gFrom, gOut>>
  BY DEF RepublishObdFrame
<1>1. CASE gPc' = "reports" /\ UNCHANGED <<gObd, gObdCan, gCan, gSend, gSeen>>
  <2>1. LoopTypes'
    BY <1>0, <1>1 DEF GatewayInv, LoopTypes
  <2>2. SendingInv' /\ BuffersInv' /\ RepublishedFaithfully'
    BY <1>0, <1>1, SameWay DEF GatewayInv
  <2> QED
    BY <2>1, <2>2
<1>2. ASSUME NEW b \in Pending(gObd),
             gObdCan' = ReadAll(gObd, b, gObdCan), gObd' = Release(gObd, b),
             gSeen' = Append(gSeen, gObd.rx[b]),
             \/ /\ Copy(gObdCan').id \in ObdIds
                /\ gCan' = SetMsg(gCan, Copy(gObdCan').id, 17, Copy(gObdCan').data)
                /\ gSend' = Polling /\ gPc' = "send"
             \/ gPc' = "reports" /\ UNCHANGED <<gCan, gSend>>
      PROVE  LoopTypes' /\ SendingInv' /\ BuffersInv' /\ RepublishedFaithfully'
  <2>1. gObd \in Chip /\ gObdCan \in Slot /\ gSend = NotSending
    BY <1>0 DEF GatewayInv, LoopTypes, SendingInv
  <2>2. b \in 0 .. 1 /\ gObd.rx[b] \in Frame
    BY <1>2, <2>1, PendingFrame
  <2> DEFINE f == gObd.rx[b]
             data == [i \in 1 .. DataMax |-> IF i <= f.len THEN f.data[i] ELSE 0]
  <2>3. gObdCan' \in Frame /\ Copy(gObdCan') = [id |-> f.id, dlc |-> f.len, data |-> data]
    BY <1>2, <2>1, <2>2, ReadAllType
  <2>4. data \in Data
    BY <2>2, PaddedData
  <2>5. Republished(f) = [id |-> f.id, ext |-> FALSE, len |-> DataMax, data |-> data]
    BY DEF Republished
  <2>6. f \in Frame /\ gSeen' = Append(gSeen, f)
    BY <1>2, <2>2
  <2> HIDE DEF f, data
  <2>7. Copy(gObdCan').id = f.id /\ Copy(gObdCan').data = data
    BY <2>3
  <2>8. f.id \in ObdIds =>
          /\ SetMsg(gCan, f.id, 17, data) = Republished(f)
          /\ SetMsg(gCan, f.id, 17, data) \in Frame
    <3>1. 17 \in Nat /\ 17 >= DataMax
      BY ControllerAssumption
    <3>2. ASSUME f.id \in ObdIds PROVE f.id \in CanId(FALSE)
      BY <3>2, GatewayAssumption, Zenon
    <3> QED
      BY <2>4, <2>5, <3>1, <3>2, SetMsgType
  <2>9. \/ /\ f.id \in ObdIds /\ gCan' = Republished(f) /\ gCan' \in Frame
           /\ gSend' = Polling /\ gPc' = "send"
        \/ gPc' = "reports" /\ gCan' = gCan /\ gSend' = NotSending
    BY <1>2, <2>1, <2>7, <2>8
  <2>10. gObd' \in Chip
    BY <1>2, <2>1, <2>2, ReleaseType
  <2>11. /\ gSeen \in Seq(Frame) /\ gSeen' \in Seq(Frame)
         /\ Len(gSeen) \in Nat /\ Len(gSeen') = Len(gSeen) + 1
         /\ DOMAIN gSeen = 1 .. Len(gSeen) /\ DOMAIN gSeen' = 1 .. Len(gSeen')
         /\ gSeen'[Len(gSeen')] = f
         /\ \A i \in DOMAIN gSeen : i \in DOMAIN gSeen' /\ gSeen'[i] = gSeen[i]
         /\ Len(gSeen') \in DOMAIN gSeen' /\ Len(gSeen') \notin DOMAIN gSeen
    BY <2>6 DEF GatewayInv, BuffersInv
  <2>12. LoopTypes'
    <3>1. gCan' \in Slot /\ gObdCan' \in Slot
      BY <2>3, <2>9, InFrame DEF GatewayInv, LoopTypes
    <3>2. gSend' \in SendType /\ gPc' \in {"send", "reports"}
      BY <2>9, PollingType, NotSendingType
    <3> QED
      BY <1>0, <2>10, <3>1, <3>2 DEF GatewayInv, LoopTypes
  <2>13. SendingInv'
    <3>1. CASE gSend' = Polling
      <4>1. gCan' = Republished(f) /\ f.id \in ObdIds /\ gPc' = "send"
        BY <2>9, <3>1, PollingType
      <4>2. Republished(gSeen[Len(gSeen)])' = Republished(f)
        BY <2>11 DEF Republished
      <4> QED
        BY <2>11, <3>1, <4>1, <4>2, PollingType DEF SendingInv
    <3>2. CASE gSend' # Polling
      <4>1. gSend' = NotSending /\ gPc' = "reports"
        BY <2>9, <3>2
      <4> QED
        BY <4>1, NotSendingType DEF SendingInv
    <3> QED
      BY <3>1, <3>2
  <2>14. BuffersInv'
    <3>1. \A a : Requested(a)' = Requested(a)
      BY <1>0 DEF Requested
    <3>2. \A n \in DOMAIN gSeen : Republished(gSeen'[n]) = Republished(gSeen[n])
      BY <2>11
    <3>3. \A a \in 0 .. 2 : Requested(a) => gFrom[a] \in DOMAIN gSeen
      BY DEF GatewayInv, BuffersInv
    <3>4. \A i \in DOMAIN gOut : gOut[i].from \in DOMAIN gSeen
      BY DEF GatewayInv, RepublishedFaithfully
    <3>5. ~Forwarded(Len(gSeen))'
      BY <1>0, <2>11, <3>1, <3>3, <3>4 DEF Forwarded
    <3>6. \A a \in 0 .. 2 : Requested(a) =>
             /\ gFrom[a] \in DOMAIN gSeen' /\ gSeen'[gFrom[a]].id \in ObdIds
             /\ gCtl.tx[a].frame = Republished(gSeen'[gFrom[a]])
             /\ \A i \in DOMAIN gOut : gOut[i].from # gFrom[a]
      BY <2>11, <3>2, <3>3 DEF GatewayInv, BuffersInv
    <3>7. \A a : Republished(gSeen[gFrom[a]])' = Republished(gSeen'[gFrom[a]])
      BY <1>0 DEF Republished
    <3> QED
      BY <1>0, <2>11, <3>1, <3>5, <3>6, <3>7 DEF GatewayInv, BuffersInv
  <2>15. RepublishedFaithfully'
    <3>1. \A i \in DOMAIN gOut :
            /\ gOut[i].from \in DOMAIN gSeen' /\ gSeen'[gOut[i].from].id \in ObdIds
            /\ gOut[i].frame = Republished(gSeen'[gOut[i].from])
      BY <2>11 DEF GatewayInv, RepublishedFaithfully
    <3>2. \A i : Republished(gSeen[gOut[i].from])' = Republished(gSeen'[gOut[i].from])
      BY <1>0 DEF Republished
    <3> QED
      BY <1>0, <3>1, <3>2 DEF GatewayInv, RepublishedFaithfully
  <2> QED
    BY <2>12, <2>13, <2>14, <2>15
<1> QED
  <2>1. ASSUME NEW b \in Pending(gObd),
               gObdCan' = ReadAll(gObd, b, gObdCan), gObd' = Release(gObd, b),
               gSeen' = Append(gSeen, gObd.rx[b]),
               LET frame == Copy(gObdCan')
               IN  IF frame.id \in ObdIds
                   THEN /\ gCan' = SetMsg(gCan, frame.id, 17, frame.data)
                        /\ gSend' = Polling /\ gPc' = "send"
                   ELSE gPc' = "reports" /\ UNCHANGED <<gCan, gSend>>
        PROVE  LoopTypes' /\ SendingInv' /\ BuffersInv' /\ RepublishedFaithfully'
    BY <1>2, <2>1, Zenon
  <2> QED
    BY <1>1, <2>1, Zenon DEF RepublishObdFrame

\* Both loops of sendMsg look at the chip and change nothing in it.
LEMMA GatewayLoopStep ==
  ASSUME GatewayInv, GatewayPoll \/ GatewayWait
  PROVE  LoopTypes' /\ SendingInv' /\ BuffersInv' /\ RepublishedFaithfully'
<1>0. /\ gPc = "send" /\ gPc' = IF gSend' = NotSending THEN "reports" ELSE "send"
      /\ UNCHANGED <<gCtl, gObd, gCan, gObdCan, gFrame, gSeen, gFrom, gOut>>
  BY DEF GatewayPoll, GatewayWait, AfterSend, chips, notes
<1>1. gSend \in SendType /\ gSend.polls < TimeoutValue /\ gCtl \in Chip
  BY DEF GatewayInv, LoopTypes, SendingInv
<1>2. /\ gSend' \in SendType /\ gSend'.polls < TimeoutValue
      /\ gSend' = NotSending \/ gSend'.at \in {"poll", "write", "wait"}
      /\ gSend'.at = "write" => ~gCtl.tx[gSend'.buf].req
      /\ gSend'.at \in {"poll", "write"} => gSend.at = "poll"
  <2>1. CASE GatewayPoll
    <3>1. gSend.at = "poll" /\ gSend' = Poll(gCtl, gSend)
      BY <2>1 DEF GatewayPoll
    <3> QED
      BY <1>1, <3>1, PollType
  <2>2. CASE GatewayWait
    <3>1. gSend.at = "wait" /\ gSend' = Wait(gCtl, gSend)
      BY <2>2 DEF GatewayWait
    <3> QED
      BY <1>1, <3>1, WaitType, NotSendingType
  <2> QED
    BY <2>1, <2>2
<1>3. LoopTypes'
  BY <1>0, <1>2 DEF GatewayInv, LoopTypes
<1>4. SendingInv'
  BY <1>0, <1>2 DEF GatewayInv, SendingInv, Republished
<1>5. BuffersInv'
  <2>1. \A n : Republished(n)' = Republished(n)
    BY DEF Republished
  <2>2. \A b : Requested(b)' = Requested(b)
    BY <1>0 DEF Requested
  <2> QED
    BY <1>0, <1>2, <2>1, <2>2 DEF GatewayInv, BuffersInv, Forwarded
<1>6. RepublishedFaithfully'
  BY <1>0 DEF GatewayInv, RepublishedFaithfully
<1> QED
  BY <1>3, <1>4, <1>5, <1>6

\* A frame with one of the forwarded identifiers is a frame again as it is
\* sent.
LEMMA RepublishedFrame ==
  ASSUME NEW f \in Frame, f.id \in ObdIds
  PROVE  Republished(f) \in Frame /\ Republished(f).id = f.id
<1> DEFINE data == [i \in 1 .. DataMax |-> IF i <= f.len THEN f.data[i] ELSE 0]
<1>1. data \in Data
  BY PaddedData
<1>2. Republished(f) = [id |-> f.id, ext |-> FALSE, len |-> DataMax, data |-> data]
  BY DEF Republished
<1>3. f.id \in CanId(FALSE)
  BY GatewayAssumption, Zenon
<1>4. DataMax \in 0 .. 15 /\ FALSE \in BOOLEAN
  BY ControllerAssumption
<1> HIDE DEF data
<1>5. Republished(f) \in Frame
  BY <1>1, <1>2, <1>3, <1>4, FrameFields, Zenon
<1> QED
  BY <1>2, <1>5

\* The frame in hand goes into a buffer that is free.
LEMMA GatewayWriteStep ==
  ASSUME GatewayInv, GatewayWrite
  PROVE  LoopTypes' /\ SendingInv' /\ BuffersInv' /\ RepublishedFaithfully'
<1> DEFINE last == Len(gSeen)
           t == gSend.buf
<1>0. /\ gPc = "send" /\ gSend.at = "write"
      /\ gCtl' = Write(gCtl, gSend, gCan) /\ gSend' = Written(gSend)
      /\ gFrom' = [gFrom EXCEPT ![t] = last]
      /\ UNCHANGED <<gObd, gCan, gObdCan, gPc, gFrame, gSeen, gOut>>
  BY DEF GatewayWrite
<1>1. /\ gSend \in SendType /\ gSend.polls < TimeoutValue /\ gCtl \in Chip
      /\ ~gCtl.tx[t].req
      /\ last \in DOMAIN gSeen /\ gSeen[last].id \in ObdIds
      /\ gCan = Republished(gSeen[last])
  BY <1>0 DEF GatewayInv, LoopTypes, SendingInv
<1>2. t \in 0 .. 2
  BY <1>1 DEF SendType
<1>3. gCan \in Frame
  <2>1. gSeen[last] \in Frame
    BY <1>1 DEF GatewayInv, BuffersInv
  <2> QED
    BY <1>1, <2>1, RepublishedFrame
<1> HIDE DEF last, t
<1>4. /\ gCtl' \in Chip
      /\ gCtl'.tx[t] = [req |-> TRUE, frame |-> gCan]
      /\ \A a \in (0 .. 2) \ {t} : gCtl'.tx[a] = gCtl.tx[a]
  BY <1>0, <1>1, <1>3, WriteType DEF t
<1>5. /\ gSend' \in SendType /\ gSend'.polls < TimeoutValue
      /\ gSend'.at = "wait" /\ gSend' # NotSending
  BY <1>0, <1>1, WrittenType
<1>6. LoopTypes'
  BY <1>0, <1>4, <1>5 DEF GatewayInv, LoopTypes
<1>7. SendingInv'
  BY <1>0, <1>5 DEF GatewayInv, SendingInv, Republished
<1>8. BuffersInv'
  <2>1. gFrom'[t] = last /\ gCtl'.tx[t].frame = Republished(gSeen[last])
    BY <1>0, <1>1, <1>2, <1>4 DEF GatewayInv, BuffersInv, last
  <2>2. \A a \in (0 .. 2) \ {t} :
          /\ Requested(a)' = Requested(a) /\ gFrom'[a] = gFrom[a]
          /\ gCtl'.tx[a].frame = gCtl.tx[a].frame
    BY <1>0, <1>2, <1>4 DEF Requested, GatewayInv, BuffersInv
  <2>3. ~Forwarded(last)
    BY <1>0 DEF GatewayInv, BuffersInv, last
  <2>4. ~Requested(t)
    BY <1>1 DEF Requested
  <2>5. last \in Nat /\ gFrom' \in [0 .. 2 -> Nat]
    BY <1>0, <1>2 DEF GatewayInv, BuffersInv, last
  <2>6. ASSUME NEW a \in 0 .. 2, Requested(a)'
        PROVE  /\ gFrom'[a] \in DOMAIN gSeen /\ gSeen[gFrom'[a]].id \in ObdIds
               /\ gCtl'.tx[a].frame = Republished(gSeen[gFrom'[a]])
               /\ \A i \in DOMAIN gOut : gOut[i].from # gFrom'[a]
    <3>1. CASE a = t
      BY <1>1, <2>1, <2>3, <3>1 DEF Forwarded
    <3>2. CASE a # t
      BY <2>2, <2>6, <3>2 DEF GatewayInv, BuffersInv
    <3> QED
      BY <3>1, <3>2
  <2>7. ASSUME NEW a \in 0 .. 2, NEW b \in 0 .. 2,
               Requested(a)', Requested(b)', gFrom'[a] = gFrom'[b]
        PROVE  a = b
    <3>1. CASE a = t /\ b # t
      <4>1. Requested(b) /\ gFrom[b] = last
        BY <2>1, <2>2, <2>7, <3>1
      <4> QED
        BY <2>3, <4>1 DEF Forwarded
    <3>2. CASE a # t /\ b = t
      <4>1. Requested(a) /\ gFrom[a] = last
        BY <2>1, <2>2, <2>7, <3>2
      <4> QED
        BY <2>3, <4>1 DEF Forwarded
    <3>3. CASE a # t /\ b # t
      BY <2>2, <2>7, <3>3 DEF GatewayInv, BuffersInv
    <3> QED
      BY <3>1, <3>2, <3>3
  <2>8. \A a : Republished(gSeen[gFrom[a]])' = Republished(gSeen[gFrom'[a]])
    BY <1>0 DEF Republished
  <2> QED
    BY <1>0, <1>5, <2>5, <2>6, <2>7, <2>8 DEF GatewayInv, BuffersInv
<1>9. RepublishedFaithfully'
  BY <1>0 DEF GatewayInv, RepublishedFaithfully
<1> QED
  BY <1>6, <1>7, <1>8, <1>9

\* The control bus takes the frame of a buffer, and no other of it is left.
LEMMA GatewaySentStep ==
  ASSUME GatewayInv, NEW b \in NextToSend(gCtl), GatewaySent(b)
  PROVE  LoopTypes' /\ SendingInv' /\ BuffersInv' /\ RepublishedFaithfully'
<1> DEFINE out == [from |-> gFrom[b], frame |-> gCtl.tx[b].frame]
<1>0. /\ gCtl' = Sent(gCtl, b) /\ gOut' = Append(gOut, out)
      /\ UNCHANGED <<gObd, gCan, gObdCan, gPc, gFrame, gSend, gSeen, gFrom>>
  BY DEF GatewaySent
<1>1. b \in 0 .. 2 /\ Requested(b) /\ gCtl \in Chip
  BY DEF NextToSend, Requested, GatewayInv, LoopTypes
<1>2. /\ gCtl' \in Chip /\ gCtl'.tx[b] = Idle
      /\ \A a \in (0 .. 2) \ {b} : gCtl'.tx[a] = gCtl.tx[a]
  BY <1>0, <1>1, SentType
<1>3. ~Requested(b)' /\ \A a \in (0 .. 2) \ {b} : Requested(a)' = Requested(a)
  BY <1>2 DEF Requested, Idle
<1>4. /\ gFrom[b] \in DOMAIN gSeen /\ gSeen[gFrom[b]].id \in ObdIds
      /\ gCtl.tx[b].frame = Republished(gSeen[gFrom[b]])
      /\ \A i \in DOMAIN gOut : gOut[i].from # gFrom[b]
  BY <1>1 DEF GatewayInv, BuffersInv
<1>5. out \in [from : Nat, frame : Slot]
  BY <1>1 DEF GatewayInv, BuffersInv, Chip
<1>6. out.from = gFrom[b] /\ out.frame = gCtl.tx[b].frame
  OBVIOUS
<1> HIDE DEF out
<1>7. /\ gOut \in Seq([from : Nat, frame : Slot])
      /\ gOut' \in Seq([from : Nat, frame : Slot])
      /\ Len(gOut) \in Nat /\ DOMAIN gOut = 1 .. Len(gOut)
      /\ DOMAIN gOut' = 1 .. (Len(gOut) + 1)
      /\ gOut'[Len(gOut) + 1] = out
      /\ \A i \in DOMAIN gOut : i \in DOMAIN gOut' /\ gOut'[i] = gOut[i]
  BY <1>0, <1>5 DEF GatewayInv, BuffersInv
<1>8. \A i \in DOMAIN gOut' : i \in DOMAIN gOut \/ gOut'[i] = out
  BY <1>7
<1>9. LoopTypes'
  BY <1>0, <1>2 DEF GatewayInv, LoopTypes
<1>10. SendingInv'
  <2>1. gSend.at = "write" => ~gCtl'.tx[gSend.buf].req
    <3>1. gSend.buf \in 0 .. 2
      BY DEF GatewayInv, LoopTypes, SendType
    <3> QED
      BY <1>2, <3>1 DEF GatewayInv, SendingInv, Idle
  <2> QED
    BY <1>0, <2>1 DEF GatewayInv, SendingInv, Republished
<1>11. BuffersInv'
  <2>1. ASSUME NEW a \in 0 .. 2, Requested(a)'
        PROVE  /\ a # b /\ Requested(a) /\ gCtl'.tx[a] = gCtl.tx[a]
               /\ gFrom[a] \in DOMAIN gSeen /\ gSeen[gFrom[a]].id \in ObdIds
               /\ gCtl'.tx[a].frame = Republished(gSeen[gFrom[a]])
               /\ \A i \in DOMAIN gOut : gOut[i].from # gFrom[a]
               /\ gFrom[a] # gFrom[b]
    BY <1>1, <1>2, <1>3, <2>1 DEF GatewayInv, BuffersInv
  <2>2. ASSUME NEW a \in 0 .. 2, Requested(a)'
        PROVE  \A i \in DOMAIN gOut' : gOut'[i].from # gFrom[a]
    BY <1>6, <1>7, <1>8, <2>1, <2>2
  <2>3. \A n : Forwarded(n)' => Forwarded(n)
    BY <1>0, <1>1, <1>6, <1>7, <1>8, <2>1 DEF Forwarded
  <2>4. \A n : Republished(n)' = Republished(n)
    BY DEF Republished
  <2> QED
    BY <1>0, <1>7, <2>1, <2>2, <2>3, <2>4 DEF GatewayInv, BuffersInv
<1>12. RepublishedFaithfully'
  <2>1. \A i \in DOMAIN gOut' :
          /\ gOut'[i].from \in DOMAIN gSeen /\ gSeen[gOut'[i].from].id \in ObdIds
          /\ gOut'[i].frame = Republished(gSeen[gOut'[i].from])
    BY <1>4, <1>6, <1>7, <1>8 DEF GatewayInv, RepublishedFaithfully
  <2>2. ASSUME NEW i \in DOMAIN gOut', NEW j \in DOMAIN gOut',
               gOut'[i].from = gOut'[j].from
        PROVE  i = j
    <3>1. CASE i \in DOMAIN gOut /\ j \in DOMAIN gOut
      BY <1>7, <2>2, <3>1 DEF GatewayInv, RepublishedFaithfully
    <3>2. CASE i \in DOMAIN gOut /\ j \notin DOMAIN gOut
      BY <1>4, <1>6, <1>7, <1>8, <2>2, <3>2
    <3>3. CASE i \notin DOMAIN gOut /\ j \in DOMAIN gOut
      BY <1>4, <1>6, <1>7, <1>8, <2>2, <3>3
    <3>4. CASE i \notin DOMAIN gOut /\ j \notin DOMAIN gOut
      BY <1>7, <3>4
    <3> QED
      BY <3>1, <3>2, <3>3, <3>4
  <2>3. \A i : Republished(gSeen[gOut[i].from])' = Republished(gSeen[gOut'[i].from])
    BY <1>0 DEF Republished
  <2> QED
    BY <1>0, <2>1, <2>2, <2>3 DEF RepublishedFaithfully
<1> QED
  BY <1>9, <1>10, <1>11, <1>12

\* A frame heard leaves the transmit buffers alone.
LEMMA GatewayHearStep ==
  ASSUME GatewayInv, NEW f \in Frame, GatewayHears(f) \/ GatewayHearsObd(f)
  PROVE  LoopTypes' /\ SendingInv' /\ BuffersInv' /\ RepublishedFaithfully'
<1>0. /\ UNCHANGED <<gCan, gObdCan, gPc, gFrame, gSend, gSeen, gFrom, gOut>>
      /\ \/ gCtl' = Receive(gCtl, f) /\ gObd' = gObd
         \/ gObd' = Receive(gObd, f) /\ gCtl' = gCtl
  BY DEF GatewayHears, GatewayHearsObd, notes
<1>1. gCtl \in Chip /\ gObd \in Chip
  BY DEF GatewayInv, LoopTypes
<1>2. gCtl' \in Chip /\ gObd' \in Chip /\ gCtl'.tx = gCtl.tx
  BY <1>0, <1>1, ReceiveType
<1>3. LoopTypes'
  BY <1>0, <1>2 DEF GatewayInv, LoopTypes
<1>4. SendingInv' /\ BuffersInv' /\ RepublishedFaithfully'
  BY <1>0, <1>2, SameWay DEF GatewayInv
<1> QED
  BY <1>3, <1>4

\* A frame waiting in a transmit buffer of the gateway is a frame, with one of
\* the identifiers it forwards.
LEMMA OnTheWay ==
  ASSUME GatewayInv, NEW b \in 0 .. 2, Requested(b)
  PROVE  gCtl.tx[b].frame \in Frame /\ gCtl.tx[b].frame.id \in ObdIds
<1>1. /\ gFrom[b] \in DOMAIN gSeen /\ gSeen[gFrom[b]].id \in ObdIds
      /\ gCtl.tx[b].frame = Republished(gSeen[gFrom[b]])
      /\ gSeen \in Seq(Frame)
  BY DEF GatewayInv, BuffersInv
<1> DEFINE f == gSeen[gFrom[b]]
<1>2. f \in Frame
  BY <1>1
<1> HIDE DEF f
<1>3. Republished(f) \in Frame /\ Republished(f).id = f.id
  BY <1>1, <1>2, RepublishedFrame DEF f
<1> QED
  BY <1>1, <1>3 DEF f

\* Nothing has been forwarded at power-up.
LEMMA GatewayInitInv ==
  ASSUME GatewayInit
  PROVE  GatewayInv
<1>1. PICK f \in AnyFilter :
        gCtl = SetMode(Reset([n \in 0 .. 5 |-> f]), "normal") /\ gObd = gCtl
  BY DEF GatewayInit
<1>2. /\ gCan = NoFrame /\ gObdCan = NoFrame
      /\ gPc = "reports" /\ gFrame = NoReport /\ gSend = NotSending
      /\ status = [m \in Modules |-> "UNKNOWN"]
      /\ dtc = [m \in Modules |-> [d \in Dtcs |-> FALSE]]
      /\ screen = "STATUS_SCREEN" /\ toggle = 0 /\ led = "off"
      /\ gSeen = <<>> /\ gFrom = [b \in 0 .. 2 |-> 0] /\ gOut = <<>>
  BY DEF GatewayInit
<1>3. gCtl \in Chip /\ gObd \in Chip /\ \A b \in 0 .. 2 : gCtl.tx[b] = Idle
  <2> DEFINE r == Reset([n \in 0 .. 5 |-> f])
  <2>1. [n \in 0 .. 5 |-> f] \in [0 .. 5 -> IdRegisters]
    BY GatewayAssumption
  <2>2. r \in Chip
    BY <2>1, ResetType
  <2>3. \A b \in 0 .. 2 : r.tx[b] = Idle
    BY DEF Reset
  <2> HIDE DEF r
  <2>4. SetMode(r, "normal") \in Chip /\ SetMode(r, "normal").tx = r.tx
    BY <2>2, SetModeType
  <2> QED
    BY <1>1, <2>3, <2>4 DEF r
<1>4. DisplayTypes
  <2>1. button \in BOOLEAN
    BY Zenon DEF GatewayInit
  <2> QED
    BY <1>2, <2>1 DEF DisplayTypes
<1>5. LoopTypes
  <2>1. NoFrame \in Slot
    BY DEF Slot
  <2>2. NoReport \in [module : Modules \cup {"none"}, enabled : Byte, dtcs : Byte]
    BY DEF NoReport, Byte
  <2> QED
    BY <1>2, <1>3, <2>1, <2>2, NotSendingType DEF LoopTypes
<1>6. SendingInv
  BY <1>2, NotSendingType DEF SendingInv
<1>7. \A b \in 0 .. 2 : ~Requested(b)
  BY <1>3 DEF Requested, Idle
<1>8. BuffersInv
  BY <1>2, <1>7, NotSendingType DEF BuffersInv
<1>9. RepublishedFaithfully
  BY <1>2 DEF RepublishedFaithfully
<1> QED
  BY <1>4, <1>5, <1>6, <1>8, <1>9, InitIInv DEF GatewayInv

\* Every step keeps the invariant.
LEMMA GatewayNextInv ==
  ASSUME GatewayInv, [GatewayNext]_gatewayVars
  PROVE  GatewayInv'
<1>1. IInv'
  BY NextIInv DEF GatewayInv
<1>2. DisplayTypes'
  BY DisplayStep
<1>3. LoopTypes' /\ SendingInv' /\ BuffersInv' /\ RepublishedFaithfully'
  <2>1. CASE GatewayMain
    BY <2>1, ReportsStep, ParsingStep, ObdStep, GatewayLoopStep, GatewayWriteStep,
       Zenon DEF GatewayMain
  <2>2. CASE \E f \in Frame : GatewayHears(f) \/ GatewayHearsObd(f)
    BY <2>2, GatewayHearStep, Zenon
  <2>3. CASE \E b \in NextToSend(gCtl) : GatewaySent(b)
    BY <2>3, GatewaySentStep, Zenon
  <2>4. CASE UNCHANGED <<gCtl, gObd, gCan, gObdCan, gPc, gFrame, gSend,
                         gSeen, gFrom, gOut>>
    <3>1. LoopTypes'
      BY <2>4 DEF GatewayInv, LoopTypes
    <3>2. SendingInv' /\ BuffersInv' /\ RepublishedFaithfully'
      BY <2>4, SameWay DEF GatewayInv
    <3> QED
      BY <3>1, <3>2
  <2>5. UpdateDisplay \/ UNCHANGED gatewayVars =>
          UNCHANGED <<gCtl, gObd, gCan, gObdCan, gPc, gFrame, gSend,
                      gSeen, gFrom, gOut>>
    BY DEF UpdateDisplay, gatewayVars, chips, notes
  <2> QED
    BY <2>1, <2>2, <2>3, <2>4, <2>5, Zenon DEF GatewayNext
<1> QED
  BY <1>1, <1>2, <1>3 DEF GatewayInv

\* The inductive invariant of the gateway: what is on its way from the OBD bus to
\* the control bus, and what the display state says (communications.cpp:43).
THEOREM GatewayInvariant == GatewaySpec => []GatewayInv
<1>1. GatewayInit => GatewayInv
  BY GatewayInitInv
<1>2. GatewayInv /\ [GatewayNext]_gatewayVars => GatewayInv'
  BY GatewayNextInv
<1> QED
  BY <1>1, <1>2, PTL DEF GatewaySpec

\* Types: both controllers, the loop, the display and the report in hand stay
\* what they are declared as, for any frames on either bus.
THEOREM GatewayTypes == GatewaySpec => []GatewayTypeOK
<1>1. GatewayInv => GatewayTypeOK
  BY TypesInv
<1> QED
  BY <1>1, GatewayInvariant, PTL

\* What the gateway puts on the control bus is a frame of the vehicle it is to
\* forward, whole, and none twice, whatever sendMsg finds and gives up.
THEOREM ForwardedFaithfully == GatewaySpec => []RepublishedFaithfully
<1>1. GatewayInv => RepublishedFaithfully
  BY DEF GatewayInv
<1> QED
  BY <1>1, GatewayInvariant, PTL

--------------------------------------------------------------------------
(* The round of the main loop. *)

\* Steps the main loop has left, at most, until it is at its head again and
\* resets the watchdog: the loops of sendMsg count their own turns.
SendLeft(s) ==
  IF s.at = "poll" THEN (TimeoutValue - s.polls) + TimeoutValue + 1
  ELSE IF s.at = "write" THEN TimeoutValue + 1
  ELSE TimeoutValue - s.polls

RoundMax == 2 * TimeoutValue + 7

StepsLeft ==
  IF gPc = "reports" THEN 0
  ELSE IF gPc = "send" THEN SendLeft(gSend)
  ELSE IF gPc = "obd" THEN 2 * TimeoutValue + 2
  ELSE IF gPc = "override" THEN 2 * TimeoutValue + 3
  ELSE IF gPc = "sensor" THEN 2 * TimeoutValue + 4
  ELSE IF gPc = "error" THEN 2 * TimeoutValue + 5
  ELSE 2 * TimeoutValue + 6

\* Inside sendMsg something is left, and no more than both loops take.
LEMMA SendLeftBounds ==
  ASSUME NEW s \in SendType, s.polls < TimeoutValue,
         s.at \in {"poll", "write", "wait"}
  PROVE  SendLeft(s) \in 1 .. 2 * TimeoutValue + 1
<1>1. TimeoutValue \in Nat /\ s.polls \in Nat
  BY ControllerAssumption DEF SendType
<1> QED
  BY <1>1 DEF SendLeft

\* No round is longer than RoundMax, and only the head has none left.
LEMMA StepsLeftBounds ==
  ASSUME GatewayInv
  PROVE  /\ StepsLeft \in 0 .. RoundMax
         /\ gPc # "reports" => StepsLeft > 0
<1>0. TimeoutValue \in Nat
  BY ControllerAssumption
<1>1. CASE gPc = "send"
  <2>1. gSend \in SendType /\ gSend # NotSending /\ gSend.polls < TimeoutValue
        /\ gSend.at \in {"poll", "write", "wait"}
    BY <1>1 DEF GatewayInv, LoopTypes, SendingInv
  <2> QED
    BY <1>0, <1>1, <2>1, SendLeftBounds DEF StepsLeft, RoundMax
<1>2. CASE gPc # "send"
  BY <1>0, <1>2 DEF StepsLeft, RoundMax
<1> QED
  BY <1>1, <1>2

\* A step of the loop that is not at its head has one step less left.
LEMMA RoundStep ==
  ASSUME GatewayInv, GatewayInv', GatewayMain, gPc # "reports"
  PROVE  StepsLeft' < StepsLeft
<1>0. TimeoutValue \in Nat \ {0}
  BY ControllerAssumption
<1>1. CASE ParseEnabled \/ ParseError \/ ParseSensorDtc \/ ParseOverrideDtc
  BY <1>0, <1>1
  DEF ParseEnabled, ParseError, ParseSensorDtc, ParseOverrideDtc, StepsLeft
<1>2. CASE RepublishObdFrame
  <2>1. gPc = "obd" /\ (gPc' = "reports" \/ (gPc' = "send" /\ gSend' = Polling))
    BY <1>2 DEF RepublishObdFrame
  <2>2. SendLeft(Polling) = 2 * TimeoutValue + 1
    BY <1>0 DEF SendLeft, Polling
  <2> QED
    BY <1>0, <2>1, <2>2 DEF StepsLeft
<1>3. ASSUME gPc = "send"
      PROVE  /\ gSend \in SendType /\ gSend.polls < TimeoutValue
             /\ gSend.polls \in Nat
             /\ gSend.at \in {"poll", "write", "wait"}
  BY <1>3 DEF GatewayInv, LoopTypes, SendingInv, SendType
<1>4. CASE GatewayPoll
  <2>1. /\ gPc = "send" /\ gSend.at = "poll" /\ gSend' = Poll(gCtl, gSend)
        /\ gPc' = IF gSend' = NotSending THEN "reports" ELSE "send"
    BY <1>4 DEF GatewayPoll, AfterSend
  <2>2. \/ gSend' = NotSending
        \/ gSend' = [gSend EXCEPT !.polls = @ + 1]
        \/ gSend'.at = "write" /\ gSend' # NotSending
    BY <2>1 DEF Poll, NotSending
  <2>3. CASE gSend' = NotSending
    BY <1>0, <1>3, <2>1, <2>3 DEF StepsLeft, SendLeft
  <2>4. CASE gSend' = [gSend EXCEPT !.polls = @ + 1]
    <3>1. gSend'.at = "poll" /\ gSend'.polls = gSend.polls + 1
      BY <1>3, <2>1, <2>4 DEF SendType
    <3>2. gSend' # NotSending
      BY <3>1 DEF NotSending
    <3> QED
      BY <1>0, <1>3, <2>1, <3>1, <3>2 DEF StepsLeft, SendLeft
  <2>5. CASE gSend'.at = "write" /\ gSend' # NotSending
    BY <1>0, <1>3, <2>1, <2>5 DEF StepsLeft, SendLeft
  <2> QED
    BY <2>2, <2>3, <2>4, <2>5
<1>5. CASE GatewayWrite
  <2>1. /\ gPc = "send" /\ gPc' = "send" /\ gSend.at = "write"
        /\ gSend' = Written(gSend)
    BY <1>5 DEF GatewayWrite
  <2>2. gSend'.at = "wait" /\ gSend'.polls = gSend.polls
    BY <1>3, <2>1 DEF Written, SendType
  <2> QED
    BY <1>0, <1>3, <2>1, <2>2 DEF StepsLeft, SendLeft
<1>6. CASE GatewayWait
  <2>1. /\ gPc = "send" /\ gSend.at = "wait" /\ gSend' = Wait(gCtl, gSend)
        /\ gPc' = IF gSend' = NotSending THEN "reports" ELSE "send"
    BY <1>6 DEF GatewayWait, AfterSend
  <2>2. gSend' = NotSending \/ gSend' = [gSend EXCEPT !.polls = @ + 1]
    BY <2>1 DEF Wait
  <2>3. CASE gSend' = NotSending
    BY <1>0, <1>3, <2>1, <2>3 DEF StepsLeft, SendLeft
  <2>4. CASE gSend' = [gSend EXCEPT !.polls = @ + 1]
    <3>1. gSend'.at = "wait" /\ gSend'.polls = gSend.polls + 1
      BY <1>3, <2>1, <2>4 DEF SendType
    <3>2. gSend' # NotSending
      BY <3>1 DEF NotSending
    <3> QED
      BY <1>0, <1>3, <2>1, <3>1, <3>2 DEF StepsLeft, SendLeft
  <2> QED
    BY <2>2, <2>3, <2>4
<1>7. ~CheckForModuleReports
  BY DEF CheckForModuleReports
<1> QED
  BY <1>1, <1>2, <1>4, <1>5, <1>6, <1>7 DEF GatewayMain

\* Nothing else moves the loop: neither the display interrupt, which comes
\* between any two of its steps, nor the buses.
LEMMA OthersKeepRound ==
  ASSUME [GatewayNext]_gatewayVars, ~GatewayMain
  PROVE  StepsLeft' = StepsLeft
<1>1. gPc' = gPc /\ gSend' = gSend
  BY DEF GatewayNext, UpdateDisplay, GatewayHears, GatewayHearsObd,
         GatewaySent, gatewayVars
<1> QED
  BY <1>1 DEF StepsLeft

\* The main loop is back at its head, where it resets the watchdog, within
\* a number of its own steps that depends on nothing but the time-out of
\* sendMsg: neither a control bus that never takes a frame nor any frames on
\* either bus prolong a round.  With a processor that runs this is
\* LoopComesRound.
THEOREM RoundsAreBounded ==
  GatewaySpec =>
    /\ [](StepsLeft \in 0 .. RoundMax)
    /\ [][gPc # "reports" =>
            IF GatewayMain THEN StepsLeft' < StepsLeft
                           ELSE StepsLeft' = StepsLeft]_gatewayVars
<1>1. GatewayInv => StepsLeft \in 0 .. RoundMax
  BY StepsLeftBounds
<1>2. GatewayInv /\ GatewayInv' /\ [GatewayNext]_gatewayVars =>
        [gPc # "reports" =>
           IF GatewayMain THEN StepsLeft' < StepsLeft
                          ELSE StepsLeft' = StepsLeft]_gatewayVars
  BY RoundStep, OthersKeepRound
<1> QED
  BY <1>1, <1>2, GatewayInvariant, PTL DEF GatewaySpec
=============================================================================
