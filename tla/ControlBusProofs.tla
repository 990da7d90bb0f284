--------------------------- MODULE ControlBusProofs ---------------------------
(***************************************************************************)
(* The diagnostics tool alone, for every size of table and every order of  *)
(* frames; then the three nodes on the bus, whatever is attached and sent: *)
(* each behaves as one of the behaviours of its own specification, so what *)
(* is proved of it alone holds of the system.                              *)
(***************************************************************************)
EXTENDS ControlBus, GatewayProofs

IdFrame == [id : Ids, buffer : Buffers]

\* The search finds one slot at most, and it is the first that is empty or
\* has the identifier.
LEMMA IndexFirst ==
  ASSUME NEW tab, NEW id, NEW k \in Index(tab, id)
  PROVE  /\ k \in Slots /\ tab[k].id \in {0, id}
         /\ \A j \in Slots : j < k => tab[j].id \notin {0, id}
         /\ Index(tab, id) = {k}
<1>1. TableSize \in Nat
  BY ToolAssumption
<1> QED
  BY <1>1 DEF Index, Slots

\* What handle_can_rx does to the table, slot by slot.
LEMMA NoSlot ==
  ASSUME NEW f \in IdFrame, HandleCanRx(f), Index(table, f.id) = {},
         table \in [Slots -> [id : Ids \cup {0}, buffer : Buffers \cup {Zero}]]
  PROVE  table' = table /\ latest' = latest
BY DEF HandleCanRx

\* The frame goes to the slot found, the other slots stay as they are.
LEMMA OneSlot ==
  ASSUME NEW f \in IdFrame, HandleCanRx(f), NEW k \in Index(table, f.id),
         table \in [Slots -> [id : Ids \cup {0}, buffer : Buffers \cup {Zero}]],
         latest \in [Ids -> Buffers \cup {None}]
  PROVE  /\ table' \in [Slots -> [id : Ids \cup {0}, buffer : Buffers \cup {Zero}]]
         /\ table'[k].id = f.id /\ table'[k].buffer = f.buffer
         /\ \A i \in Slots \ {k} : table'[i] = table[i]
         /\ latest' = [latest EXCEPT ![f.id] = f.buffer]
         /\ latest' \in [Ids -> Buffers \cup {None}]
<1>1. Index(table, f.id) = {k} /\ k \in Slots
  BY IndexFirst
<1>2. Entry(f) \in [id : Ids \cup {0}, buffer : Buffers \cup {Zero}]
  BY DEF Entry, IdFrame
<1>3. /\ table' = [i \in Slots |-> IF i = k THEN Entry(f) ELSE table[i]]
      /\ latest' = [latest EXCEPT ![f.id] = f.buffer]
  BY <1>1 DEF HandleCanRx
<1>4. table' \in [Slots -> [id : Ids \cup {0}, buffer : Buffers \cup {Zero}]]
  BY <1>2, <1>3
<1>5. table'[k].id = f.id /\ table'[k].buffer = f.buffer
  BY <1>1, <1>3 DEF Entry
<1>6. \A i \in Slots \ {k} : table'[i] = table[i]
  BY <1>3
<1>7. latest' \in [Ids -> Buffers \cup {None}]
  BY <1>3 DEF IdFrame
<1> QED
  BY <1>3, <1>4, <1>5, <1>6, <1>7

\* What is shown of a module is made of numbers.
LEMMA UpdateStateType ==
  ASSUME NEW tab \in [Slots -> [id : Ids \cup {0}, buffer : Buffers \cup {Zero}]],
         NEW m \in Watched,
         system \in
           [Watched -> [state : {0, STATE_OK, STATE_FAULT}, control : Nat, override : Nat]]
  PROVE  UpdateState(tab, m) \in
           [state : {0, STATE_OK, STATE_FAULT}, control : Nat, override : Nat]
<1>1. Zero \in [enabled : Nat, override : Nat, dtcs : Nat]
  BY DEF Zero
<1>2. ASSUME NEW buffer \in Buffers \cup {Zero}
      PROVE  Analyzed(m, buffer) \in
               [state : {0, STATE_OK, STATE_FAULT}, control : Nat, override : Nat]
  <2>1. buffer \in [enabled : Nat, override : Nat, dtcs : Nat]
    BY <1>1 DEF Buffers
  <2> QED
    BY <2>1 DEF Analyzed, AnalyzeBrakeState, AnalyzeSteeringState, AnalyzeThrottleState
<1>3. CASE Index(tab, ReportOf[m]) = {}
  BY <1>3 DEF UpdateState
<1>4. CASE Index(tab, ReportOf[m]) # {}
  <2>1. PICK k \in Index(tab, ReportOf[m]) : TRUE
    BY <1>4
  <2>2. (CHOOSE i \in Index(tab, ReportOf[m]) : TRUE) \in Slots
    BY <2>1, IndexFirst
  <2>3. tab[CHOOSE i \in Index(tab, ReportOf[m]) : TRUE].buffer \in Buffers \cup {Zero}
    BY <2>2
  <2> QED
    BY <1>2, <1>4, <2>3 DEF UpdateState
<1> QED
  BY <1>3, <1>4

\* And of all the modules, after each pass of the loop.
LEMMA UpdateSystemType ==
  ASSUME ToolTypeOK, NEW due \in BOOLEAN, UpdateSystemState(due),
         table' \in [Slots -> [id : Ids \cup {0}, buffer : Buffers \cup {Zero}]]
  PROVE  system' \in
           [Watched -> [state : {0, STATE_OK, STATE_FAULT}, control : Nat, override : Nat]]
<1>1. \A m \in Watched : UpdateState(table', m) \in
        [state : {0, STATE_OK, STATE_FAULT}, control : Nat, override : Nat]
  BY UpdateStateType DEF ToolTypeOK
<1> QED
  BY <1>1 DEF UpdateSystemState, ToolTypeOK

\* The driver's queue.
LEMMA QueueHead ==
  ASSUME NEW S, NEW q \in Seq(S), q # <<>>, Len(q) <= QueueMax
  PROVE  Head(q) \in S /\ Tail(q) \in Seq(S) /\ Len(Tail(q)) <= QueueMax
<1>1. Head(q) \in S /\ Tail(q) \in Seq(S) /\ Len(Tail(q)) = Len(q) - 1 /\ Len(q) \in Nat
  BY HeadTailProperties, LenProperties
<1> QED
  BY <1>1, ToolAssumption

\* A queue that is not full has room for one more frame.
LEMMA QueueAppend ==
  ASSUME NEW S, NEW q \in Seq(S), NEW f \in S, Len(q) < QueueMax
  PROVE  Append(q, f) \in Seq(S) /\ Len(Append(q, f)) <= QueueMax
<1>1. Append(q, f) \in Seq(S) /\ Len(Append(q, f)) = Len(q) + 1 /\ Len(q) \in Nat
  BY AppendProperties, LenProperties
<1> QED
  BY <1>1, ToolAssumption

--------------------------------------------------------------------------
(* Types. *)

\* The tool's variables keep their types: no step of the tool or of the
\* channel stores anything else.
THEOREM ToolTypes == ToolSpec => []ToolTypeOK
<1>1. ToolInit => ToolTypeOK
  BY ToolAssumption DEF ToolInit, ToolTypeOK, Slots, InitCan, ProcessCanIds
<1>2. ToolTypeOK /\ [ToolNext]_toolVars => ToolTypeOK'
  <2> SUFFICES ASSUME ToolTypeOK, [ToolNext]_toolVars
               PROVE  ToolTypeOK'
    OBVIOUS
  <2>1. CASE ReadFrame
    <3>1. /\ Head(queue) \in IdFrame /\ Tail(queue) \in Seq(IdFrame)
          /\ Len(Tail(queue)) <= QueueMax
      BY <2>1, QueueHead DEF ReadFrame, ToolTypeOK, IdFrame
    <3>2. /\ table' \in [Slots -> [id : Ids \cup {0}, buffer : Buffers \cup {Zero}]]
          /\ latest' \in [Ids -> Buffers \cup {None}]
      <4>1. CASE Index(table, Head(queue).id) = {}
        BY <2>1, <3>1, <4>1, NoSlot DEF ReadFrame, ToolTypeOK
      <4>2. CASE Index(table, Head(queue).id) # {}
        BY <2>1, <3>1, <4>2, OneSlot DEF ReadFrame, ToolTypeOK
      <4> QED
        BY <4>1, <4>2
    <3>3. system' \in
            [Watched -> [state : {0, STATE_OK, STATE_FAULT}, control : Nat, override : Nat]]
      BY <2>1, <3>2, UpdateSystemType DEF ReadFrame
    <3>4. tool' \in {"running", "ended", "crashed"}
      BY <2>1 DEF ReadFrame
    <3> QED
      BY <2>1, <3>1, <3>2, <3>3, <3>4 DEF ReadFrame, ToolTypeOK, IdFrame
  <2>2. CASE ReadNothing
    <3>1. table' \in [Slots -> [id : Ids \cup {0}, buffer : Buffers \cup {Zero}]]
      BY <2>2 DEF ReadNothing, ToolTypeOK
    <3>2. system' \in
            [Watched -> [state : {0, STATE_OK, STATE_FAULT}, control : Nat, override : Nat]]
      BY <2>2, <3>1, UpdateSystemType DEF ReadNothing
    <3>3. tool' \in {"running", "ended", "crashed"}
      BY <2>2 DEF ReadNothing
    <3> QED
      BY <2>2, <3>1, <3>2, <3>3 DEF ReadNothing, ToolTypeOK
  <2>3. CASE Interrupted
    BY <2>3 DEF Interrupted, ToolTypeOK
  <2>4. ASSUME NEW f \in [id : Ids, buffer : Buffers], ToolHears(f)
        PROVE  ToolTypeOK'
    <3>1. queue' \in Seq([id : Ids, buffer : Buffers]) /\ Len(queue') <= QueueMax
      BY <2>4, QueueAppend DEF ToolHears, ToolTypeOK
    <3> QED
      BY <2>4, <3>1 DEF ToolHears, ToolTypeOK
  <2>5. CASE UNCHANGED toolVars
    BY <2>5 DEF toolVars, ToolTypeOK
  <2> QED
    BY <2>1, <2>2, <2>3, <2>4, <2>5 DEF ToolNext, ToolStep
<1> QED
  BY <1>1, <1>2, PTL DEF ToolSpec

--------------------------------------------------------------------------
(* The table. *)

\* A frame of an identifier other than 0 goes to the slot that has it or to
\* the first empty one, and either keeps the table a table.
LEMMA FrameKeepsTable ==
  ASSUME ToolTypeOK, TableFaithful, NEW f \in IdFrame, HandleCanRx(f)
  PROVE  TableFaithful'
<1>0. TableSize \in Nat /\ Ids \subseteq Nat
  BY ToolAssumption
<1>1. CASE Index(table, f.id) = {}
  <2>1. table' = table /\ latest' = latest
    BY <1>1, NoSlot DEF ToolTypeOK
  <2> QED
    BY <2>1 DEF TableFaithful, Used
<1>2. ASSUME NEW k \in Index(table, f.id)
      PROVE  TableFaithful'
  <2>1. /\ k \in Slots /\ table[k].id \in {0, f.id}
        /\ \A j \in Slots : j < k => table[j].id \notin {0, f.id}
    BY <1>2, IndexFirst
  <2>2. /\ table'[k].id = f.id /\ table'[k].buffer = f.buffer
        /\ \A i \in Slots \ {k} : table'[i] = table[i]
        /\ latest' = [latest EXCEPT ![f.id] = f.buffer]
    BY <1>2, OneSlot DEF ToolTypeOK
  <2>3. /\ f.id \in Ids /\ f.buffer # None
        /\ latest'[f.id] = f.buffer
        /\ \A id \in Ids \ {f.id} : latest'[id] = latest[id]
    <3>1. f.id \in Ids /\ f.buffer \in Buffers
      BY DEF IdFrame
    <3>2. f.buffer.enabled \in Nat
      BY <3>1 DEF Buffers
    <3>3. f.buffer # None
      BY <3>2 DEF None
    <3> QED
      BY <2>2, <3>1, <3>3 DEF ToolTypeOK
  <2>4. \A i \in Slots : i # k /\ table[i].id = f.id => f.id = 0
    \* A slot before k does not have it; one after k is used only if k is, and
    \* then k has it and no other does.
    <3> SUFFICES ASSUME NEW i \in Slots, i # k, table[i].id = f.id, f.id # 0
                 PROVE  FALSE
      OBVIOUS
    <3>1. k < i
      BY <1>0, <2>1 DEF Slots
    <3>2. Used(k)
      BY <2>1, <3>1 DEF TableFaithful, Used
    <3>3. table[k].id = f.id
      BY <2>1, <3>2 DEF Used
    <3> QED
      BY <2>1, <3>2, <3>3 DEF TableFaithful
  <2>5. \A i, j \in Slots : i < j /\ Used(j)' => Used(i)'
    <3> SUFFICES ASSUME NEW i \in Slots, NEW j \in Slots, i < j, table'[j].id # 0
                 PROVE  table'[i].id # 0
      BY DEF Used
    <3>1. CASE j = k
      BY <2>1, <2>2, <3>1 DEF Slots
    <3>2. CASE i = k
      <4>1. Used(k)
        BY <2>1, <2>2, <3>2 DEF TableFaithful, Used, Slots
      <4> QED
        BY <2>1, <2>2, <3>2, <4>1 DEF Used
    <3>3. CASE i # k /\ j # k
      BY <2>2, <3>3 DEF TableFaithful, Used
    <3> QED
      BY <3>1, <3>2, <3>3
  <2>6. \A i, j \in Slots : Used(i)' /\ table'[i].id = table'[j].id => i = j
    BY <2>1, <2>2, <2>4 DEF TableFaithful, Used
  <2>7. \A id \in Ids \ {0} : latest'[id] # None <=> \E i \in Slots : table'[i].id = id
    <3> SUFFICES ASSUME NEW id \in Ids \ {0}
                 PROVE  latest'[id] # None <=> \E i \in Slots : table'[i].id = id
      OBVIOUS
    <3>1. CASE id = f.id
      BY <2>1, <2>2, <2>3, <3>1
    <3>2. CASE id # f.id
      <4>1. latest'[id] = latest[id]
        BY <2>3, <3>2
      <4>2. (\E i \in Slots : table'[i].id = id) <=> (\E i \in Slots : table[i].id = id)
        BY <2>1, <2>2, <3>2
      <4> QED
        BY <4>1, <4>2 DEF TableFaithful
    <3> QED
      BY <3>1, <3>2
  <2>8. \A i \in Slots : Used(i)' => table'[i].buffer = latest'[table'[i].id]
    <3> SUFFICES ASSUME NEW i \in Slots, table'[i].id # 0
                 PROVE  table'[i].buffer = latest'[table'[i].id]
      BY DEF Used
    <3>1. CASE i = k
      BY <2>2, <2>3, <3>1
    <3>2. CASE i # k
      <4>1. table'[i] = table[i] /\ table[i].id # f.id /\ table[i].id \in Ids
        BY <2>2, <2>4, <3>2 DEF ToolTypeOK
      <4>2. table[i].buffer = latest[table[i].id]
        BY <3>2, <4>1 DEF TableFaithful, Used
      <4> QED
        BY <2>3, <4>1, <4>2
    <3> QED
      BY <3>1, <3>2
  <2> QED
    BY <2>5, <2>6, <2>7, <2>8 DEF TableFaithful
<1> QED
  BY <1>1, <1>2

\* The table is a table, whatever frames came: one slot for each identifier
\* that was seen, holding its last frame, and no gap (can_monitor.c:87).
THEOREM TableIsFaithful == ToolSpec => []TableFaithful
<1>1. ToolInit => TableFaithful
  BY DEF ToolInit, TableFaithful, Used
<1>2. ToolTypeOK /\ TableFaithful /\ [ToolNext]_toolVars => TableFaithful'
  <2> SUFFICES ASSUME ToolTypeOK, TableFaithful, [ToolNext]_toolVars
               PROVE  TableFaithful'
    OBVIOUS
  <2>1. CASE ReadFrame
    <3>1. Head(queue) \in IdFrame
      BY <2>1, QueueHead DEF ReadFrame, ToolTypeOK, IdFrame
    <3> QED
      BY <2>1, <3>1, FrameKeepsTable DEF ReadFrame
  <2>2. CASE UNCHANGED <<table, latest>>
    BY <2>2 DEF TableFaithful, Used
  <2> QED
    BY <2>1, <2>2 DEF ToolNext, ToolStep, ReadNothing, Interrupted, ToolHears, toolVars
<1> QED
  BY <1>1, <1>2, ToolTypes, PTL DEF ToolSpec

\* What is shown of a module is read from its slot, which holds its last report.
LEMMA Shown ==
  ASSUME TableFaithful', ToolTypeOK', NEW due \in BOOLEAN,
         UpdateSystemState(due), system' # system,
         NEW m \in Watched, latest'[ReportOf[m]] # None
  PROVE  system'[m] = Analyzed(m, latest'[ReportOf[m]])
<1> DEFINE id == ReportOf[m]
<1>1. id \in Ids \ {0}
  BY ToolAssumption
<1>2. PICK i \in Slots : table'[i].id = id
  BY <1>1 DEF TableFaithful
<1>3. Index(table', id) = {i}
  <2>1. \A j \in Slots : j < i => table'[j].id \notin {0, id}
    BY <1>1, <1>2, ToolAssumption DEF TableFaithful, Used, Slots
  <2>2. i \in Index(table', id)
    BY <1>2, <2>1 DEF Index
  <2> QED
    BY <2>2, IndexFirst
<1>4. table'[i].buffer = latest'[id]
  BY <1>1, <1>2 DEF TableFaithful, Used
<1>5. system'[m] = UpdateState(table', m)
  BY DEF UpdateSystemState
<1> QED
  BY <1>3, <1>4, <1>5 DEF UpdateState

\* What the tool shows after a refresh of a module whose report it has seen is
\* the last report of that module (system_state.c:42).
THEOREM DiagnosisIsTrue == ToolSpec => DiagnosisIsLatest
<1>1. ToolTypeOK' /\ TableFaithful' /\ [ToolNext]_toolVars =>
        [system' # system =>
           \A m \in Watched :
             latest'[ReportOf[m]] # None
               => system'[m] = Analyzed(m, latest'[ReportOf[m]])]_toolVars
  <2> SUFFICES ASSUME ToolTypeOK', TableFaithful', ToolNext, system' # system,
                      NEW m \in Watched, latest'[ReportOf[m]] # None
               PROVE  system'[m] = Analyzed(m, latest'[ReportOf[m]])
    BY DEF toolVars
  <2>1. PICK due \in BOOLEAN : UpdateSystemState(due)
    BY DEF ToolNext, ToolStep, ReadFrame, ReadNothing, Interrupted, ToolHears
  <2> QED
    BY <2>1, Shown
<1> QED
  BY <1>1, ToolTypes, TableIsFaithful, PTL DEF ToolSpec, DiagnosisIsLatest

--------------------------------------------------------------------------
(* The nodes on the bus. *)

\* Whatever the module's chip has been asked to send is a report of the module.
ReportsOut ==
  /\ \A b \in 0 .. 2 : mChip.tx[b].req =>
       mChip.tx[b].frame \in Frame /\ mChip.tx[b].frame.id = ReportId
  /\ mSend # NotSending => mCan.id = ReportId

\* What the nodes rely on of each other: only frames are sent, and with the
\* tool attached only identifiers it can look up.
BusInv == net \in Topologies /\ ModuleInv /\ GatewayInv /\ ReportsOut

\* A step that touches neither the transmit buffers nor a frame being sent.
LEMMA SameReports ==
  ASSUME ReportsOut, mChip'.tx = mChip.tx,
         mSend' # NotSending => mSend # NotSending /\ mCan' = mCan
  PROVE  ReportsOut'
BY DEF ReportsOut, ReportId

\* With all transmit buffers idle nothing goes out.
LEMMA NoRequest ==
  ASSUME \A b \in 0 .. 2 : mChip'.tx[b] = Idle, mSend' = NotSending
  PROVE  ReportsOut'
BY DEF ReportsOut, Idle

\* The start-up sends nothing.
LEMMA StartupReports ==
  ASSUME ModuleInv, ReportsOut, Begin \/ EnterConfig \/ LeaveConfig
  PROVE  ReportsOut'
<1>1. mChip \in Chip /\ mSend' = mSend /\ mCan' = mCan
  BY DEF ModuleInv, ChipTypes, Begin, EnterConfig, LeaveConfig
<1>2. CASE Begin
  <2>1. mSend = NotSending
    BY <1>2 DEF Begin, ModuleInv, SendInv
  <2>2. mChip.filt \in [0 .. 5 -> IdRegisters]
    BY <1>1 DEF Chip
  <2> DEFINE r == Reset(mChip.filt)
  <2>3. r \in Chip /\ \A b \in 0 .. 2 : r.tx[b] = Idle
    BY <2>2, ResetType DEF Reset
  <2> HIDE DEF r
  <2>4. SetMode(r, "normal").tx = r.tx
    BY <2>3, SetModeType
  <2>5. mChip' = r \/ mChip' = SetMode(r, "normal")
    BY <1>2, Zenon DEF Begin, r
  <2>6. \A b \in 0 .. 2 : mChip'.tx[b] = Idle
    BY <2>3, <2>4, <2>5
  <2> QED
    BY <1>1, <2>1, <2>6, NoRequest
<1>3. CASE EnterConfig
  <2> DEFINE d == SetMode(mChip, "config")
             call == SetupCalls[mSetup + 1]
  <2>1. d \in Chip /\ d.tx = mChip.tx
    BY <1>1, SetModeType
  <2>2. mChip' = mChip \/ mChip' = WriteRegister(d, call)
    BY <1>3, Zenon DEF EnterConfig
  <2> HIDE DEF d, call
  <2>3. WriteRegister(d, call).tx = d.tx
    BY <2>1 DEF WriteRegister, Chip
  <2> QED
    BY <1>1, <2>1, <2>2, <2>3, SameReports
<1>4. CASE LeaveConfig
  <2>1. mChip' = mChip \/ mChip' = SetMode(mChip, "normal")
    BY <1>4, Zenon DEF LeaveConfig
  <2>2. SetMode(mChip, "normal").tx = mChip.tx
    BY <1>1, SetModeType
  <2> QED
    BY <1>1, <2>1, <2>2, SameReports
<1> QED
  BY <1>2, <1>3, <1>4

\* Nor does the main loop.
LEMMA LoopReports ==
  ASSUME ModuleInv, ReportsOut,
         CheckForRxFrame \/ ReadCanMsgId \/ ReadCanMsgData \/ ClearFlag
           \/ HandleFrame
  PROVE  ReportsOut'
<1>1. mSend' = NotSending
  BY DEF CheckForRxFrame, ReadCanMsgId, ReadCanMsgData, ClearFlag, HandleFrame, Main
<1>2. mChip \in Chip /\ mBuf \in 0 .. 1
  BY DEF ModuleInv, ChipTypes
<1>3. mChip' = mChip \/ mChip' = Release(mChip, mBuf)
  BY Zenon
  DEF CheckForRxFrame, ReadCanMsgId, ReadCanMsgData, ClearFlag, HandleFrame
<1>4. Release(mChip, mBuf).tx = mChip.tx
  BY <1>2, ReleaseType
<1> QED
  BY <1>1, <1>3, <1>4, SameReports

\* The interrupt sends nothing but the report.
LEMMA SendReports ==
  ASSUME ModuleInv, ReportsOut,
         PublishReport \/ SendPoll \/ SendWrite \/ SendWait
  PROVE  ReportsOut'
<1>1. CASE PublishReport
  <2>1. mChip' = mChip /\ mCan' = SetMsg(mCan, ReportId, DataMax, ReportData)
    BY <1>1 DEF PublishReport
  <2>2. mCan'.id = ReportId
    BY <2>1 DEF SetMsg
  <2> QED
    BY <2>1, <2>2 DEF ReportsOut, ReportId
<1>2. CASE SendPoll \/ SendWait
  <2>1. mChip' = mChip /\ mCan' = mCan /\ mSend # NotSending
    BY <1>2 DEF SendPoll, SendWait, NotSending
  <2> QED
    BY <2>1, SameReports
<1>3. CASE SendWrite
  <2>1. /\ mChip' = Write(mChip, mSend, mCan) /\ mCan' = mCan
        /\ mSend # NotSending
    BY <1>3 DEF SendWrite, NotSending
  <2>2. mChip \in Chip /\ mSend \in SendType /\ mCan \in Frame
    BY <2>1 DEF ModuleInv, ChipTypes, SendInv
  <2>3. mCan.id = ReportId
    BY <2>1 DEF ReportsOut
  <2>4. /\ mChip'.tx[mSend.buf] = [req |-> TRUE, frame |-> mCan]
        /\ \A a \in (0 .. 2) \ {mSend.buf} : mChip'.tx[a] = mChip.tx[a]
    BY <2>1, <2>2, WriteType
  <2> QED
    BY <2>1, <2>2, <2>3, <2>4 DEF ReportsOut, ReportId
<1> QED
  BY <1>1, <1>2, <1>3

\* The bus takes frames out of transmit buffers and puts none in.
LEMMA BusReports ==
  ASSUME ModuleInv, ReportsOut, [ModuleNext]_moduleVars
  PROVE  ReportsOut'
<1>0. mChip \in Chip
  BY DEF ModuleInv, ChipTypes
<1>1. CASE ModuleStep
  BY <1>1, StartupReports, LoopReports, SendReports, Zenon DEF ModuleStep
<1>2. ASSUME NEW f \in Frame, ModuleHears(f)
      PROVE  ReportsOut'
  <2>1. mChip' = Receive(mChip, f) /\ mSend' = mSend /\ mCan' = mCan
    BY <1>2 DEF ModuleHears
  <2>2. mChip'.tx = mChip.tx
    BY <1>0, <2>1, ReceiveType
  <2> QED
    BY <2>1, <2>2, SameReports
<1>3. ASSUME NEW b \in NextToSend(mChip), ModuleSent(b)
      PROVE  ReportsOut'
  <2>1. mChip' = Sent(mChip, b) /\ mSend' = mSend /\ mCan' = mCan /\ b \in 0 .. 2
    BY <1>3 DEF ModuleSent, NextToSend
  <2>2. /\ mChip'.tx[b] = Idle
        /\ \A a \in (0 .. 2) \ {b} : mChip'.tx[a] = mChip.tx[a]
    BY <1>0, <2>1, SentType
  <2> QED
    BY <2>1, <2>2 DEF ReportsOut, ReportId, Idle
<1>4. CASE UNCHANGED moduleVars
  BY <1>4, SameReports DEF moduleVars
<1> QED
  BY <1>1, <1>2, <1>3, <1>4, Zenon DEF ModuleNext

\* The nodes start in states of their own invariants.
LEMMA InitBusInv == Init => BusInv
<1> SUFFICES ASSUME Init PROVE BusInv
  OBVIOUS
<1>1. ModuleInv /\ GatewayInv /\ net \in Topologies
  BY ModuleInitInv, GatewayInitInv DEF Init
<1>2. mSend = NotSending
  BY DEF Init, ModuleInit
<1>3. PICK filters \in [0 .. 5 -> PowerUp] : mChip = Reset(filters)
  BY DEF Init, ModuleInit
<1>4. \A b \in 0 .. 2 : mChip.tx[b] = Idle
  BY <1>3 DEF Reset
<1>5. ReportsOut
  BY <1>2, <1>4 DEF ReportsOut, Idle
<1> QED
  BY <1>1, <1>5 DEF BusInv

--------------------------------------------------------------------------
(* Every step of the bus is a step of each of its nodes. *)

ToolFrame == [id : Ids, buffer : Buffers]

\* What the tool's driver hands over is a frame the tool can look up.
LEMMA ForToolType ==
  ASSUME NEW f \in Frame, f.id \in Ids
  PROVE  ForTool(f) \in ToolFrame
<1>1. DataMax >= 3 /\ DataMax \in 1 .. 15
  BY GatewayAssumption, ControllerAssumption
<1>2. f.data \in [1 .. DataMax -> Byte]
  BY DEF Frame, Data
<1>3. f.data[1] \in Byte /\ f.data[2] \in Byte /\ f.data[3] \in Byte
  BY <1>1, <1>2
<1> QED
  BY <1>3 DEF ForTool, ToolFrame, Buffers, Byte

\* A frame on the bus is one that its nodes take.
LEMMA HeardByNodes ==
  ASSUME NEW f \in Frame, NEW sender, OthersHear(f, sender),
         Attached("tool") => f.id \in Ids
  PROVE  /\ sender # "module" => [ModuleNext]_moduleVars
         /\ sender # "gateway" => [GatewayNext]_gatewayVars
         /\ [ToolNext]_toolVars
<1>1. sender # "module" => [ModuleNext]_moduleVars
  BY Zenon DEF OthersHear, ModuleNext
<1>2. sender # "gateway" => [GatewayNext]_gatewayVars
  BY Zenon DEF OthersHear, GatewayNext
<1>3. ASSUME Attached("tool")
      PROVE  [ToolNext]_toolVars
  <2>1. ForTool(f) \in ToolFrame /\ ToolHears(ForTool(f))
    BY <1>3, ForToolType DEF OthersHear
  <2>2. ToolNext
    BY <2>1, Zenon DEF ToolNext, ToolFrame
  <2> QED
    BY <2>2
<1>4. ASSUME ~Attached("tool")
      PROVE  [ToolNext]_toolVars
  BY <1>4, Zenon DEF OthersHear
<1> QED
  BY <1>1, <1>2, <1>3, <1>4

\* A step of the bus is a step, or a stutter, of each node.
LEMMA StepsOfNodes ==
  ASSUME BusInv, [Next]_vars
  PROVE  /\ [ModuleNext]_moduleVars /\ [GatewayNext]_gatewayVars
         /\ [ToolNext]_toolVars /\ net' = net
<1>0. /\ net \in Topologies
      /\ net.orders \cup net.traffic \cup net.obd \subseteq Frame
      /\ Attached("tool") =>
           /\ \A f \in net.orders \cup net.traffic : f.id \in Ids
           /\ Attached("module") => ReportId \in Ids
           /\ Attached("gateway") => ObdIds \subseteq Ids
  BY BusAssumption DEF BusInv, Attached
<1>1. ASSUME NEW f \in net.orders \cup net.traffic, OthersHear(f, "application"),
             UNCHANGED busVars
      PROVE  /\ [ModuleNext]_moduleVars /\ [GatewayNext]_gatewayVars
             /\ [ToolNext]_toolVars /\ net' = net
  <2>1. f \in Frame /\ (Attached("tool") => f.id \in Ids)
    BY <1>0
  <2>2. net' = net
    BY <1>1 DEF busVars
  <2> QED
    BY <1>1, <2>1, <2>2, HeardByNodes
<1>2. CASE VehicleSends
  <2>1. PICK f \in net.obd : GatewayHearsObd(f)
    BY <1>2, Zenon DEF VehicleSends
  <2>2. f \in Frame
    BY <1>0
  <2>3. GatewayNext
    BY <2>1, <2>2, Zenon DEF GatewayNext
  <2> QED
    BY <1>2, <2>3 DEF VehicleSends
<1>3. CASE ModuleSends
  <2>1. PICK b \in NextToSend(mChip) :
          OthersHear(mChip.tx[b].frame, "module") /\ ModuleSent(b)
    BY <1>3, Zenon DEF ModuleSends
  <2>2. b \in 0 .. 2 /\ mChip.tx[b].req
    BY DEF NextToSend
  <2>3. mChip.tx[b].frame \in Frame /\ mChip.tx[b].frame.id = ReportId
    BY <2>2 DEF BusInv, ReportsOut
  <2>4. ModuleNext
    BY <2>1, Zenon DEF ModuleNext
  <2>5. Attached("module") /\ net' = net
    BY <1>3 DEF ModuleSends, busVars
  <2>6. Attached("tool") => mChip.tx[b].frame.id \in Ids
    BY <1>0, <2>3, <2>5
  <2> QED
    BY <2>1, <2>3, <2>4, <2>5, <2>6, HeardByNodes
<1>4. CASE GatewaySends
  <2>1. PICK b \in NextToSend(gCtl) :
          OthersHear(gCtl.tx[b].frame, "gateway") /\ GatewaySent(b)
    BY <1>4, Zenon DEF GatewaySends
  <2>2. b \in 0 .. 2 /\ Requested(b)
    BY DEF NextToSend, Requested
  <2>3. gCtl.tx[b].frame \in Frame /\ gCtl.tx[b].frame.id \in ObdIds
    BY <2>2, OnTheWay DEF BusInv
  <2>4. GatewayNext
    BY <2>1, Zenon DEF GatewayNext
  <2>5. Attached("gateway") /\ net' = net
    BY <1>4 DEF GatewaySends, busVars
  <2>6. Attached("tool") => gCtl.tx[b].frame.id \in Ids
    BY <1>0, <2>3, <2>5
  <2> QED
    BY <2>1, <2>3, <2>4, <2>5, <2>6, HeardByNodes
<1>5. CASE OrderSent
  <2>1. PICK f \in net.orders : OthersHear(f, "application")
    BY <1>5, Zenon DEF OrderSent
  <2> QED
    BY <1>1, <1>5, <2>1 DEF OrderSent
<1>6. CASE TrafficSent
  <2>1. PICK f \in net.traffic : OthersHear(f, "application")
    BY <1>6, Zenon DEF TrafficSent
  <2> QED
    BY <1>1, <1>6, <2>1 DEF TrafficSent
<1>7. CASE ModuleActs
  BY <1>7, Zenon DEF ModuleActs, ModuleNext, busVars
<1>8. CASE GatewayActs \/ GatewayDisplays
  BY <1>8, Zenon DEF GatewayActs, GatewayDisplays, GatewayNext, busVars
<1>9. CASE ToolActs
  BY <1>9, Zenon DEF ToolActs, ToolNext, busVars
<1>10. CASE UNCHANGED vars
  BY <1>10 DEF vars, busVars
<1> QED
  BY <1>2, <1>3, <1>4, <1>5, <1>6, <1>7, <1>8, <1>9, <1>10, Zenon DEF Next

\* On the bus each node is in a state of its own invariant, and sends what the
\* others can take.
THEOREM BusInvariant == Spec => []BusInv
<1>1. BusInv /\ [Next]_vars => BusInv'
  <2> SUFFICES ASSUME BusInv, [Next]_vars PROVE BusInv'
    OBVIOUS
  <2>1. /\ [ModuleNext]_moduleVars /\ [GatewayNext]_gatewayVars /\ net' = net
    BY StepsOfNodes
  <2>2. ModuleInv' /\ GatewayInv' /\ ReportsOut'
    BY <2>1, ModuleStepInv, GatewayNextInv, BusReports DEF BusInv
  <2> QED
    BY <2>1, <2>2 DEF BusInv
<1> QED
  BY <1>1, InitBusInv, PTL DEF Spec

\* Composition: on the bus, with whatever is attached, each node behaves as it
\* does alone among arbitrary frames; so what is proved of a node alone holds
\* of it on the bus.
THEOREM NodesKeepTheirSpecs == Spec => ModuleSpec /\ GatewaySpec /\ ToolSpec
<1>1. Init => ModuleInit /\ GatewayInit /\ ToolInit
  BY DEF Init
<1>2. BusInv /\ [Next]_vars =>
        [ModuleNext]_moduleVars /\ [GatewayNext]_gatewayVars /\ [ToolNext]_toolVars
  BY StepsOfNodes
<1> QED
  BY <1>1, <1>2, BusInvariant, PTL DEF Spec, ModuleSpec, GatewaySpec, ToolSpec

\* Types of the three nodes on the bus.
THEOREM BusTypes == Spec => []TypeOK
<1>1. ModuleTypeOK /\ GatewayTypeOK /\ ToolTypeOK => TypeOK
  BY DEF TypeOK
<1> QED
  BY <1>1, NodesKeepTheirSpecs, ModuleTypes, GatewayTypes, ToolTypes, PTL

\* What the module, the gateway and the tool promise alone they keep on the
\* bus, fed by each other.
THEOREM BusIsSafe ==
  Spec => /\ []FrameIntact /\ []OvertakenOnlyInBuffer1 /\ []NothingVanishes
          /\ []ScreenFollowsReports /\ []RepublishedFaithfully
          /\ []TableFaithful /\ GreenIsEarned /\ DiagnosisIsLatest
          /\ ImplementsChannel
BY NodesKeepTheirSpecs, FramesIntact, OvertakingBounded, OwnFramesKept,
   InterfaceIsChannel, ScreenIsTrue, GreenIsTrue, ForwardedFaithfully, TableIsFaithful,
   DiagnosisIsTrue, PTL
=============================================================================
