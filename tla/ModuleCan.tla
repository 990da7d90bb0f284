------------------------------ MODULE ModuleCan ------------------------------
(***************************************************************************)
(* How an actuator module meets the control bus: init_can and the masks    *)
(* and filters of init.cpp, check_for_rx_frame in the main loop cut at     *)
(* every access to the chip, and the report interrupt, which sends through *)
(* the same MCP_CAN object.  Frames come from the bus between any two      *)
(* steps.                                                                  *)
(***************************************************************************)
EXTENDS CanController, Sequences, FiniteSets

CONSTANTS
  OwnIndex,       \* OSCC_..._CAN_ID_INDEX of the module
  PowerUp,        \* what a filter register may hold at power-up
  MaxRefusals     \* bound: mode changes the chip does not confirm

ASSUME ModuleAssumption ==
  /\ OwnIndex \in Nat /\ OwnIndex + 3 \in CanId(FALSE)
  /\ PowerUp \subseteq IdRegisters
  /\ MaxRefusals \in Nat

FaultIndex == 160                 \* OSCC_FAULT_CAN_ID_INDEX, 0xA0
ReportId   == OwnIndex + 3        \* OSCC_..._REPORT_CAN_ID
DisableId  == OwnIndex + 1        \* OSCC_..._DISABLE_CAN_ID

VARIABLES
  mChip,      \* the controller
  mCan,       \* the fields of g_control_can
  mPc,        \* next step of the main program
  mSetup,     \* calls of init_communication_interfaces behind it
  mBuf,       \* the receive buffer readMsg is reading
  irq,        \* whether interrupts are enabled
  mSend,      \* sendMsg of the report interrupt
  handled,    \* frames given to process_rx_frame, in order
  mSent,      \* frames the bus has carried, numbered from 1
  held,       \* the number of the frame a receive buffer holds
  taken,      \* the numbers of those readMsg has found, in order
  rolled,     \* which of them went to buffer 1
  dropped,    \* which found both buffers full, or the module starting
  refusals,   \* mode changes the chip may still refuse
  refused     \* whether one was ignored by init.cpp

moduleVars == <<mChip, mCan, mPc, mSetup, mBuf, irq, mSend,
                handled, mSent, held, taken, rolled, dropped, refusals, refused>>

ModuleInit ==
  /\ \E filters \in [0 .. 5 -> PowerUp] : mChip = Reset(filters)
  /\ mCan = NoFrame
  /\ mPc = "begin" /\ mSetup = 0 /\ mBuf = 0 /\ irq = TRUE
  /\ mSend = NotSending
  /\ handled = <<>> /\ mSent = <<>> /\ rolled = {} /\ dropped = {}
  /\ held = [b \in 0 .. 1 |-> 0] /\ taken = <<>>
  /\ refusals \in 0 .. MaxRefusals /\ refused = FALSE

ghosts == <<handled, mSent, held, taken, rolled, dropped>>

--------------------------------------------------------------------------
(* Start-up. *)

\* Mutant: the filter of the module's own block set like filter 2.
SetupCallsExtended ==
  << [reg |-> "mask", num |-> 0, ext |-> FALSE, id |-> 2032],
     [reg |-> "filt", num |-> 0, ext |-> TRUE,  id |-> OwnIndex],
     [reg |-> "filt", num |-> 1, ext |-> FALSE, id |-> FaultIndex],
     [reg |-> "mask", num |-> 1, ext |-> FALSE, id |-> 2047],
     [reg |-> "filt", num |-> 2, ext |-> TRUE,  id |-> DisableId] >>

SetupCalls ==
  << [reg |-> "mask", num |-> 0, ext |-> FALSE, id |-> 2032],
     [reg |-> "filt", num |-> 0, ext |-> FALSE, id |-> OwnIndex],
     [reg |-> "filt", num |-> 1, ext |-> FALSE, id |-> FaultIndex],
     [reg |-> "mask", num |-> 1, ext |-> FALSE, id |-> 2047],
     [reg |-> "filt", num |-> 2, ext |-> TRUE,  id |-> DisableId] >>

Refuse == refusals > 0 /\ refusals' = refusals - 1

\* init_can: begin is repeated until the chip confirms normal mode.
Begin ==
  /\ mPc = "begin"
  /\ \/ /\ mChip' = SetMode(Reset(mChip.filt), "normal")
        /\ mPc' = "enter"
        /\ UNCHANGED refusals
     \/ /\ Refuse
        /\ mChip' = Reset(mChip.filt)
        /\ UNCHANGED mPc
  /\ UNCHANGED <<mCan, mSetup, mBuf, irq, mSend, refused, ghosts>>

AfterCall == IF mSetup' = Len(SetupCalls) THEN "idle" ELSE "enter"

\* init_Mask, init_Filt: into configuration mode and write, or give up.
EnterConfig ==
  /\ mPc = "enter"
  /\ \/ /\ mChip' = WriteRegister(SetMode(mChip, "config"),
                                  SetupCalls[mSetup + 1])
        /\ mPc' = "leave"
        /\ UNCHANGED <<mSetup, refusals, refused>>
     \/ /\ Refuse
        /\ mSetup' = mSetup + 1
        /\ mPc' = AfterCall
        /\ refused' = TRUE
        /\ UNCHANGED mChip
  /\ UNCHANGED <<mCan, mBuf, irq, mSend, ghosts>>

\* Back to normal mode.  The result of the call is ignored by init.cpp.
LeaveConfig ==
  /\ mPc = "leave"
  /\ \/ /\ mChip' = SetMode(mChip, "normal")
        /\ UNCHANGED <<refusals, refused>>
     \/ /\ Refuse
        /\ refused' = TRUE
        /\ UNCHANGED mChip
  /\ mSetup' = mSetup + 1
  /\ mPc' = AfterCall
  /\ UNCHANGED <<mCan, mBuf, irq, mSend, ghosts>>

--------------------------------------------------------------------------
(* The main loop; it stands still while the interrupt runs. *)

Main == mSend = NotSending

Taken(b) ==
  /\ mBuf' = b
  /\ taken' = Append(taken, held[b])
  /\ UNCHANGED <<handled, mSent, held, rolled, dropped>>

\* Mutant: no cli.
CheckForRxFrameOpen ==
  /\ Main /\ mPc = "idle"
  /\ \E b \in Pending(mChip) : Taken(b)
  /\ mPc' = "head"
  /\ UNCHANGED <<mChip, mCan, mSetup, irq, mSend, refusals, refused>>

\* check_for_rx_frame: cli, and readMsg finds a full buffer.
CheckForRxFrame ==
  /\ Main /\ mPc = "idle"
  /\ \E b \in Pending(mChip) : Taken(b)
  /\ mPc' = "head"
  /\ irq' = FALSE
  /\ UNCHANGED <<mChip, mCan, mSetup, mSend, refusals, refused>>

\* Mutant: the flag is cleared before the data are read.
ReadCanMsgIdEarly ==
  /\ Main /\ mPc = "head"
  /\ mCan' = ReadHead(mChip, mBuf, mCan)
  /\ mChip' = Release(mChip, mBuf)
  /\ mPc' = "body"
  /\ UNCHANGED <<mSetup, mBuf, irq, mSend, ghosts, refusals, refused>>

\* mcp2515_read_canMsg: the identifier, then the length and the data.
ReadCanMsgId ==
  /\ Main /\ mPc = "head"
  /\ mCan' = ReadHead(mChip, mBuf, mCan)
  /\ mPc' = "body"
  /\ UNCHANGED <<mChip, mSetup, mBuf, irq, mSend, ghosts, refusals, refused>>

ReadCanMsgData ==
  /\ Main /\ mPc = "body"
  /\ mCan' = ReadBody(mChip, mBuf, mCan)
  /\ mPc' = "release"
  /\ UNCHANGED <<mChip, mSetup, mBuf, irq, mSend, ghosts, refusals, refused>>

ClearFlag ==
  /\ Main /\ mPc = "release"
  /\ mChip' = Release(mChip, mBuf)
  /\ mPc' = "copy"
  /\ UNCHANGED <<mCan, mSetup, mBuf, irq, mSend, ghosts, refusals, refused>>

\* readMsgBufID fills rx_frame, sei, and process_rx_frame gets the frame.
HandleFrame ==
  /\ Main /\ mPc = "copy"
  /\ handled' = Append(handled, Copy(mCan))
  /\ mPc' = "idle"
  /\ irq' = TRUE
  /\ UNCHANGED <<mChip, mCan, mSetup, mBuf, mSend, mSent, held, taken, rolled,
                 dropped, refusals, refused>>

--------------------------------------------------------------------------
(* The report interrupt, from start_timers on. *)

ReportData == [i \in 1 .. DataMax |-> 0]

PublishReport ==
  /\ Main /\ irq
  /\ mPc \notin {"begin", "enter", "leave"}
  /\ mCan' = SetMsg(mCan, ReportId, DataMax, ReportData)
  /\ mSend' = Polling
  /\ irq' = FALSE
  /\ UNCHANGED <<mChip, mPc, mSetup, mBuf, ghosts, refusals, refused>>

\* The sei after sendMsgBuf and the return from the interrupt.
IrqAfterSend == irq' = (mSend' = NotSending /\ mPc = "idle")

SendPoll ==
  /\ mSend.at = "poll"
  /\ mSend' = Poll(mChip, mSend)
  /\ IrqAfterSend
  /\ UNCHANGED <<mChip, mCan, mPc, mSetup, mBuf, ghosts, refusals, refused>>

SendWrite ==
  /\ mSend.at = "write"
  /\ mChip' = Write(mChip, mSend, mCan)
  /\ mSend' = Written(mSend)
  /\ UNCHANGED <<mCan, mPc, mSetup, mBuf, irq, ghosts, refusals, refused>>

SendWait ==
  /\ mSend.at = "wait"
  /\ mSend' = Wait(mChip, mSend)
  /\ IrqAfterSend
  /\ UNCHANGED <<mChip, mCan, mPc, mSetup, mBuf, ghosts, refusals, refused>>

ModuleStep ==
  \/ Begin \/ EnterConfig \/ LeaveConfig
  \/ CheckForRxFrame \/ ReadCanMsgId \/ ReadCanMsgData \/ ClearFlag
  \/ HandleFrame
  \/ PublishReport \/ SendPoll \/ SendWrite \/ SendWait

--------------------------------------------------------------------------
(* The bus. *)

Starting == mPc \in {"begin", "enter", "leave"}

Full(c) == \A b \in 0 .. 1 : c.rx[b] # NoFrame

\* The buffers that take a frame when the chip goes from c to d.
Filled(c, d) == {b \in 0 .. 1 : c.rx[b] = NoFrame /\ d.rx[b] # NoFrame}

\* Frame number Len(mSent) + 1 reaches the chip.
ModuleHears(f) ==
  LET n == Len(mSent) + 1
  IN  /\ mChip' = Receive(mChip, f)
      /\ mSent' = Append(mSent, f)
      /\ held' = [b \in 0 .. 1 |->
                    IF b \in Filled(mChip, mChip') THEN n ELSE held[b]]
      /\ rolled' = IF 1 \in Filled(mChip, mChip') THEN rolled \cup {n}
                                                 ELSE rolled
      /\ dropped' = IF Starting \/ Full(mChip) THEN dropped \cup {n}
                                               ELSE dropped
      /\ UNCHANGED <<mCan, mPc, mSetup, mBuf, irq, mSend, handled, taken,
                     refusals, refused>>

\* The bus takes a frame from the chip.
ModuleSent(b) ==
  /\ mChip' = Sent(mChip, b)
  /\ UNCHANGED <<mCan, mPc, mSetup, mBuf, irq, mSend, ghosts, refusals, refused>>

\* The module on a bus that carries anything.
ModuleNext ==
  \/ ModuleStep
  \/ \E f \in Frame : ModuleHears(f)
  \/ \E b \in NextToSend(mChip) : ModuleSent(b)

ModuleSpec == ModuleInit /\ [][ModuleNext]_moduleVars

--------------------------------------------------------------------------
(* Properties. *)

Arrived(n) ==
  [id |-> mSent[n].id, dlc |-> mSent[n].len,
   data |-> [i \in 1 .. DataMax |->
               IF i <= mSent[n].len THEN mSent[n].data[i] ELSE 0]]

\* What process_rx_frame sees is the frame readMsg has found, whole, with
\* zeros behind its end, and no frame twice: neither the bus nor the report
\* interrupt, which writes the same fields of the driver, gets between the
\* reading of its parts (oscc_can.cpp:34, the cli around readMsgBufID).
FrameIntact ==
  /\ \A i \in DOMAIN handled :
       /\ i \in DOMAIN taken /\ taken[i] \in DOMAIN mSent
       /\ handled[i] = Arrived(taken[i])
  /\ \A i, j \in DOMAIN taken : taken[i] = taken[j] => i = j

\* A frame is read after a later one only if it had to wait in buffer 1,
\* because buffer 0, which readMsg always empties first, was full when it
\* came (mcp_can.cpp:855): in each of the two buffers order is kept.
OvertakenOnlyInBuffer1 ==
  \A i, j \in DOMAIN taken :
    i < j /\ taken[i] > taken[j] => taken[j] \in rolled /\ taken[i] \notin rolled

Own(f) == ~f.ext /\ f.id \div 16 \in {OwnIndex \div 16, FaultIndex \div 16}

\* The frames read or waiting to be.
Kept == {taken[i] : i \in DOMAIN taken}
        \cup {held[b] : b \in {a \in 0 .. 1 : mChip.rx[a] # NoFrame}}

\* No frame of the module's own or of the fault identifiers vanishes: once
\* start-up is over it is read or waiting, unless both buffers were full
\* when it came or a mode change that init.cpp does not look at had failed
\* (init.cpp:50).
NothingVanishes ==
  ~refused => \A n \in DOMAIN mSent :
                Own(mSent[n]) /\ n \notin dropped => n \in Kept

Reading == mPc \in {"head", "body", "release", "copy"}

\* A frame is in the chip until its flag is cleared.
InBuffer == mPc \in {"head", "body", "release"}

FullBuffer(b) == mChip.rx[b] # NoFrame

\* A frame nobody has found yet.
Waiting(b) == FullBuffer(b) /\ ~(InBuffer /\ mBuf = b)

\* What the interface promises process_rx_frame (FrameChannel).
Channel == INSTANCE FrameChannel WITH
  carried  <- [n \in 1 .. Len(mSent) |-> Arrived(n)],
  place    <- [b \in 0 .. 1 |-> IF Waiting(b) THEN held[b] ELSE 0],
  hand     <- IF Reading THEN taken[Len(taken)] ELSE 0,
  received <- handled

\* Every step of the driver, of its chip and of the interrupt is a step of
\* that channel or invisible to it: a frame is fetched from buffer 0 first,
\* and given to the program as the bus carried it, before the next is
\* fetched (mcp_can.cpp:849, oscc_can.cpp:26).
ImplementsChannel == Channel!Spec

ModuleTypeOK ==
  /\ mChip \in Chip
  /\ mCan \in Slot
  /\ mPc \in {"begin", "enter", "leave", "idle", "head", "body", "release",
              "copy"}
  /\ mSetup \in 0 .. Len(SetupCalls) /\ mBuf \in 0 .. 1
  /\ irq \in BOOLEAN /\ refused \in BOOLEAN /\ refusals \in 0 .. MaxRefusals
  /\ mSend \in [at : {"off", "poll", "write", "wait"}, buf : 0 .. 2,
                polls : 0 .. TimeoutValue]
  /\ \A i \in DOMAIN handled : handled[i].id \in CanId(TRUE)
  /\ held \in [0 .. 1 -> 0 .. Len(mSent)]
  /\ rolled \subseteq DOMAIN mSent /\ dropped \subseteq DOMAIN mSent
=============================================================================
