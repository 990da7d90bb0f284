---------------------------- MODULE CanController ----------------------------
(***************************************************************************)
(* The MCP2515 CAN controller and its driver, common/libs/mcp_can, as      *)
(* operators on three records:                                             *)
(*   c, the chip: its mode, masks, filters, two receive and three transmit *)
(*      buffers;                                                           *)
(*   o, the MCP_CAN object: the fields can_id, ext_flg, dta_len and dta    *)
(*      that reading and sending share;                                    *)
(*   s, the local variables of a sendMsg in progress.                      *)
(* What a driver function does between two moments at which the bus or an  *)
(* interrupt can come in is one operator.                                  *)
(***************************************************************************)
EXTENDS Integers

CONSTANTS
  DataMax,        \* CAN_MAX_CHAR_IN_MESSAGE
  TimeoutValue    \* TIMEOUTVALUE, polls before sendMsg gives up

ASSUME ControllerAssumption ==
  DataMax \in 1 .. 15 /\ TimeoutValue \in Nat \ {0}

Byte   == 0 .. 255
Data   == [1 .. DataMax -> Byte]
MaxExtended == 536870911      \* 29 bits
CanId(ext) == 0 .. (IF ext THEN MaxExtended ELSE 2047)

\* A length code may name up to 15 bytes; a frame carries at most DataMax.
Frame == {f \in [id : CanId(TRUE), ext : BOOLEAN, len : 0 .. 15, data : Data] :
            f.id \in CanId(f.ext)}

NoFrame == [id |-> -1, ext |-> FALSE, len |-> 0,
            data |-> [i \in 1 .. DataMax |-> 0]]

Slot == Frame \cup {NoFrame}

\* The four registers an identifier takes.
IdRegisters == [sidh : Byte, sidl : Byte, eid8 : Byte, eid0 : Byte]

\* The registers of the chip the driver writes and reads, in banks.
Chip == [mode : {"config", "normal"},
         mask : [0 .. 1 -> IdRegisters],
         filt : [0 .. 5 -> IdRegisters],
         rx   : [0 .. 1 -> Slot],
         tx   : [0 .. 2 -> [req : BOOLEAN, frame : Slot]]]

--------------------------------------------------------------------------
(* Identifiers in the four registers SIDH, SIDL, EID8, EID0. *)

WriteId(ext, id) ==
  IF ext
  THEN LET high == id \div 65536
       IN  [sidh |-> (high \div 32) % 256,
            sidl |-> ((high \div 4) % 8) * 32 + 8 + (high % 4),
            eid8 |-> (id \div 256) % 256,
            eid0 |-> id % 256]
  ELSE [sidh |-> (id \div 8) % 256, sidl |-> (id % 8) * 32,
        eid8 |-> 0, eid0 |-> 0]

Exide(r) == (r.sidl \div 8) % 2 = 1
Sid(r)   == r.sidh * 8 + r.sidl \div 32

ReadId(r) ==
  [ext |-> Exide(r),
   id  |-> IF Exide(r)
           THEN ((Sid(r) * 4 + (r.sidl % 4)) * 256 + r.eid8) * 256 + r.eid0
           ELSE Sid(r)]

--------------------------------------------------------------------------
(* Bit timing: CNF1, CNF2 and CNF3 for each speed, in units of 100 bit/s. *)

Timings ==
  { [rate |-> 50,    cfg1 |-> 63, cfg2 |-> 255, cfg3 |-> 135],
    [rate |-> 100,   cfg1 |-> 31, cfg2 |-> 255, cfg3 |-> 135],
    [rate |-> 200,   cfg1 |-> 15, cfg2 |-> 255, cfg3 |-> 135],
    [rate |-> 250,   cfg1 |-> 15, cfg2 |-> 186, cfg3 |-> 7],
    [rate |-> 312,   cfg1 |-> 15, cfg2 |-> 241, cfg3 |-> 133],
    [rate |-> 333,   cfg1 |-> 9,  cfg2 |-> 190, cfg3 |-> 7],
    [rate |-> 400,   cfg1 |-> 7,  cfg2 |-> 255, cfg3 |-> 135],
    [rate |-> 500,   cfg1 |-> 7,  cfg2 |-> 250, cfg3 |-> 135],
    [rate |-> 800,   cfg1 |-> 3,  cfg2 |-> 255, cfg3 |-> 135],
    [rate |-> 833,   cfg1 |-> 3,  cfg2 |-> 190, cfg3 |-> 7],
    [rate |-> 950,   cfg1 |-> 3,  cfg2 |-> 173, cfg3 |-> 7],
    [rate |-> 1000,  cfg1 |-> 3,  cfg2 |-> 250, cfg3 |-> 135],
    [rate |-> 1250,  cfg1 |-> 3,  cfg2 |-> 240, cfg3 |-> 134],
    [rate |-> 2000,  cfg1 |-> 1,  cfg2 |-> 250, cfg3 |-> 135],
    [rate |-> 2500,  cfg1 |-> 65, cfg2 |-> 241, cfg3 |-> 133],
    [rate |-> 5000,  cfg1 |-> 0,  cfg2 |-> 240, cfg3 |-> 134],
    [rate |-> 6660,  cfg1 |-> 0,  cfg2 |-> 160, cfg3 |-> 4],
    [rate |-> 10000, cfg1 |-> 0,  cfg2 |-> 208, cfg3 |-> 130] }

\* mcp2515_configRate; the empty set is its MCP2515_FAIL.
ConfigRate(rate) == {t \in Timings : t.rate = rate}

\* How the chip reads them: time quanta of two periods of its 16 MHz clock
\* per step of the prescaler, one for the synchronisation and three segments.
QuantumOf(t) == 2 * ((t.cfg1 % 64) + 1)

BeforeSample(t) == 1 + ((t.cfg2 % 8) + 1) + (((t.cfg2 \div 8) % 8) + 1)
AfterSample(t)  == (t.cfg3 % 8) + 1

BitTime(t) == QuantumOf(t) * (BeforeSample(t) + AfterSample(t))

--------------------------------------------------------------------------
(* The chip. *)

Idle == [req |-> FALSE, frame |-> NoFrame]

\* mcp2515_reset and mcp2515_initCANBuffers; the filters keep what they had,
\* which after power-up is anything.
Reset(filters) ==
  [mode |-> "config",
   mask |-> [n \in 0 .. 1 |-> WriteId(FALSE, 0)],
   filt |-> filters,
   rx   |-> [b \in 0 .. 1 |-> NoFrame],
   tx   |-> [b \in 0 .. 2 |-> Idle]]

SetMode(c, mode) == [c EXCEPT !.mode = mode]

\* The write inside init_Mask and init_Filt.
WriteRegister(c, call) ==
  IF call.reg = "mask"
  THEN [c EXCEPT !.mask[call.num] = WriteId(call.ext, call.id)]
  ELSE [c EXCEPT !.filt[call.num] = WriteId(call.ext, call.id)]

\* The masks in use leave out no bit, the low four bits, or all of them.
Agree(mask, a, b) ==
  \/ mask = 0
  \/ mask = 2032 /\ a \div 16 = b \div 16
  \/ mask = 2047 /\ a = b

\* (CAN_ID & mask) = (filter & mask), for frames of the filter's own format.
\* The masks' bits for the extended part are all zero.
Matches(mask, filter, f) ==
  /\ Exide(filter) = f.ext
  /\ Agree(Sid(mask), Sid(filter), Sid(WriteId(f.ext, f.id)))

FiltersOf(b) == IF b = 0 THEN 0 .. 1 ELSE 2 .. 5

Accepts(c, b, f) ==
  \E n \in FiltersOf(b) : Matches(c.mask[b], c.filt[n], f)

\* A buffer whose flag is set is never overwritten; with BUKT set, a frame
\* for a full buffer 0 goes to buffer 1, whatever the filters of buffer 1.
Receive(c, f) ==
  IF c.mode = "normal" /\ Accepts(c, 0, f) /\ c.rx[0] = NoFrame
  THEN [c EXCEPT !.rx[0] = f]
  ELSE IF /\ c.mode = "normal"
          /\ Accepts(c, 0, f) \/ Accepts(c, 1, f)
          /\ c.rx[1] = NoFrame
       THEN [c EXCEPT !.rx[1] = f]
       ELSE c

\* Of several pending buffers of equal priority the highest is sent first.
NextToSend(c) ==
  {b \in 0 .. 2 : /\ c.mode = "normal" /\ c.tx[b].req
                  /\ \A a \in 0 .. 2 : c.tx[a].req => a <= b}

Sent(c, b) == [c EXCEPT !.tx[b] = Idle]

--------------------------------------------------------------------------
(* Reading: readMsg and readMsgBufID. *)

\* Mutant: the second buffer first.
PendingSecondFirst(c) ==
  IF c.rx[1] # NoFrame THEN {1} ELSE IF c.rx[0] # NoFrame THEN {0} ELSE {}

\* mcp2515_readStatus and the choice readMsg makes.
Pending(c) ==
  IF c.rx[0] # NoFrame THEN {0} ELSE IF c.rx[1] # NoFrame THEN {1} ELSE {}

ReadHead(c, b, o) ==
  LET h == ReadId(WriteId(c.rx[b].ext, c.rx[b].id))
  IN  [o EXCEPT !.id = h.id, !.ext = h.ext]

\* The length and as many bytes.  The remote-request bit, which is read here
\* too, is left out: no caller looks at it and no node sends such a frame.
ReadBody(c, b, o) ==
  [o EXCEPT !.len  = c.rx[b].len,
            !.data = [i \in 1 .. DataMax |->
                        IF i <= c.rx[b].len THEN c.rx[b].data[i]
                                            ELSE o.data[i]]]

\* What the buffer holds once its flag is clear is never read again.
Release(c, b) == [c EXCEPT !.rx[b] = NoFrame]

\* Mutant: rx_frame is not cleared, or all of dta is copied.
CopyAll(o) == [id |-> o.id, dlc |-> o.len, data |-> o.data]

\* Into an rx_frame cleared by check_for_rx_frame; the format is not kept.
Copy(o) ==
  [id |-> o.id, dlc |-> o.len,
   data |-> [i \in 1 .. DataMax |-> IF i <= o.len THEN o.data[i] ELSE 0]]

\* The three steps of a read together, for a reader that lets nothing in.
ReadAll(c, b, o) == ReadBody(c, b, ReadHead(c, b, o))

--------------------------------------------------------------------------
(* Sending: sendMsgBuf, setMsg, sendMsg. *)

NotSending == [at |-> "off", buf |-> 0, polls |-> 0]
Polling    == [at |-> "poll", buf |-> 0, polls |-> 0]

\* Mutant: the length is not cut.
SetMsgUncut(o, id, len, data) ==
  [id |-> id, ext |-> FALSE, len |-> len,
   data |-> [i \in 1 .. DataMax |-> data[i]]]

SetMsg(o, id, len, data) ==
  LET n == IF len < DataMax THEN len ELSE DataMax
  IN  [id |-> id, ext |-> FALSE, len |-> n,
       data |-> [i \in 1 .. DataMax |->
                   IF i <= n THEN data[i] ELSE o.data[i]]]

\* mcp2515_getNextFreeTXBuf: the first buffer without a request.
FreeBuffer(c) ==
  {b \in 0 .. 2 : ~c.tx[b].req /\ \A a \in 0 .. 2 : ~c.tx[a].req => b <= a}

\* One turn of the first loop of sendMsg.  A buffer found by the last poll
\* counts as a time-out too.
Poll(c, s) ==
  IF s.polls + 1 = TimeoutValue THEN NotSending
  ELSE IF FreeBuffer(c) = {} THEN [s EXCEPT !.polls = @ + 1]
  ELSE [at |-> "write", buf |-> CHOOSE b \in FreeBuffer(c) : TRUE, polls |-> 0]

\* mcp2515_write_canMsg and mcp2515_start_transmit.
Write(c, s, o) ==
  LET h == ReadId(WriteId(o.ext, o.id))
  IN  [c EXCEPT !.tx[s.buf] =
         [req |-> TRUE,
          frame |-> [id |-> h.id, ext |-> h.ext, len |-> o.len,
                     data |-> o.data]]]

Written(s) == [s EXCEPT !.at = "wait"]

\* Mutant: no time-out.
WaitOn(c, s) == IF c.tx[s.buf].req THEN s ELSE NotSending

\* One turn of the second loop of sendMsg; its result is used by nobody.
Wait(c, s) ==
  IF s.polls + 1 = TimeoutValue \/ ~c.tx[s.buf].req
  THEN NotSending
  ELSE [s EXCEPT !.polls = @ + 1]
=============================================================================
