------------------------------- MODULE ModuleCanProofs -------------------------------
(***************************************************************************)
(* Theorems about ModuleCan, for every module, every content of the chip   *)
(* at power-up and every bus.                                              *)
(*                                                                         *)
(* First what the operators of CanController return and leave alone; then  *)
(* the inductive invariant ModuleInv.  The three properties speak of lists *)
(* of what was found and handled, so its parts tie those lists to the chip *)
(* and to the driver: SeqInv and HoldInv say which frame of the bus a full *)
(* buffer holds and that it has not been found yet, ReadInv how much of it *)
(* the driver's fields hold at each step of a read, SendInv that the       *)
(* report interrupt is not there meanwhile, OrderInv what is older than    *)
(* the frame waiting in each buffer, SetupInv which registers the start-up *)
(* has written, and VanishInv what may be missing.                         *)
(***************************************************************************)
EXTENDS ModuleCan, SequenceTheorems, TLAPS

\* The registers hold bytes, whatever the identifier.
LEMMA WriteIdType ==
  ASSUME NEW ext \in BOOLEAN, NEW id \in CanId(ext)
  PROVE  WriteId(ext, id) \in IdRegisters
BY SMT DEF CanId, WriteId, IdRegisters, Byte

\* A standard identifier fits SIDH and the top of SIDL, and leaves EXIDE clear.
LEMMA StandardId ==
  ASSUME NEW id \in CanId(FALSE)
  PROVE  /\ Sid(WriteId(FALSE, id)) = id
         /\ Exide(WriteId(FALSE, id)) = FALSE
<1> DEFINE r == WriteId(FALSE, id)
<1>1. id \in 0 .. 2047
  BY SMT DEF CanId
<1>2. r.sidh = (id \div 8) % 256 /\ r.sidl = (id % 8) * 32
  BY SMT DEF WriteId
<1> HIDE DEF r
<1>3. r.sidh = id \div 8
  BY <1>1, <1>2, SMT
<1>4. r.sidl \div 32 = id % 8
  BY <1>1, <1>2, SMT
<1>5. (r.sidl \div 8) % 2 = 0
  BY <1>1, <1>2, SMT
<1>6. r.sidh * 8 + r.sidl \div 32 = id
  BY <1>1, <1>3, <1>4, SMT
<1>7. Sid(r) = id
  BY <1>6, SMT DEF Sid
<1>8. Exide(r) = FALSE
  BY <1>5, SMT DEF Exide
<1> QED
  BY <1>7, <1>8, Zenon DEF r

\* What init.cpp writes for a standard identifier is what a register may hold.
LEMMA StandardRegisters ==
  ASSUME NEW id \in CanId(FALSE)
  PROVE  WriteId(FALSE, id) \in IdRegisters
<1>1. FALSE \in BOOLEAN
  OBVIOUS
<1> QED
  BY <1>1, WriteIdType, Zenon

\* Every standard number is an extended one, too.
LEMMA StandardWider == CanId(FALSE) \subseteq CanId(TRUE)
<1>1. MaxExtended \in Nat /\ 2047 <= MaxExtended
  BY SMT DEF MaxExtended
<1> QED
  BY <1>1, SMT DEF CanId

\* mcp2515_read_id gets back what mcp2515_write_id has put in, in either format.
LEMMA IdRoundTrip ==
  ASSUME NEW ext \in BOOLEAN, NEW id \in CanId(ext)
  PROVE  ReadId(WriteId(ext, id)) = [ext |-> ext, id |-> id]
<1>1. CASE ext = FALSE
  <2>1. Exide(WriteId(FALSE, id)) = FALSE /\ Sid(WriteId(FALSE, id)) = id
    BY <1>1, StandardId, Zenon
  <2>2. ReadId(WriteId(FALSE, id)) = [ext |-> FALSE, id |-> id]
    BY <2>1, Zenon DEF ReadId
  <2> QED
    BY <1>1, <2>2, Zenon
<1>2. CASE ext = TRUE
  <2> DEFINE r == WriteId(TRUE, id)
             high == id \div 65536
             top  == (high \div 4) % 8
  <2>1. id \in Nat /\ id <= 536870911
    BY <1>2, SMT DEF CanId, MaxExtended
  <2>1a. high \in Int /\ 0 <= high /\ high <= 8191
    BY <2>1, SMT
  <2>2. /\ r.sidh = (high \div 32) % 256
        /\ r.sidl = top * 32 + 8 + (high % 4)
        /\ r.eid8 = (id \div 256) % 256 /\ r.eid0 = id % 256
    BY SMT DEF WriteId
  <2> HIDE DEF r
  <2>3. (high * 256 + ((id \div 256) % 256)) * 256 + (id % 256) = id
    BY <2>1, <2>1a, SMT
  <2>3a. r.sidh = (high \div 32) % 256
    BY <2>2, SMT
  <2> HIDE DEF high
  <2>4. top \in 0 .. 7 /\ (high % 4) \in 0 .. 3
    BY <2>1a, SMT
  <2>4a. ((high \div 32) % 256) = high \div 32
    BY <2>1a, SMT
  <2>5. ((high \div 32) * 8 + top) * 4 + (high % 4) = high
    BY <2>1a, SMT
  <2> HIDE DEF top
  <2>6. /\ r.sidl \div 32 = top /\ r.sidl % 4 = high % 4
        /\ (r.sidl \div 8) % 2 = 1
    BY <2>2, <2>4, SMT
  <2>7. Exide(r) = TRUE /\ Sid(r) * 4 + (r.sidl % 4) = high
    BY <2>2, <2>4a, <2>5, <2>6, SMT DEF Exide, Sid
  <2>8. ((Sid(r) * 4 + (r.sidl % 4)) * 256 + r.eid8) * 256 + r.eid0 = id
    BY <2>2, <2>3, <2>7, SMT
  <2>9. ReadId(r) = [ext |-> TRUE, id |-> id]
    BY <2>7, <2>8, Zenon DEF ReadId
  <2> QED
    BY <1>2, <2>9, Zenon DEF r
<1> QED
  BY <1>1, <1>2, Zenon

\* The mark of an empty buffer is no frame.
LEMMA NoFrameIsNone == NoFrame \notin Frame
BY SMT DEF NoFrame, Frame, CanId

\* A chip just reset is a chip.
LEMMA ResetType ==
  ASSUME NEW filters \in [0 .. 5 -> IdRegisters]
  PROVE  Reset(filters) \in Chip
<1>0. 0 \in CanId(FALSE) /\ FALSE \in BOOLEAN
  BY SMT DEF CanId
<1>1. WriteId(FALSE, 0) \in IdRegisters
  BY <1>0, WriteIdType, Zenon
<1>2. Idle \in [req : BOOLEAN, frame : Slot]
  BY DEF Idle, Slot
<1> QED
  BY <1>1, <1>2 DEF Reset, Chip, Slot

\* A mode change touches neither buffers nor filters.
LEMMA SetModeType ==
  ASSUME NEW c \in Chip, NEW mode \in {"config", "normal"}
  PROVE  /\ SetMode(c, mode) \in Chip
         /\ SetMode(c, mode).mode = mode
         /\ SetMode(c, mode).mask = c.mask /\ SetMode(c, mode).filt = c.filt
         /\ SetMode(c, mode).rx = c.rx /\ SetMode(c, mode).tx = c.tx
BY DEF Chip, SetMode

\* Reception fills one empty receive buffer at most and touches nothing else.
LEMMA ReceiveType ==
  ASSUME NEW c \in Chip, NEW f \in Frame
  PROVE  /\ Receive(c, f) \in Chip
         /\ Receive(c, f).mode = c.mode
         /\ Receive(c, f).mask = c.mask /\ Receive(c, f).filt = c.filt
         /\ Receive(c, f).tx = c.tx
         /\ \A b \in 0 .. 1 : Receive(c, f).rx[b] # c.rx[b] =>
              c.rx[b] = NoFrame /\ Receive(c, f).rx[b] = f
         /\ ~(Receive(c, f).rx[0] # c.rx[0] /\ Receive(c, f).rx[1] # c.rx[1])
<1> HIDE DEF Frame, Slot
<1>1. f \in Slot
  BY DEF Slot
<1> DEFINE d0 == [c EXCEPT !.rx[0] = f]
           d1 == [c EXCEPT !.rx[1] = f]
<1>2. \/ Receive(c, f) = d0 /\ c.rx[0] = NoFrame
      \/ Receive(c, f) = d1 /\ c.rx[1] = NoFrame
      \/ Receive(c, f) = c
  BY Zenon DEF Receive
<1>3. /\ d0 \in Chip /\ d0.mode = c.mode /\ d0.mask = c.mask
      /\ d0.filt = c.filt /\ d0.tx = c.tx
      /\ d0.rx[0] = f /\ d0.rx[1] = c.rx[1]
  BY <1>1 DEF Chip
<1>4. /\ d1 \in Chip /\ d1.mode = c.mode /\ d1.mask = c.mask
      /\ d1.filt = c.filt /\ d1.tx = c.tx
      /\ d1.rx[1] = f /\ d1.rx[0] = c.rx[0]
  BY <1>1 DEF Chip
<1> HIDE DEF d0, d1
<1>5. \A b \in 0 .. 1 : b = 0 \/ b = 1
  OBVIOUS
<1> QED
  BY <1>2, <1>3, <1>4, <1>5, Zenon

\* Clearing a flag empties that receive buffer and touches nothing else.
LEMMA ReleaseType ==
  ASSUME NEW c \in Chip, NEW b \in 0 .. 1
  PROVE  /\ Release(c, b) \in Chip
         /\ Release(c, b).mode = c.mode
         /\ Release(c, b).mask = c.mask /\ Release(c, b).filt = c.filt
         /\ Release(c, b).tx = c.tx
         /\ Release(c, b).rx[b] = NoFrame
         /\ \A a \in (0 .. 1) \ {b} : Release(c, b).rx[a] = c.rx[a]
<1> NoFrame \in Slot
  BY DEF Slot
<1> QED
  BY DEF Chip, Release

\* The end of a transmission frees that transmit buffer and touches nothing else.
LEMMA SentType ==
  ASSUME NEW c \in Chip, NEW b \in 0 .. 2
  PROVE  /\ Sent(c, b) \in Chip
         /\ Sent(c, b).mode = c.mode
         /\ Sent(c, b).mask = c.mask /\ Sent(c, b).filt = c.filt
         /\ Sent(c, b).rx = c.rx
         /\ Sent(c, b).tx[b] = Idle
         /\ \A a \in (0 .. 2) \ {b} : Sent(c, b).tx[a] = c.tx[a]
<1> Idle \in [req : BOOLEAN, frame : Slot]
  BY DEF Idle, Slot
<1> HIDE DEF Idle
<1> QED
  BY DEF Chip, Sent

\* The local variables of sendMsg.
SendType == [at : {"off", "poll", "write", "wait"}, buf : 0 .. 2,
             polls : 0 .. TimeoutValue]

\* Loading a transmit buffer touches nothing else.
LEMMA WriteType ==
  ASSUME NEW c \in Chip, NEW s \in SendType, NEW o \in Frame
  PROVE  /\ Write(c, s, o) \in Chip
         /\ Write(c, s, o).mode = c.mode
         /\ Write(c, s, o).mask = c.mask /\ Write(c, s, o).filt = c.filt
         /\ Write(c, s, o).rx = c.rx
         /\ Write(c, s, o).tx[s.buf] = [req |-> TRUE, frame |-> o]
         /\ \A a \in (0 .. 2) \ {s.buf} : Write(c, s, o).tx[a] = c.tx[a]
<1>0. s.buf \in 0 .. 2
  BY DEF SendType
<1>1. o.ext \in BOOLEAN /\ o.id \in CanId(o.ext)
  BY DEF Frame
<1>2. ReadId(WriteId(o.ext, o.id)) = [ext |-> o.ext, id |-> o.id]
  BY <1>1, IdRoundTrip
<1>3. o = [id |-> o.id, ext |-> o.ext, len |-> o.len, data |-> o.data]
  BY DEF Frame
<1> DEFINE t == [req |-> TRUE, frame |-> o]
<1>4. Write(c, s, o) = [c EXCEPT !.tx[s.buf] = t]
  <2> DEFINE h == ReadId(WriteId(o.ext, o.id))
  <2>1. h = [ext |-> o.ext, id |-> o.id]
    BY <1>2, Zenon
  <2> HIDE DEF h
  <2>2. [id |-> h.id, ext |-> h.ext, len |-> o.len, data |-> o.data] = o
    BY <2>1, <1>3
  <2> QED
    BY <2>2 DEF Write, h
<1>5. t \in [req : BOOLEAN, frame : Slot]
  BY DEF Slot
<1> HIDE DEF t
<1>6. /\ [c EXCEPT !.tx[s.buf] = t] \in Chip
      /\ [c EXCEPT !.tx[s.buf] = t].mode = c.mode
      /\ [c EXCEPT !.tx[s.buf] = t].mask = c.mask /\ [c EXCEPT !.tx[s.buf] = t].filt = c.filt
      /\ [c EXCEPT !.tx[s.buf] = t].rx = c.rx
      /\ [c EXCEPT !.tx[s.buf] = t].tx[s.buf] = t
      /\ \A a \in (0 .. 2) \ {s.buf} : [c EXCEPT !.tx[s.buf] = t].tx[a] = c.tx[a]
  BY <1>0, <1>5 DEF Chip
<1> QED
  BY <1>4, <1>6 DEF t

\* An identifier of either format is in the range of the extended ones.
LEMMA WiderId ==
  ASSUME NEW ext \in BOOLEAN, NEW id \in CanId(ext)
  PROVE  id \in CanId(TRUE)
<1>1. MaxExtended \in Nat /\ 2047 <= MaxExtended
  BY SMT DEF MaxExtended
<1>2. CASE ext = FALSE
  <2>1. id \in 0 .. 2047
    BY <1>2, SMT DEF CanId
  <2>2. id \in 0 .. MaxExtended
    BY <1>1, <2>1, SMT
  <2> QED
    BY <2>2, SMT DEF CanId
<1> QED
  BY <1>2

\* A slot is given by its fields.
LEMMA SlotFields ==
  ASSUME NEW o \in Slot
  PROVE  /\ o = [id |-> o.id, ext |-> o.ext, len |-> o.len, data |-> o.data]
         /\ o.ext \in BOOLEAN /\ o.len \in 0 .. 15 /\ o.data \in Data
<1>1. CASE o \in Frame
  BY <1>1 DEF Frame
<1>2. CASE o = NoFrame
  <2>1. [i \in 1 .. DataMax |-> 0] \in Data
    BY DEF Data, Byte
  <2> QED
    BY <1>2, <2>1 DEF NoFrame
<1> QED
  BY <1>1, <1>2 DEF Slot

\* What fields make a frame.
LEMMA FrameFields ==
  ASSUME NEW id, NEW ext \in BOOLEAN, NEW len \in 0 .. 15, NEW data \in Data,
         id \in CanId(ext)
  PROVE  [id |-> id, ext |-> ext, len |-> len, data |-> data] \in Frame
<1>1. id \in CanId(TRUE)
  BY WiderId, Zenon
<1> QED
  BY <1>1 DEF Frame

\* The fields of a frame.
LEMMA InFrame ==
  ASSUME NEW f \in Frame
  PROVE  /\ f \in Slot /\ f.ext \in BOOLEAN /\ f.len \in 0 .. 15
         /\ f.data \in Data /\ f.id \in CanId(f.ext) /\ f.id \in CanId(TRUE)
         /\ f # NoFrame
BY NoFrameIsNone DEF Slot, Frame

\* The data of a frame, zero behind its end.
LEMMA PaddedData ==
  ASSUME NEW f \in Frame
  PROVE  [i \in 1 .. DataMax |-> IF i <= f.len THEN f.data[i] ELSE 0] \in Data
<1>1. f.len \in 0 .. 15 /\ f.data \in Data
  BY InFrame
<1>2. 0 \in Byte
  BY DEF Byte
<1> QED
  BY <1>1, <1>2 DEF Data

\* After the first half of a read the driver has the identifier of the buffer.
LEMMA ReadHeadType ==
  ASSUME NEW c, NEW b, c.rx[b] \in Frame, NEW o \in Slot
  PROVE  /\ ReadHead(c, b, o) \in Frame
         /\ ReadHead(c, b, o).id = c.rx[b].id
         /\ ReadHead(c, b, o).ext = c.rx[b].ext
<1> DEFINE f == c.rx[b]
           h == ReadId(WriteId(f.ext, f.id))
<1>1. f \in Frame
  OBVIOUS
<1> HIDE DEF f
<1>2. f.ext \in BOOLEAN /\ f.id \in CanId(f.ext)
  BY <1>1, InFrame
<1>3. h = [ext |-> f.ext, id |-> f.id]
  BY <1>2, IdRoundTrip, Zenon
<1>4. ReadHead(c, b, o) = [o EXCEPT !.id = h.id, !.ext = h.ext]
  BY Zenon DEF ReadHead, f
<1> HIDE DEF h
<1>5. ReadHead(c, b, o) = [id |-> f.id, ext |-> f.ext, len |-> o.len, data |-> o.data]
  BY <1>3, <1>4, SlotFields
<1>6. [id |-> f.id, ext |-> f.ext, len |-> o.len, data |-> o.data] \in Frame
  BY <1>2, SlotFields, FrameFields, Zenon
<1> QED
  BY <1>5, <1>6 DEF f

\* After the second half readMsgBufID hands out the frame whole, zero behind its end.
LEMMA ReadBodyType ==
  ASSUME NEW c, NEW b, c.rx[b] \in Frame, NEW o \in Slot,
         o.id = c.rx[b].id, o.ext = c.rx[b].ext
  PROVE  /\ ReadBody(c, b, o) \in Frame
         /\ Copy(ReadBody(c, b, o)) =
              [id |-> c.rx[b].id, dlc |-> c.rx[b].len,
               data |-> [i \in 1 .. DataMax |->
                           IF i <= c.rx[b].len THEN c.rx[b].data[i] ELSE 0]]
<1> DEFINE f == c.rx[b]
           data == [i \in 1 .. DataMax |->
                      IF i <= f.len THEN f.data[i] ELSE o.data[i]]
<1>1. f \in Frame /\ o.id = f.id /\ o.ext = f.ext
  OBVIOUS
<1>2. ReadBody(c, b, o) = [o EXCEPT !.len = f.len, !.data = data]
  BY Zenon DEF ReadBody
<1> HIDE DEF f
<1>3. f.ext \in BOOLEAN /\ f.id \in CanId(f.ext) /\ f.len \in 0 .. 15 /\ f.data \in Data
  BY <1>1, InFrame
<1>4. data \in Data
  BY <1>3, SlotFields, ControllerAssumption DEF Data
<1>5. \A i \in 1 .. DataMax : i <= f.len => data[i] = f.data[i]
  OBVIOUS
<1> HIDE DEF data
<1>6. ReadBody(c, b, o) = [id |-> f.id, ext |-> f.ext, len |-> f.len, data |-> data]
  BY <1>1, <1>2, SlotFields
<1>7. [id |-> f.id, ext |-> f.ext, len |-> f.len, data |-> data] \in Frame
  BY <1>3, <1>4, FrameFields, Zenon
<1>8. Copy(ReadBody(c, b, o)) =
        [id |-> f.id, dlc |-> f.len,
         data |-> [i \in 1 .. DataMax |-> IF i <= f.len THEN data[i] ELSE 0]]
  BY <1>6 DEF Copy
<1>9. [i \in 1 .. DataMax |-> IF i <= f.len THEN data[i] ELSE 0]
        = [i \in 1 .. DataMax |-> IF i <= f.len THEN f.data[i] ELSE 0]
  BY <1>5
<1> QED
  BY <1>6, <1>7, <1>8, <1>9 DEF f

\* The two halves together.
LEMMA ReadAllType ==
  ASSUME NEW c, NEW b, c.rx[b] \in Frame, NEW o \in Slot
  PROVE  /\ ReadAll(c, b, o) \in Frame
         /\ Copy(ReadAll(c, b, o)) =
              [id |-> c.rx[b].id, dlc |-> c.rx[b].len,
               data |-> [i \in 1 .. DataMax |->
                           IF i <= c.rx[b].len THEN c.rx[b].data[i] ELSE 0]]
<1> DEFINE h == ReadHead(c, b, o)
<1>1. h \in Frame /\ h.id = c.rx[b].id /\ h.ext = c.rx[b].ext
  BY ReadHeadType, Zenon
<1> HIDE DEF h
<1>2. h \in Slot
  BY <1>1, InFrame
<1>3. ReadAll(c, b, o) = ReadBody(c, b, h)
  BY DEF ReadAll, h
<1> QED
  BY <1>1, <1>2, <1>3, ReadBodyType

\* setMsg cuts the length off at what a frame can hold.
LEMMA SetMsgType ==
  ASSUME NEW o, NEW id \in CanId(FALSE), NEW len \in Nat, len >= DataMax,
         NEW data \in Data
  PROVE  /\ SetMsg(o, id, len, data)
              = [id |-> id, ext |-> FALSE, len |-> DataMax, data |-> data]
         /\ SetMsg(o, id, len, data) \in Frame
<1>1. (IF len < DataMax THEN len ELSE DataMax) = DataMax
  BY ControllerAssumption
<1>2. [i \in 1 .. DataMax |-> IF i <= DataMax THEN data[i] ELSE o.data[i]] = data
  BY ControllerAssumption DEF Data
<1>3. SetMsg(o, id, len, data) = [id |-> id, ext |-> FALSE, len |-> DataMax, data |-> data]
  BY <1>1, <1>2 DEF SetMsg
<1>4. DataMax \in 0 .. 15
  BY ControllerAssumption
<1>5. [id |-> id, ext |-> FALSE, len |-> DataMax, data |-> data] \in Frame
  BY <1>4, FrameFields
<1> QED
  BY <1>3, <1>5

\* The first loop of sendMsg chooses a free buffer, goes on looking or gives up.
LEMMA PollType ==
  ASSUME NEW c \in Chip, NEW s \in SendType, s.polls < TimeoutValue,
         s.at = "poll"
  PROVE  /\ Poll(c, s) \in SendType /\ Poll(c, s).polls < TimeoutValue
         /\ Poll(c, s) = NotSending \/ Poll(c, s).at \in {"poll", "write"}
         /\ Poll(c, s).at = "write" => ~c.tx[Poll(c, s).buf].req
<1>1. NotSending \in SendType /\ NotSending.polls < TimeoutValue
      /\ NotSending.at = "off"
  BY ControllerAssumption DEF NotSending, SendType
<1>2. CASE s.polls + 1 = TimeoutValue
  BY <1>1, <1>2 DEF Poll
<1>3. CASE s.polls + 1 # TimeoutValue /\ FreeBuffer(c) = {}
  <2> DEFINE t == [s EXCEPT !.polls = @ + 1]
  <2>1. t \in SendType /\ t.polls < TimeoutValue /\ t.at = "poll"
    BY <1>3, ControllerAssumption DEF SendType
  <2>2. Poll(c, s) = t
    BY <1>3 DEF Poll
  <2> QED
    BY <2>1, <2>2
<1>4. CASE s.polls + 1 # TimeoutValue /\ FreeBuffer(c) # {}
  <2> DEFINE b == CHOOSE b \in FreeBuffer(c) : TRUE
  <2>1. b \in FreeBuffer(c)
    BY <1>4
  <2>2. Poll(c, s) = [at |-> "write", buf |-> b, polls |-> 0]
    BY <1>4 DEF Poll
  <2> HIDE DEF b
  <2>3. b \in 0 .. 2 /\ ~c.tx[b].req
    BY <2>1 DEF FreeBuffer
  <2> QED
    BY <2>2, <2>3, ControllerAssumption DEF SendType
<1> QED
  BY <1>2, <1>3, <1>4

\* The second loop goes on waiting, or ends.
LEMMA WaitType ==
  ASSUME NEW c, NEW s \in SendType, s.polls < TimeoutValue, s.at = "wait"
  PROVE  /\ Wait(c, s) \in SendType /\ Wait(c, s).polls < TimeoutValue
         /\ Wait(c, s) = NotSending \/ Wait(c, s).at = "wait"
<1>1. NotSending \in SendType /\ NotSending.polls < TimeoutValue
  BY ControllerAssumption DEF NotSending, SendType
<1>2. CASE s.polls + 1 = TimeoutValue \/ ~c.tx[s.buf].req
  BY <1>1, <1>2 DEF Wait
<1>3. CASE ~(s.polls + 1 = TimeoutValue \/ ~c.tx[s.buf].req)
  <2>1. s.polls + 1 # TimeoutValue
    BY <1>3
  <2> DEFINE t == [s EXCEPT !.polls = @ + 1]
  <2>2. t \in SendType /\ t.polls < TimeoutValue /\ t.at = "wait"
    BY <2>1, ControllerAssumption DEF SendType
  <2>3. Wait(c, s) = t
    BY <1>3, Zenon DEF Wait
  <2> QED
    BY <2>2, <2>3
<1> QED
  BY <1>2, <1>3

\* After the write sendMsg waits.
LEMMA WrittenType ==
  ASSUME NEW s \in SendType, s.polls < TimeoutValue
  PROVE  /\ Written(s) \in SendType /\ Written(s).polls < TimeoutValue
         /\ Written(s).at = "wait" /\ Written(s) # NotSending
BY DEF Written, SendType, NotSending

\* sendMsg begins by looking for a buffer.
LEMMA PollingType ==
  /\ Polling \in SendType /\ Polling.polls < TimeoutValue
  /\ Polling.at = "poll" /\ Polling # NotSending
BY ControllerAssumption DEF Polling, SendType, NotSending

\* sendMsg that has not been called.
LEMMA NotSendingType ==
  /\ NotSending \in SendType /\ NotSending.polls < TimeoutValue
  /\ NotSending.at = "off"
BY ControllerAssumption DEF SendType, NotSending

\* The two halves of the type invariant.
ChipTypes ==
  /\ mChip \in Chip /\ mCan \in Slot
  /\ mPc \in {"begin", "enter", "leave", "idle", "head", "body", "release",
              "copy"}
  /\ mSetup \in 0 .. 5 /\ mBuf \in 0 .. 1
  /\ irq \in BOOLEAN /\ refused \in BOOLEAN /\ refusals \in 0 .. MaxRefusals
  /\ mSend \in SendType

GhostTypes ==
  /\ \A i \in DOMAIN handled : handled[i].id \in CanId(TRUE)
  /\ held \in [0 .. 1 -> 0 .. Len(mSent)]
  /\ rolled \subseteq DOMAIN mSent /\ dropped \subseteq DOMAIN mSent

\* The number of the frame being read.
Last == taken[Len(taken)]

\* What process_rx_frame is given.
AnyId   == CanId(TRUE)
Handled == [id : AnyId, dlc : 0 .. 15, data : Data]

\* Nothing is found without being handled, one frame at a time.
SeqInv ==
  /\ mSent \in Seq(Frame)
  /\ taken \in Seq(Nat)
  /\ handled \in Seq(Handled)
  /\ Len(taken) = Len(handled) + (IF Reading THEN 1 ELSE 0)

\* The report interrupt comes only between two frames of the main loop.
SendInv ==
  /\ mSend = NotSending \/ mSend.at \in {"poll", "write", "wait"}
  /\ mSend.polls < TimeoutValue
  /\ mSend # NotSending => mPc = "idle" /\ ~irq /\ mCan \in Frame
  /\ irq => ~Reading

\* The fields of the driver hold what has been read of the frame so far.
ReadInv ==
  /\ InBuffer => mChip.rx[mBuf] # NoFrame /\ held[mBuf] = Last
  /\ mPc = "body" => /\ mCan.id = mSent[Last].id
                     /\ mCan.ext = mSent[Last].ext
  /\ mPc \in {"release", "copy"} => Copy(mCan) = Arrived(Last)

HoldInv ==
  /\ \A b \in 0 .. 1 : FullBuffer(b) =>
       held[b] \in 1 .. Len(mSent) /\ mChip.rx[b] = mSent[held[b]]
  /\ FullBuffer(0) /\ FullBuffer(1) => held[0] # held[1]
  /\ \A i \in 1 .. Len(taken) : taken[i] \in 1 .. Len(mSent)
  /\ \A i, j \in 1 .. Len(taken) : taken[i] = taken[j] => i = j
  /\ \A b \in 0 .. 1 : Waiting(b) =>
       \A i \in 1 .. Len(taken) : taken[i] # held[b]
  /\ \A i \in 1 .. Len(handled) : handled[i] = Arrived(taken[i])

\* Every frame found is older than the one waiting in buffer 0, and those
\* that went to buffer 1 are older than the one waiting there.
OrderInv ==
  /\ \A b \in 0 .. 1 : FullBuffer(b) => (held[b] \in rolled <=> b = 1)
  /\ rolled \subseteq 1 .. Len(mSent)
  /\ Waiting(0) => \A i \in 1 .. Len(taken) : taken[i] < held[0]
  /\ Waiting(1) => \A i \in 1 .. Len(taken) :
                     taken[i] \in rolled => taken[i] < held[1]
  /\ OvertakenOnlyInBuffer1

\* The calls of SetupCalls whose write has been made.
Calls == mSetup + (IF mPc = "leave" THEN 1 ELSE 0)

BlockMask   == WriteId(FALSE, 2032)
OwnFilter   == WriteId(FALSE, OwnIndex)
FaultFilter == WriteId(FALSE, FaultIndex)

\* Unless the chip refuses, every call behind the program has been carried out.
SetupInv ==
  /\ mPc = "begin" => mSetup = 0
  /\ mPc \in {"enter", "leave"} => mSetup < 5
  /\ ~Starting => mSetup = 5
  /\ ~refused =>
       /\ Calls >= 1 => mChip.mask[0] = BlockMask
       /\ Calls >= 2 => mChip.filt[0] = OwnFilter
       /\ Calls >= 3 => mChip.filt[1] = FaultFilter
       /\ ~Starting => mChip.mode = "normal"

VanishInv ==
  /\ Starting => DOMAIN mSent \subseteq dropped
  /\ dropped \subseteq 1 .. Len(mSent)
  /\ NothingVanishes

ModuleInv ==
  /\ ChipTypes /\ GhostTypes
  /\ SeqInv /\ SendInv /\ ReadInv /\ HoldInv /\ OrderInv /\ SetupInv /\ VanishInv

--------------------------------------------------------------------------

\* init.cpp makes five calls.
LEMMA FiveCalls == Len(SetupCalls) = 5
BY DEF SetupCalls

\* What the parts of the invariant say of the numbers in use.
LEMMA Numbers ==
  ASSUME SeqInv
  PROVE  /\ Len(mSent) \in Nat /\ DOMAIN mSent = 1 .. Len(mSent)
         /\ Len(taken) \in Nat /\ DOMAIN taken = 1 .. Len(taken)
         /\ Len(handled) \in Nat /\ DOMAIN handled = 1 .. Len(handled)
         /\ (Reading => Len(taken) = Len(handled) + 1)
         /\ (~Reading => Len(taken) = Len(handled))
         /\ Len(handled) <= Len(taken)
<1>1. CASE Reading
  BY <1>1 DEF SeqInv
<1>2. CASE ~Reading
  BY <1>2 DEF SeqInv
<1> QED
  BY <1>1, <1>2

\* The two halves make up the type invariant.
LEMMA TwoTypes == ModuleTypeOK <=> ChipTypes /\ GhostTypes
BY FiveCalls DEF ModuleTypeOK, ChipTypes, GhostTypes, SendType

\* A step that notes nothing keeps the types of the notes.
LEMMA SameGhostTypes ==
  ASSUME GhostTypes, UNCHANGED ghosts
  PROVE  GhostTypes'
BY DEF GhostTypes, ghosts

\* A step of the driver that neither takes a frame from the chip nor hears one.
LEMMA SameFrames ==
  ASSUME HoldInv, OrderInv, UNCHANGED ghosts, mChip'.rx = mChip.rx,
         \A b \in 0 .. 1 : Waiting(b)' => Waiting(b)
  PROVE  HoldInv' /\ OrderInv'
<1>0. /\ taken' = taken /\ handled' = handled /\ mSent' = mSent
      /\ held' = held /\ rolled' = rolled
  BY DEF ghosts
<1>1. \A b \in 0 .. 1 : FullBuffer(b)' = FullBuffer(b)
  BY DEF FullBuffer
<1>2. \A n : Arrived(n)' = Arrived(n)
  BY <1>0 DEF Arrived
<1>3. HoldInv'
  BY <1>0, <1>1, <1>2 DEF HoldInv
<1>4. OrderInv'
  BY <1>0, <1>1 DEF OrderInv, OvertakenOnlyInBuffer1
<1> QED
  BY <1>3, <1>4

\* A step that leaves receive buffers and notes alone loses no frame.
LEMMA SameKept ==
  ASSUME VanishInv, UNCHANGED ghosts, mChip'.rx = mChip.rx,
         Starting' => Starting, refused => refused'
  PROVE  VanishInv'
<1>0. /\ taken' = taken /\ mSent' = mSent /\ held' = held /\ dropped' = dropped
  BY DEF ghosts
<1>1. Kept' = Kept
  BY <1>0 DEF Kept
<1> QED
  BY <1>0, <1>1 DEF VanishInv, NothingVanishes, Own

\* Starting over: the chip is reset, and nothing in it is kept.
LEMMA BeginStep ==
  ASSUME ModuleInv, Begin
  PROVE  ModuleInv'
<1> DEFINE r == Reset(mChip.filt)
<1>0. /\ mPc = "begin" /\ mPc' \in {"begin", "enter"}
      /\ \/ mChip' = SetMode(r, "normal") /\ mPc' = "enter"
         \/ mChip' = r /\ mPc' = "begin"
      /\ \/ refusals' = refusals
         \/ refusals > 0 /\ refusals' = refusals - 1
      /\ UNCHANGED <<mCan, mSetup, mBuf, irq, mSend, refused>>
      /\ UNCHANGED ghosts
  BY DEF Begin, Refuse
<1>1. r \in Chip /\ r.mode = "config" /\ \A b \in 0 .. 1 : r.rx[b] = NoFrame
  <2>1. mChip.filt \in [0 .. 5 -> IdRegisters]
    BY DEF ModuleInv, ChipTypes, Chip
  <2> QED
    BY <2>1, ResetType DEF Reset
<1> HIDE DEF r
<1>2. mChip' \in Chip /\ \A b \in 0 .. 1 : mChip'.rx[b] = NoFrame
  BY <1>0, <1>1, SetModeType
<1>3. ChipTypes'
  BY <1>0, <1>2, ModuleAssumption DEF ModuleInv, ChipTypes
<1>4. GhostTypes' /\ SeqInv' /\ SendInv' /\ ReadInv'
  BY <1>0, SameGhostTypes
  DEF ModuleInv, SeqInv, SendInv, ReadInv, Reading, InBuffer, ghosts
<1>5. HoldInv' /\ OrderInv'
  <2>0. /\ taken' = taken /\ handled' = handled /\ mSent' = mSent
        /\ held' = held /\ rolled' = rolled
    BY <1>0 DEF ghosts
  <2>1. \A b \in 0 .. 1 : ~FullBuffer(b)' /\ ~Waiting(b)'
    BY <1>2 DEF FullBuffer, Waiting
  <2>2. \A n : Arrived(n)' = Arrived(n)
    BY <2>0 DEF Arrived
  <2> QED
    BY <2>0, <2>1, <2>2 DEF ModuleInv, HoldInv, OrderInv, OvertakenOnlyInBuffer1
<1>6. SetupInv'
  BY <1>0 DEF ModuleInv, SetupInv, Calls, Starting
<1>7. VanishInv'
  BY <1>0 DEF ModuleInv, VanishInv, NothingVanishes, Starting, ghosts
<1> QED
  BY <1>3, <1>4, <1>5, <1>6, <1>7 DEF ModuleInv

\* The registers the start-up writes.
LEMMA SetupRegisters ==
  ASSUME NEW n \in 0 .. 4, NEW c \in Chip
  PROVE  LET d == WriteRegister(c, SetupCalls[n + 1])
         IN  /\ d \in Chip /\ d.rx = c.rx /\ d.tx = c.tx
             /\ d.mask[0] = IF n = 0 THEN BlockMask ELSE c.mask[0]
             /\ d.filt[0] = IF n = 1 THEN OwnFilter ELSE c.filt[0]
             /\ d.filt[1] = IF n = 2 THEN FaultFilter ELSE c.filt[1]
<1> DEFINE all == 2047
           block == 2032
           m1 == WriteId(FALSE, all)
           disable == WriteId(TRUE, DisableId)
<1>1. block \in CanId(FALSE)
  BY SMT DEF CanId
<1>1a. all \in CanId(FALSE)
  BY SMT DEF CanId
<1>1b. FaultIndex \in CanId(FALSE)
  BY SMT DEF CanId, FaultIndex
<1>1c. OwnIndex \in CanId(FALSE) /\ DisableId \in CanId(FALSE)
  BY ModuleAssumption, SMT DEF CanId, DisableId
<1>2. BlockMask \in IdRegisters /\ OwnFilter \in IdRegisters /\ FaultFilter \in IdRegisters
  <2>0. BlockMask = WriteId(FALSE, block)
    BY SMT DEF BlockMask
  <2> HIDE DEF block
  <2>1. BlockMask \in IdRegisters
    BY <1>1, <2>0, StandardRegisters, Zenon
  <2>2. OwnFilter \in IdRegisters
    BY <1>1c, StandardRegisters, Zenon DEF OwnFilter
  <2>3. FaultFilter \in IdRegisters
    BY <1>1b, StandardRegisters, Zenon DEF FaultFilter
  <2> QED
    BY <2>1, <2>2, <2>3, Zenon
<1>3. m1 \in IdRegisters
  <2> HIDE DEF all
  <2> QED
    BY <1>1a, StandardRegisters, Zenon
<1>4. disable \in IdRegisters
  <2>1. DisableId \in CanId(TRUE)
    BY <1>1c, StandardWider, Zenon
  <2>2. TRUE \in BOOLEAN
    OBVIOUS
  <2> QED
    BY <2>1, <2>2, WriteIdType, Zenon
<1>5. /\ WriteRegister(c, [reg |-> "mask", num |-> 0, ext |-> FALSE, id |-> 2032])
           = [c EXCEPT !.mask[0] = BlockMask]
      /\ WriteRegister(c, [reg |-> "filt", num |-> 0, ext |-> FALSE, id |-> OwnIndex])
           = [c EXCEPT !.filt[0] = OwnFilter]
      /\ WriteRegister(c, [reg |-> "filt", num |-> 1, ext |-> FALSE, id |-> FaultIndex])
           = [c EXCEPT !.filt[1] = FaultFilter]
      /\ WriteRegister(c, [reg |-> "mask", num |-> 1, ext |-> FALSE, id |-> 2047])
           = [c EXCEPT !.mask[1] = m1]
      /\ WriteRegister(c, [reg |-> "filt", num |-> 2, ext |-> TRUE, id |-> DisableId])
           = [c EXCEPT !.filt[2] = disable]
  BY DEF WriteRegister, BlockMask, OwnFilter, FaultFilter
<1> HIDE DEF m1, disable
<1>6. CASE n = 0
  <2>1. WriteRegister(c, SetupCalls[n + 1]) = [c EXCEPT !.mask[0] = BlockMask]
    BY <1>5, <1>6 DEF SetupCalls
  <2> QED
    BY <1>2, <1>6, <2>1 DEF Chip
<1>7. CASE n = 1
  <2>1. WriteRegister(c, SetupCalls[n + 1]) = [c EXCEPT !.filt[0] = OwnFilter]
    BY <1>5, <1>7 DEF SetupCalls
  <2> QED
    BY <1>2, <1>7, <2>1 DEF Chip
<1>8. CASE n = 2
  <2>1. WriteRegister(c, SetupCalls[n + 1]) = [c EXCEPT !.filt[1] = FaultFilter]
    BY <1>5, <1>8 DEF SetupCalls
  <2> QED
    BY <1>2, <1>8, <2>1 DEF Chip
<1>9. CASE n = 3
  <2>1. WriteRegister(c, SetupCalls[n + 1]) = [c EXCEPT !.mask[1] = m1]
    BY <1>5, <1>9 DEF SetupCalls
  <2> QED
    BY <1>3, <1>9, <2>1 DEF Chip
<1>10. CASE n = 4
  <2>1. WriteRegister(c, SetupCalls[n + 1]) = [c EXCEPT !.filt[2] = disable]
    BY <1>5, <1>10 DEF SetupCalls
  <2> QED
    BY <1>4, <1>10, <2>1 DEF Chip
<1> QED
  BY <1>6, <1>7, <1>8, <1>9, <1>10

\* A register is written, or the chip refuses and the call is skipped.
LEMMA EnterConfigStep ==
  ASSUME ModuleInv, EnterConfig
  PROVE  ModuleInv'
<1> DEFINE c == SetMode(mChip, "config")
           d == WriteRegister(c, SetupCalls[mSetup + 1])
<1>0. /\ mPc = "enter" /\ UNCHANGED <<mCan, mBuf, irq, mSend>> /\ UNCHANGED ghosts
      /\ \/ /\ mChip' = d /\ mPc' = "leave"
            /\ UNCHANGED <<mSetup, refusals, refused>>
         \/ /\ refusals > 0 /\ refusals' = refusals - 1
            /\ mSetup' = mSetup + 1 /\ mPc' = AfterCall /\ refused' = TRUE
            /\ mChip' = mChip
  BY DEF EnterConfig, Refuse
<1>1. mSetup \in 0 .. 4
  BY <1>0, FiveCalls DEF ModuleInv, ChipTypes, SetupInv
<1>2. /\ mChip \in Chip /\ c \in Chip /\ c.rx = mChip.rx /\ c.mask = mChip.mask
      /\ c.filt = mChip.filt
  BY SetModeType DEF ModuleInv, ChipTypes
<1> HIDE DEF c
<1>3. /\ d \in Chip /\ d.rx = mChip.rx
      /\ d.mask[0] = IF mSetup = 0 THEN BlockMask ELSE mChip.mask[0]
      /\ d.filt[0] = IF mSetup = 1 THEN OwnFilter ELSE mChip.filt[0]
      /\ d.filt[1] = IF mSetup = 2 THEN FaultFilter ELSE mChip.filt[1]
  BY <1>1, <1>2, SetupRegisters
<1> HIDE DEF d
<1>4. AfterCall \in {"idle", "enter"} /\ (AfterCall = "idle" <=> mSetup' = 5)
  BY FiveCalls DEF AfterCall
<1>5. mPc' \in {"leave", "enter", "idle"} /\ mChip' \in Chip /\ mChip'.rx = mChip.rx
  BY <1>0, <1>2, <1>3, <1>4
<1>6. ChipTypes'
  <2>1. mSetup' \in 0 .. 5
    BY <1>0, <1>1
  <2>2. refusals' \in 0 .. MaxRefusals
    BY <1>0, ModuleAssumption DEF ModuleInv, ChipTypes
  <2>3. refused' \in BOOLEAN
    BY <1>0, Zenon DEF ModuleInv, ChipTypes
  <2> QED
    BY <1>0, <1>5, <2>1, <2>2, <2>3 DEF ModuleInv, ChipTypes
<1>7. GhostTypes' /\ SeqInv' /\ SendInv' /\ ReadInv'
  BY <1>0, <1>5, SameGhostTypes
  DEF ModuleInv, SeqInv, SendInv, ReadInv, Reading, InBuffer, ghosts
<1>8. HoldInv' /\ OrderInv'
  BY <1>0, <1>5, SameFrames DEF ModuleInv, Waiting, FullBuffer, InBuffer
<1>9. SetupInv'
  <2>1. CASE mChip' = d /\ mPc' = "leave" /\ UNCHANGED <<mSetup, refusals, refused>>
    BY <1>0, <1>1, <1>3, <2>1 DEF ModuleInv, SetupInv, Calls, Starting
  <2>2. CASE mSetup' = mSetup + 1 /\ mPc' = AfterCall /\ refused' = TRUE
    BY <1>0, <1>1, <1>4, <2>2 DEF ModuleInv, SetupInv, Calls, Starting
  <2> QED
    BY <1>0, <2>1, <2>2
<1>10. VanishInv'
  BY <1>0, <1>5, SameKept DEF ModuleInv, ChipTypes, Starting
<1> QED
  BY <1>6, <1>7, <1>8, <1>9, <1>10 DEF ModuleInv

\* The chip is back in normal mode, or refuses and nobody notices.
LEMMA LeaveConfigStep ==
  ASSUME ModuleInv, LeaveConfig
  PROVE  ModuleInv'
<1> DEFINE c == SetMode(mChip, "normal")
<1>0. /\ mPc = "leave" /\ UNCHANGED <<mCan, mBuf, irq, mSend>> /\ UNCHANGED ghosts
      /\ mSetup' = mSetup + 1 /\ mPc' = AfterCall
      /\ \/ mChip' = c /\ UNCHANGED <<refusals, refused>>
         \/ refusals > 0 /\ refusals' = refusals - 1 /\ refused' = TRUE /\ mChip' = mChip
  BY DEF LeaveConfig, Refuse
<1>1. mSetup \in 0 .. 4
  BY <1>0, FiveCalls DEF ModuleInv, ChipTypes, SetupInv
<1>2. /\ mChip \in Chip /\ c \in Chip /\ c.rx = mChip.rx /\ c.mask = mChip.mask
      /\ c.filt = mChip.filt /\ c.mode = "normal"
  BY SetModeType DEF ModuleInv, ChipTypes
<1> HIDE DEF c
<1>4. AfterCall \in {"idle", "enter"} /\ (AfterCall = "idle" <=> mSetup' = 5)
  BY FiveCalls DEF AfterCall
<1>5. mPc' \in {"enter", "idle"} /\ mChip' \in Chip /\ mChip'.rx = mChip.rx
  BY <1>0, <1>2, <1>4
<1>6. ChipTypes'
  <2>1. mSetup' \in 0 .. 5
    BY <1>0, <1>1
  <2>2. refusals' \in 0 .. MaxRefusals
    BY <1>0, ModuleAssumption DEF ModuleInv, ChipTypes
  <2>3. refused' \in BOOLEAN
    BY <1>0, Zenon DEF ModuleInv, ChipTypes
  <2> QED
    BY <1>0, <1>5, <2>1, <2>2, <2>3 DEF ModuleInv, ChipTypes
<1>7. GhostTypes' /\ SeqInv' /\ SendInv' /\ ReadInv'
  BY <1>0, <1>5, SameGhostTypes
  DEF ModuleInv, SeqInv, SendInv, ReadInv, Reading, InBuffer, ghosts
<1>8. HoldInv' /\ OrderInv'
  BY <1>0, <1>5, SameFrames DEF ModuleInv, Waiting, FullBuffer, InBuffer
<1>9. SetupInv'
  <2>1. CASE mChip' = c /\ UNCHANGED <<refusals, refused>>
    BY <1>0, <1>1, <1>2, <1>4, <2>1 DEF ModuleInv, SetupInv, Calls, Starting
  <2>2. CASE refused' = TRUE
    BY <1>0, <1>1, <1>4, <2>2 DEF ModuleInv, SetupInv, Calls, Starting
  <2> QED
    BY <1>0, <2>1, <2>2
<1>10. VanishInv'
  BY <1>0, <1>5, SameKept DEF ModuleInv, ChipTypes, Starting
<1> QED
  BY <1>6, <1>7, <1>8, <1>9, <1>10 DEF ModuleInv

\* A full buffer holds a frame.
LEMMA BufferFrames ==
  ASSUME ChipTypes, NEW b \in 0 .. 1, FullBuffer(b)
  PROVE  mChip.rx[b] \in Frame
BY DEF ChipTypes, Chip, Slot, FullBuffer

\* A step that takes a frame out of no place without putting it in another.
LEMMA KeptGrows ==
  ASSUME VanishInv, mSent' = mSent, dropped' = dropped,
         Starting' => Starting, refused => refused', Kept \subseteq Kept'
  PROVE  VanishInv'
BY DEF VanishInv, NothingVanishes, Own

\* readMsg finds the frame of buffer 0, or that of buffer 1 if it is alone.
LEMMA CheckForRxFrameStep ==
  ASSUME ModuleInv, CheckForRxFrame
  PROVE  ModuleInv'
<1>1. PICK b \in Pending(mChip) : Taken(b)
  BY DEF CheckForRxFrame
<1>2. /\ b \in 0 .. 1 /\ FullBuffer(b)
      /\ b = 1 => ~FullBuffer(0)
  BY DEF Pending, FullBuffer
<1>3. /\ mPc = "idle" /\ mPc' = "head" /\ mSend = NotSending /\ irq' = FALSE
      /\ UNCHANGED <<mChip, mCan, mSetup, mSend, refusals, refused>>
  BY DEF CheckForRxFrame, Main
<1>4. /\ mBuf' = b /\ taken' = Append(taken, held[b])
      /\ UNCHANGED <<handled, mSent, held, rolled, dropped>>
  BY <1>1 DEF Taken
<1>5. ~Reading /\ Reading' /\ ~InBuffer /\ InBuffer'
  BY <1>3 DEF Reading, InBuffer
<1>6. /\ Len(mSent) \in Nat /\ Len(taken) \in Nat /\ taken \in Seq(Nat)
      /\ Len(handled) = Len(taken)
  BY <1>5, Numbers DEF ModuleInv, SeqInv
<1>7. held[b] \in 1 .. Len(mSent) /\ held[b] \in Nat
  BY <1>2, <1>6 DEF ModuleInv, HoldInv
<1>8. /\ taken' \in Seq(Nat) /\ Len(taken') = Len(taken) + 1
      /\ taken'[Len(taken) + 1] = held[b]
      /\ \A i \in 1 .. Len(taken) : taken'[i] = taken[i]
  BY <1>4, <1>6, <1>7
<1>9. /\ \A a \in 0 .. 1 : FullBuffer(a)' = FullBuffer(a)
      /\ \A a \in 0 .. 1 : Waiting(a)' => a # b /\ Waiting(a)
      /\ \A a \in 0 .. 1 : FullBuffer(a) => Waiting(a)
  BY <1>3, <1>4, <1>5 DEF FullBuffer, Waiting
<1>10. \A i \in 1 .. Len(taken) : taken[i] # held[b]
  BY <1>2, <1>9 DEF ModuleInv, HoldInv
<1>11. ChipTypes' /\ GhostTypes'
  BY <1>2, <1>3, <1>4 DEF ModuleInv, ChipTypes, GhostTypes
<1>12. SeqInv' /\ SendInv' /\ ReadInv'
  <2>1. SeqInv'
    BY <1>4, <1>5, <1>6, <1>8 DEF ModuleInv, SeqInv
  <2>2. SendInv'
    BY <1>3 DEF ModuleInv, SendInv
  <2>3. ReadInv'
    BY <1>2, <1>3, <1>4, <1>6, <1>8 DEF ReadInv, Last, FullBuffer
  <2> QED
    BY <2>1, <2>2, <2>3
<1>13. HoldInv'
  <2>1. \A a \in 0 .. 1 : FullBuffer(a)' =>
          held'[a] \in 1 .. Len(mSent') /\ mChip'.rx[a] = mSent'[held'[a]]
    BY <1>3, <1>4, <1>9 DEF ModuleInv, HoldInv
  <2>2. FullBuffer(0)' /\ FullBuffer(1)' => held'[0] # held'[1]
    BY <1>4, <1>9 DEF ModuleInv, HoldInv
  <2>3. \A i \in 1 .. Len(taken') : taken'[i] \in 1 .. Len(mSent')
    BY <1>4, <1>6, <1>7, <1>8 DEF ModuleInv, HoldInv
  <2>4. \A i, j \in 1 .. Len(taken') : taken'[i] = taken'[j] => i = j
    BY <1>6, <1>8, <1>10 DEF ModuleInv, HoldInv
  <2>5. ASSUME NEW a \in 0 .. 1, Waiting(a)', NEW i \in 1 .. Len(taken')
        PROVE  taken'[i] # held'[a]
    <3>1. a # b /\ Waiting(a) /\ FullBuffer(a)
      BY <1>9, <2>5 DEF Waiting
    <3>2. held[a] # held[b]
      BY <1>2, <3>1 DEF ModuleInv, HoldInv
    <3>3. \A k \in 1 .. Len(taken) : taken[k] # held[a]
      BY <3>1 DEF ModuleInv, HoldInv
    <3> QED
      BY <1>4, <1>6, <1>8, <3>2, <3>3
  <2>6. \A i \in 1 .. Len(handled') : handled'[i] = Arrived(taken[i])'
    <3>1. \A n : Arrived(n)' = Arrived(n)
      BY <1>4 DEF Arrived
    <3> QED
      BY <1>4, <1>6, <1>8, <3>1 DEF ModuleInv, HoldInv
  <2> QED
    BY <2>1, <2>2, <2>3, <2>4, <2>5, <2>6 DEF HoldInv
<1>14. OrderInv'
  <2>1. \A a \in 0 .. 1 : FullBuffer(a)' => (held'[a] \in rolled' <=> a = 1)
    BY <1>4, <1>9 DEF ModuleInv, OrderInv
  <2>2. rolled' \subseteq 1 .. Len(mSent')
    BY <1>4 DEF ModuleInv, OrderInv
  <2>3. ~Waiting(0)'
    BY <1>2, <1>9 DEF Waiting
  <2>4. ASSUME Waiting(1)', NEW i \in 1 .. Len(taken'), taken'[i] \in rolled'
        PROVE  taken'[i] < held'[1]
    <3>1. b = 0 /\ Waiting(1)
      BY <1>2, <1>9, <2>4
    <3>2. held[b] \notin rolled
      BY <1>2, <3>1 DEF ModuleInv, OrderInv
    <3> QED
      BY <1>4, <1>6, <1>8, <2>4, <3>1, <3>2 DEF ModuleInv, OrderInv
  <2>5. OvertakenOnlyInBuffer1'
    <3> SUFFICES ASSUME NEW i \in 1 .. Len(taken'), NEW j \in 1 .. Len(taken'),
                        i < j, taken'[i] > taken'[j]
                 PROVE  taken'[j] \in rolled /\ taken'[i] \notin rolled
      BY <1>4, <1>8 DEF OvertakenOnlyInBuffer1
    <3>1. CASE j \in 1 .. Len(taken)
      <4>0. i \in 1 .. Len(taken)
        BY <1>6, <3>1
      <4>1. /\ i \in DOMAIN taken /\ j \in DOMAIN taken
            /\ taken'[i] = taken[i] /\ taken'[j] = taken[j]
        BY <1>6, <1>8, <3>1, <4>0
      <4> QED
        BY <4>1 DEF ModuleInv, OrderInv, OvertakenOnlyInBuffer1
    <3>2. CASE j = Len(taken) + 1
      <4>1. i \in 1 .. Len(taken) /\ taken[i] > held[b] /\ taken'[j] = held[b]
            /\ taken'[i] = taken[i] /\ taken[i] \in Nat
        BY <1>6, <1>8, <3>2
      <4>2. b = 1
        BY <1>2, <1>7, <1>9, <4>1 DEF ModuleInv, OrderInv
      <4>3. held[b] \in rolled
        BY <1>2, <4>2 DEF ModuleInv, OrderInv
      <4>4. taken[i] \notin rolled
        BY <1>2, <1>7, <1>9, <4>1, <4>2 DEF ModuleInv, OrderInv
      <4> QED
        BY <4>1, <4>3, <4>4
    <3> QED
      BY <1>6, <1>8, <3>1, <3>2
  <2> QED
    BY <2>1, <2>2, <2>3, <2>4, <2>5 DEF OrderInv
<1>15. SetupInv'
  BY <1>3 DEF ModuleInv, SetupInv, Calls, Starting
<1>16. VanishInv'
  <2>1. Kept \subseteq Kept'
    BY <1>3, <1>4, <1>6, <1>8 DEF Kept
  <2> QED
    BY <1>3, <1>4, <2>1, KeptGrows DEF ModuleInv, Starting
<1> QED
  BY <1>11, <1>12, <1>13, <1>14, <1>15, <1>16 DEF ModuleInv

\* While a frame is read, its number is known and its buffer holds it.
LEMMA InHand ==
  ASSUME ModuleInv, InBuffer
  PROVE  /\ mChip.rx[mBuf] \in Frame
         /\ mChip.rx[mBuf] = mSent[Last]
         /\ Last \in 1 .. Len(mSent)
<1>1. mBuf \in 0 .. 1 /\ FullBuffer(mBuf) /\ held[mBuf] = Last
  BY DEF ModuleInv, ChipTypes, ReadInv, FullBuffer
<1>2. mChip.rx[mBuf] \in Frame
  BY <1>1, BufferFrames DEF ModuleInv
<1> QED
  BY <1>1, <1>2 DEF ModuleInv, HoldInv

\* The identifier of the frame in hand is read.
LEMMA ReadCanMsgIdStep ==
  ASSUME ModuleInv, ReadCanMsgId
  PROVE  ModuleInv'
<1>0. /\ mPc = "head" /\ mPc' = "body" /\ mSend = NotSending
      /\ mCan' = ReadHead(mChip, mBuf, mCan)
      /\ UNCHANGED <<mChip, mSetup, mBuf, irq, mSend, refusals, refused>>
      /\ UNCHANGED ghosts
  BY DEF ReadCanMsgId, Main
<1>1. InBuffer /\ InBuffer' /\ Reading /\ Reading'
  BY <1>0 DEF InBuffer, Reading
<1>2. /\ mCan' \in Frame
      /\ mCan'.id = mSent[Last].id /\ mCan'.ext = mSent[Last].ext
  BY <1>0, <1>1, InHand, ReadHeadType DEF ModuleInv, ChipTypes
<1>3. Last' = Last /\ mSent' = mSent /\ held' = held
  BY <1>0 DEF Last, ghosts
<1>4. ChipTypes' /\ GhostTypes'
  BY <1>0, <1>2, InFrame, SameGhostTypes DEF ModuleInv, ChipTypes
<1>5. SeqInv' /\ SendInv'
  BY <1>0, <1>1 DEF ModuleInv, SeqInv, SendInv, ghosts
<1>6. ReadInv'
  BY <1>0, <1>1, <1>2, <1>3 DEF ModuleInv, ReadInv
<1>7. HoldInv' /\ OrderInv'
  BY <1>0, <1>1, SameFrames DEF ModuleInv, Waiting, FullBuffer
<1>8. SetupInv' /\ VanishInv'
  BY <1>0, SameKept DEF ModuleInv, SetupInv, Calls, Starting
<1> QED
  BY <1>4, <1>5, <1>6, <1>7, <1>8 DEF ModuleInv

\* Its length and its data are read: the driver has it whole.
LEMMA ReadCanMsgDataStep ==
  ASSUME ModuleInv, ReadCanMsgData
  PROVE  ModuleInv'
<1>0. /\ mPc = "body" /\ mPc' = "release" /\ mSend = NotSending
      /\ mCan' = ReadBody(mChip, mBuf, mCan)
      /\ UNCHANGED <<mChip, mSetup, mBuf, irq, mSend, refusals, refused>>
      /\ UNCHANGED ghosts
  BY DEF ReadCanMsgData, Main
<1>1. InBuffer /\ InBuffer' /\ Reading /\ Reading'
  BY <1>0 DEF InBuffer, Reading
<1>2. mCan.id = mChip.rx[mBuf].id /\ mCan.ext = mChip.rx[mBuf].ext
  BY <1>0, <1>1, InHand DEF ModuleInv, ReadInv
<1>3. mCan' \in Frame /\ Copy(mCan') = Arrived(Last)
  <2>1. mCan \in Slot
    BY DEF ModuleInv, ChipTypes
  <2> QED
    BY <1>0, <1>1, <1>2, <2>1, InHand, ReadBodyType DEF Arrived
<1>4. /\ Last' = Last /\ mSent' = mSent /\ held' = held
      /\ \A n : Arrived(n)' = Arrived(n)
  BY <1>0 DEF Last, Arrived, ghosts
<1>5. ChipTypes' /\ GhostTypes'
  BY <1>0, <1>3, InFrame, SameGhostTypes DEF ModuleInv, ChipTypes
<1>6. SeqInv' /\ SendInv'
  BY <1>0, <1>1 DEF ModuleInv, SeqInv, SendInv, ghosts
<1>7. ReadInv'
  <2>1. Arrived(Last)' = Arrived(Last)
    BY <1>0 DEF Last, Arrived, ghosts
  <2>2. Copy(mCan)' = Copy(mCan')
    BY DEF Copy
  <2> QED
    BY <1>0, <1>1, <1>3, <1>4, <2>1, <2>2 DEF ModuleInv, ReadInv
<1>8. HoldInv' /\ OrderInv'
  BY <1>0, <1>1, SameFrames DEF ModuleInv, Waiting, FullBuffer
<1>9. SetupInv' /\ VanishInv'
  BY <1>0, SameKept DEF ModuleInv, SetupInv, Calls, Starting
<1> QED
  BY <1>5, <1>6, <1>7, <1>8, <1>9 DEF ModuleInv

\* The buffer is free again; the frame is among those found.
LEMMA ClearFlagStep ==
  ASSUME ModuleInv, ClearFlag
  PROVE  ModuleInv'
<1>0. /\ mPc = "release" /\ mPc' = "copy" /\ mSend = NotSending
      /\ mChip' = Release(mChip, mBuf)
      /\ UNCHANGED <<mCan, mSetup, mBuf, irq, mSend, refusals, refused>>
      /\ taken' = taken /\ handled' = handled /\ mSent' = mSent
      /\ held' = held /\ rolled' = rolled /\ dropped' = dropped
  BY DEF ClearFlag, Main, ghosts
<1>1. InBuffer /\ ~InBuffer' /\ Reading /\ Reading'
  BY <1>0 DEF InBuffer, Reading
<1>2. mChip \in Chip /\ mBuf \in 0 .. 1
  BY DEF ModuleInv, ChipTypes
<1>3. /\ mChip' \in Chip /\ mChip'.mode = mChip.mode
      /\ mChip'.mask = mChip.mask /\ mChip'.filt = mChip.filt
      /\ mChip'.rx[mBuf] = NoFrame
      /\ \A a \in (0 .. 1) \ {mBuf} : mChip'.rx[a] = mChip.rx[a]
  BY <1>0, <1>2, ReleaseType
<1>4. \A a \in 0 .. 1 : FullBuffer(a)' =>
        FullBuffer(a) /\ mChip'.rx[a] = mChip.rx[a] /\ a # mBuf
  BY <1>0, <1>3 DEF FullBuffer
<1>5. \A a \in 0 .. 1 : Waiting(a)' => Waiting(a)
  BY <1>4 DEF Waiting
<1>6. \A n : Arrived(n)' = Arrived(n)
  BY <1>0 DEF Arrived
<1>7. ChipTypes' /\ GhostTypes'
  BY <1>0, <1>3 DEF ModuleInv, ChipTypes, GhostTypes
<1>8. SeqInv' /\ SendInv'
  BY <1>0, <1>1 DEF ModuleInv, SeqInv, SendInv
<1>9. ReadInv'
  <2>1. Arrived(Last)' = Arrived(Last) /\ Copy(mCan)' = Copy(mCan)
    BY <1>0 DEF Last, Arrived, Copy
  <2> QED
    BY <1>0, <1>1, <2>1 DEF ModuleInv, ReadInv
<1>10. HoldInv'
  BY <1>0, <1>4, <1>5, <1>6 DEF ModuleInv, HoldInv
<1>11. OrderInv'
  BY <1>0, <1>4, <1>5 DEF ModuleInv, OrderInv, OvertakenOnlyInBuffer1
<1>12. SetupInv'
  BY <1>0, <1>3 DEF ModuleInv, SetupInv, Calls, Starting
<1>13. VanishInv'
  <2>1. Len(taken) \in 1 .. Len(taken) /\ Len(taken) \in DOMAIN taken
    BY <1>1, Numbers DEF ModuleInv
  <2>2. held[mBuf] = taken[Len(taken)]
    BY <1>1 DEF ModuleInv, ReadInv, Last
  <2>3. held[mBuf] \in Kept'
    BY <1>0, <2>1, <2>2 DEF Kept
  <2>4. Kept \subseteq Kept'
    BY <1>0, <1>3, <2>3 DEF Kept
  <2> QED
    BY <1>0, <2>4, KeptGrows DEF ModuleInv, Starting
<1> QED
  BY <1>7, <1>8, <1>9, <1>10, <1>11, <1>12, <1>13 DEF ModuleInv

\* process_rx_frame gets the frame that was found last.
LEMMA HandleFrameStep ==
  ASSUME ModuleInv, HandleFrame
  PROVE  ModuleInv'
<1>0. /\ mPc = "copy" /\ mPc' = "idle" /\ mSend = NotSending /\ irq' = TRUE
      /\ handled' = Append(handled, Copy(mCan))
      /\ UNCHANGED <<mChip, mCan, mSetup, mBuf, mSend, mSent, held, taken, rolled,
                     dropped, refusals, refused>>
  BY DEF HandleFrame, Main
<1>1. ~InBuffer /\ ~InBuffer' /\ Reading /\ ~Reading'
  BY <1>0 DEF InBuffer, Reading
<1>2. Copy(mCan) = Arrived(Last)
  BY <1>0 DEF ModuleInv, ReadInv
<1>3. /\ Len(taken) = Len(handled) + 1 /\ Len(handled) \in Nat
      /\ Last = taken[Len(handled) + 1]
      /\ Last \in 1 .. Len(mSent)
  <2>1. Len(taken) = Len(handled) + 1 /\ Len(handled) \in Nat
    BY <1>1, Numbers DEF ModuleInv
  <2>2. Len(taken) \in 1 .. Len(taken)
    BY <2>1
  <2> QED
    BY <2>1, <2>2 DEF ModuleInv, HoldInv, Last
<1>4. Copy(mCan) \in Handled
  <2>1. mSent[Last] \in Frame
    BY <1>3 DEF ModuleInv, SeqInv
  <2> DEFINE f == mSent[Last]
             data == [i \in 1 .. DataMax |-> IF i <= f.len THEN f.data[i] ELSE 0]
  <2>2. f.len \in 0 .. 15
    BY <2>1, InFrame
  <2>2a. f.id \in AnyId
    BY <2>1, InFrame, Zenon DEF AnyId
  <2>3. data \in Data
    BY <2>1, PaddedData
  <2> HIDE DEF f
  <2>4. Copy(mCan) = [id |-> f.id, dlc |-> f.len, data |-> data]
    BY <1>2 DEF Arrived, f
  <2> HIDE DEF data
  <2> QED
    BY <2>2, <2>2a, <2>3, <2>4 DEF Handled
<1>5. /\ handled' \in Seq(Handled)
      /\ Len(handled') = Len(handled) + 1
      /\ handled'[Len(handled) + 1] = Arrived(Last)
      /\ \A i \in 1 .. Len(handled) : handled'[i] = handled[i]
  BY <1>0, <1>2, <1>3, <1>4 DEF ModuleInv, SeqInv
<1>6. ChipTypes'
  BY <1>0 DEF ModuleInv, ChipTypes
<1>7. GhostTypes'
  <2>1. \A i \in DOMAIN handled' : handled'[i] \in Handled
    BY <1>5
  <2>2. \A h \in Handled : h.id \in AnyId
    BY DEF Handled
  <2> QED
    BY <1>0, <2>1, <2>2, Zenon DEF AnyId, ModuleInv, GhostTypes
<1>8. SeqInv' /\ SendInv' /\ ReadInv'
  BY <1>0, <1>1, <1>3, <1>5 DEF ModuleInv, SeqInv, SendInv, ReadInv
<1>9. HoldInv'
  <2>1. \A n : Arrived(n)' = Arrived(n)
    BY <1>0 DEF Arrived
  <2>2. \A a \in 0 .. 1 : FullBuffer(a)' = FullBuffer(a) /\ Waiting(a)' = Waiting(a)
    BY <1>0, <1>1 DEF FullBuffer, Waiting
  <2>3. \A i \in 1 .. Len(handled') : handled'[i] = Arrived(taken[i])
    BY <1>3, <1>5 DEF ModuleInv, HoldInv
  <2>4. \A i \in 1 .. Len(handled') : handled'[i] = Arrived(taken[i])'
    BY <1>0, <2>1, <2>3
  <2>5. \A a \in 0 .. 1 : FullBuffer(a)' =>
          held'[a] \in 1 .. Len(mSent') /\ mChip'.rx[a] = mSent'[held'[a]]
    BY <1>0, <2>2 DEF ModuleInv, HoldInv
  <2>6. \A a \in 0 .. 1 : Waiting(a)' =>
          \A i \in 1 .. Len(taken') : taken'[i] # held'[a]
    BY <1>0, <2>2 DEF ModuleInv, HoldInv
  <2> QED
    BY <1>0, <2>2, <2>4, <2>5, <2>6 DEF ModuleInv, HoldInv
<1>10. OrderInv'
  <2>1. \A a \in 0 .. 1 : FullBuffer(a)' = FullBuffer(a) /\ Waiting(a)' = Waiting(a)
    BY <1>0, <1>1 DEF FullBuffer, Waiting
  <2> QED
    BY <1>0, <2>1 DEF ModuleInv, OrderInv, OvertakenOnlyInBuffer1
<1>11. SetupInv'
  BY <1>0 DEF ModuleInv, SetupInv, Calls, Starting
<1>12. VanishInv'
  <2>1. Kept \subseteq Kept'
    BY <1>0 DEF Kept
  <2> QED
    BY <1>0, <2>1, KeptGrows DEF ModuleInv, Starting
<1> QED
  BY <1>6, <1>7, <1>8, <1>9, <1>10, <1>11, <1>12 DEF ModuleInv

\* The interrupt takes the fields of the driver, of which the main loop needs none
\* as long as interrupts are on.
LEMMA PublishReportStep ==
  ASSUME ModuleInv, PublishReport
  PROVE  ModuleInv'
<1>0. /\ irq /\ mPc \notin {"begin", "enter", "leave"} /\ mSend = NotSending
      /\ mCan' = SetMsg(mCan, ReportId, DataMax, ReportData)
      /\ mSend' = Polling /\ irq' = FALSE
      /\ UNCHANGED <<mChip, mPc, mSetup, mBuf, refusals, refused>>
      /\ UNCHANGED ghosts
  BY DEF PublishReport, Main
<1>1. mPc = "idle" /\ ~Reading /\ ~Reading' /\ ~InBuffer /\ ~InBuffer'
  BY <1>0 DEF ModuleInv, SendInv, ChipTypes, Reading, InBuffer
<1>2. mCan' \in Frame
  <2>1. ReportId \in CanId(FALSE)
    BY ModuleAssumption, Zenon DEF ReportId
  <2>2. ReportData \in Data
    BY DEF ReportData, Data, Byte
  <2>3. DataMax \in Nat /\ DataMax >= DataMax
    BY ControllerAssumption
  <2> QED
    BY <1>0, <2>1, <2>2, <2>3, SetMsgType
<1>3. ChipTypes' /\ GhostTypes'
  BY <1>0, <1>2, InFrame, PollingType, SameGhostTypes DEF ModuleInv, ChipTypes
<1>4. SeqInv' /\ SendInv' /\ ReadInv'
  BY <1>0, <1>1, <1>2, PollingType DEF ModuleInv, SeqInv, SendInv, ReadInv, ghosts
<1>5. HoldInv' /\ OrderInv'
  BY <1>0, <1>1, SameFrames DEF ModuleInv, Waiting, FullBuffer
<1>6. SetupInv' /\ VanishInv'
  BY <1>0, SameKept DEF ModuleInv, SetupInv, Calls, Starting
<1> QED
  BY <1>3, <1>4, <1>5, <1>6 DEF ModuleInv

\* Both loops of sendMsg look at the chip and change nothing in it.
LEMMA SendLoopStep ==
  ASSUME ModuleInv, SendPoll \/ SendWait
  PROVE  ModuleInv'
<1>0. /\ mSend # NotSending
      /\ irq' = (mSend' = NotSending /\ mPc = "idle")
      /\ UNCHANGED <<mChip, mCan, mPc, mSetup, mBuf, refusals, refused>>
      /\ UNCHANGED ghosts
  BY NotSendingType DEF SendPoll, SendWait, IrqAfterSend
<1>1. mPc = "idle" /\ ~Reading /\ ~Reading' /\ ~InBuffer /\ ~InBuffer' /\ mCan \in Frame
  BY <1>0 DEF ModuleInv, SendInv, Reading, InBuffer
<1>2. /\ mSend' \in SendType /\ mSend'.polls < TimeoutValue
      /\ mSend' = NotSending \/ mSend'.at \in {"poll", "write", "wait"}
  <2>1. mChip \in Chip /\ mSend \in SendType /\ mSend.polls < TimeoutValue
    BY DEF ModuleInv, ChipTypes, SendInv
  <2>2. CASE SendPoll
    BY <2>1, <2>2, PollType DEF SendPoll
  <2>3. CASE SendWait
    BY <2>1, <2>3, WaitType DEF SendWait
  <2> QED
    BY <2>2, <2>3
<1>3. irq' \in BOOLEAN /\ (mSend' # NotSending => ~irq')
  BY <1>0, Zenon
<1>4. ChipTypes' /\ GhostTypes'
  BY <1>0, <1>2, <1>3, SameGhostTypes DEF ModuleInv, ChipTypes
<1>5. SeqInv' /\ SendInv' /\ ReadInv'
  <2>1. SeqInv' /\ ReadInv'
    BY <1>0, <1>1 DEF ModuleInv, SeqInv, ReadInv, ghosts
  <2>2. SendInv'
    BY <1>0, <1>1, <1>2, <1>3 DEF SendInv
  <2> QED
    BY <2>1, <2>2
<1>6. HoldInv' /\ OrderInv'
  BY <1>0, <1>1, SameFrames DEF ModuleInv, Waiting, FullBuffer
<1>7. SetupInv' /\ VanishInv'
  BY <1>0, SameKept DEF ModuleInv, SetupInv, Calls, Starting
<1> QED
  BY <1>4, <1>5, <1>6, <1>7 DEF ModuleInv

\* A transmit buffer is filled; the receive buffers stay as they are.
LEMMA SendWriteStep ==
  ASSUME ModuleInv, SendWrite
  PROVE  ModuleInv'
<1>0. /\ mSend.at = "write" /\ mSend # NotSending
      /\ mChip' = Write(mChip, mSend, mCan) /\ mSend' = Written(mSend)
      /\ UNCHANGED <<mCan, mPc, mSetup, mBuf, irq, refusals, refused>>
      /\ UNCHANGED ghosts
  BY NotSendingType DEF SendWrite
<1>1. /\ mPc = "idle" /\ ~Reading /\ ~Reading' /\ ~InBuffer /\ ~InBuffer'
      /\ mCan \in Frame /\ ~irq
  BY <1>0 DEF ModuleInv, SendInv, Reading, InBuffer
<1>2. /\ mSend' \in SendType /\ mSend'.polls < TimeoutValue
      /\ mSend'.at = "wait" /\ mSend.buf \in 0 .. 2
  <2>1. mSend \in SendType /\ mSend.polls < TimeoutValue
    BY DEF ModuleInv, ChipTypes, SendInv
  <2>2. mSend.buf \in 0 .. 2
    BY <2>1 DEF SendType
  <2> QED
    BY <1>0, <2>1, <2>2, WrittenType
<1>3. /\ mChip' \in Chip /\ mChip'.mode = mChip.mode
      /\ mChip'.mask = mChip.mask /\ mChip'.filt = mChip.filt
      /\ mChip'.rx = mChip.rx
  <2> DEFINE w == Write(mChip, mSend, mCan)
  <2>1. mChip \in Chip /\ mSend \in SendType /\ mCan \in Frame
    BY <1>1, <1>2 DEF ModuleInv, ChipTypes
  <2>2. /\ w \in Chip /\ w.mode = mChip.mode
        /\ w.mask = mChip.mask /\ w.filt = mChip.filt /\ w.rx = mChip.rx
    BY <2>1, WriteType
  <2> QED
    BY <1>0, <2>2
<1>4. ChipTypes' /\ GhostTypes'
  BY <1>0, <1>2, <1>3, SameGhostTypes DEF ModuleInv, ChipTypes
<1>5. SeqInv' /\ SendInv' /\ ReadInv'
  BY <1>0, <1>1, <1>2 DEF ModuleInv, SeqInv, SendInv, ReadInv, ghosts
<1>6. HoldInv' /\ OrderInv'
  BY <1>0, <1>1, <1>3, SameFrames DEF ModuleInv, Waiting, FullBuffer
<1>7. SetupInv' /\ VanishInv'
  BY <1>0, <1>3, SameKept DEF ModuleInv, SetupInv, Calls, Starting
<1> QED
  BY <1>4, <1>5, <1>6, <1>7 DEF ModuleInv

\* The bus takes a frame from a transmit buffer.
LEMMA ModuleSentStep ==
  ASSUME ModuleInv, NEW b \in NextToSend(mChip), ModuleSent(b)
  PROVE  ModuleInv'
<1>0. /\ mChip' = Sent(mChip, b) /\ b \in 0 .. 2
      /\ UNCHANGED <<mCan, mPc, mSetup, mBuf, irq, mSend, refusals, refused>>
      /\ UNCHANGED ghosts
  BY DEF ModuleSent, NextToSend
<1>1. /\ mChip' \in Chip /\ mChip'.mode = mChip.mode
      /\ mChip'.mask = mChip.mask /\ mChip'.filt = mChip.filt
      /\ mChip'.rx = mChip.rx
  <2>1. mChip \in Chip
    BY DEF ModuleInv, ChipTypes
  <2> QED
    BY <1>0, <2>1, SentType
<1>2. ChipTypes' /\ GhostTypes'
  BY <1>0, <1>1, SameGhostTypes DEF ModuleInv, ChipTypes
<1>3. SeqInv' /\ SendInv' /\ ReadInv'
  <2>1. Arrived(Last)' = Arrived(Last) /\ Copy(mCan)' = Copy(mCan) /\ Last' = Last
    BY <1>0 DEF Last, Arrived, Copy, ghosts
  <2> QED
    BY <1>0, <1>1, <2>1
    DEF ModuleInv, SeqInv, SendInv, ReadInv, Reading, InBuffer, ghosts
<1>4. HoldInv' /\ OrderInv'
  BY <1>0, <1>1, SameFrames DEF ModuleInv, Waiting, FullBuffer, InBuffer
<1>5. SetupInv' /\ VanishInv'
  BY <1>0, <1>1, SameKept DEF ModuleInv, SetupInv, Calls, Starting
<1> QED
  BY <1>2, <1>3, <1>4, <1>5 DEF ModuleInv

\* The first filter group takes every frame of the module's own block and of
\* the fault block.
LEMMA OwnAccepted ==
  ASSUME NEW c, c.mask[0] = BlockMask, c.filt[0] = OwnFilter,
         c.filt[1] = FaultFilter, NEW f \in Frame, Own(f)
  PROVE  Accepts(c, 0, f)
<1> DEFINE block == 2032
           w == WriteId(f.ext, f.id)
<1>1. /\ f.ext = FALSE /\ f.id \in CanId(FALSE)
      /\ f.id \div 16 \in {OwnIndex \div 16, FaultIndex \div 16}
  <2>1. f.ext \in BOOLEAN /\ f.id \in CanId(f.ext) /\ ~f.ext
    BY InFrame, Zenon DEF Own
  <2>2. f.ext = FALSE
    BY <2>1
  <2> QED
    BY <2>1, <2>2, Zenon DEF Own
<1>2. block \in CanId(FALSE)
  BY SMT DEF CanId
<1>3. FaultIndex \in CanId(FALSE)
  BY SMT DEF CanId, FaultIndex
<1>4. OwnIndex \in CanId(FALSE)
  BY ModuleAssumption, SMT DEF CanId
<1>5. BlockMask = WriteId(FALSE, block)
  BY SMT DEF BlockMask
<1>6. \A a, x : (a \div 16 = x \div 16) => Agree(block, a, x)
  BY SMT DEF Agree
<1> HIDE DEF block
<1>7. Sid(BlockMask) = block
  BY <1>2, <1>5, StandardId, Zenon
<1>8. Sid(w) = f.id
  BY <1>1, StandardId, Zenon
<1>9. Sid(OwnFilter) = OwnIndex /\ Exide(OwnFilter) = f.ext
  BY <1>1, <1>4, StandardId, Zenon DEF OwnFilter
<1>10. Sid(FaultFilter) = FaultIndex /\ Exide(FaultFilter) = f.ext
  BY <1>1, <1>3, StandardId, Zenon DEF FaultFilter
<1>11. CASE f.id \div 16 = OwnIndex \div 16
  <2>1. Matches(c.mask[0], c.filt[0], f)
    BY <1>6, <1>7, <1>8, <1>9, <1>11, Zenon DEF Matches
  <2> QED
    BY <2>1 DEF Accepts, FiltersOf
<1>12. CASE f.id \div 16 = FaultIndex \div 16
  <2>1. Matches(c.mask[0], c.filt[1], f)
    BY <1>6, <1>7, <1>8, <1>10, <1>12, Zenon DEF Matches
  <2> QED
    BY <2>1 DEF Accepts, FiltersOf
<1> QED
  BY <1>1, <1>11, <1>12, Zenon

\* A frame arrives: in an empty buffer 0, rolled over into an empty buffer 1, or lost.
LEMMA ModuleHearsStep ==
  ASSUME ModuleInv, NEW f \in Frame, ModuleHears(f)
  PROVE  ModuleInv'
<1> DEFINE n == Len(mSent) + 1
<1>0. /\ mChip' = Receive(mChip, f) /\ mSent' = Append(mSent, f)
      /\ held' = [b \in 0 .. 1 |->
                    IF b \in Filled(mChip, mChip') THEN n ELSE held[b]]
      /\ rolled' = IF 1 \in Filled(mChip, mChip') THEN rolled \cup {n} ELSE rolled
      /\ dropped' = IF Starting \/ Full(mChip) THEN dropped \cup {n} ELSE dropped
      /\ UNCHANGED <<mCan, mPc, mSetup, mBuf, irq, mSend, handled, taken,
                     refusals, refused>>
  BY DEF ModuleHears
<1>1. /\ mSent \in Seq(Frame) /\ Len(mSent) \in Nat /\ n \in Nat
      /\ taken \in Seq(Nat) /\ Len(taken) \in Nat
      /\ Len(handled) \in Nat /\ Len(handled) <= Len(taken)
  <2>1. SeqInv
    BY DEF ModuleInv
  <2>2. Len(handled) \in Nat /\ Len(taken) \in Nat /\ Len(mSent) \in Nat
    BY <2>1, Numbers
  <2>3. Len(handled) <= Len(taken)
    BY <2>1, Numbers
  <2> QED
    BY <2>1, <2>2, <2>3 DEF SeqInv
<1>2. /\ mSent' \in Seq(Frame) /\ Len(mSent') = n /\ mSent'[n] = f
      /\ \A i \in 1 .. Len(mSent) : mSent'[i] = mSent[i]
      /\ 1 .. Len(mSent) \subseteq 1 .. Len(mSent') /\ n \in 1 .. Len(mSent')
      /\ n \notin 1 .. Len(mSent)
  BY <1>0, <1>1
<1>3. /\ mChip' \in Chip /\ mChip'.mode = mChip.mode
      /\ mChip'.mask = mChip.mask /\ mChip'.filt = mChip.filt
      /\ \A b \in 0 .. 1 : mChip'.rx[b] # mChip.rx[b] =>
           mChip.rx[b] = NoFrame /\ mChip'.rx[b] = f
      /\ ~(mChip'.rx[0] # mChip.rx[0] /\ mChip'.rx[1] # mChip.rx[1])
  BY <1>0, ReceiveType DEF ModuleInv, ChipTypes
<1>4. f # NoFrame
  BY InFrame
<1>5. \A b \in 0 .. 1 :
        \/ /\ b \in Filled(mChip, mChip') /\ ~FullBuffer(b) /\ FullBuffer(b)'
           /\ mChip'.rx[b] = f /\ held'[b] = n
        \/ /\ b \notin Filled(mChip, mChip') /\ FullBuffer(b)' = FullBuffer(b)
           /\ mChip'.rx[b] = mChip.rx[b] /\ held'[b] = held[b]
  BY <1>0, <1>3, <1>4 DEF Filled, FullBuffer
<1>6. ~(0 \in Filled(mChip, mChip') /\ 1 \in Filled(mChip, mChip'))
  BY <1>3 DEF Filled
<1>7. Filled(mChip, mChip') \subseteq 0 .. 1
  BY DEF Filled
<1>8. InBuffer => mBuf \in 0 .. 1 /\ mBuf \notin Filled(mChip, mChip')
  BY <1>5 DEF ModuleInv, ChipTypes, ReadInv, FullBuffer
<1> DEFINE filled == Filled(mChip, mChip')
<1> HIDE DEF n, filled
<1>9. \A i \in 1 .. Len(taken) : taken[i] \in 1 .. Len(mSent) /\ taken[i] < n
  BY <1>1 DEF ModuleInv, HoldInv, n
<1>10. \A i \in 1 .. Len(mSent) : Arrived(i)' = Arrived(i)
  BY <1>2 DEF Arrived
<1>11. \A b \in 0 .. 1 : FullBuffer(b) => held[b] \in 1 .. Len(mSent) /\ held[b] < n
  BY <1>1 DEF ModuleInv, HoldInv, n
<1>12. ChipTypes'
  BY <1>0, <1>3 DEF ModuleInv, ChipTypes
<1>13. GhostTypes'
  <2>1. held' \in [0 .. 1 -> 0 .. Len(mSent')]
    BY <1>0, <1>1, <1>2 DEF ModuleInv, GhostTypes, n
  <2>2. rolled' \subseteq DOMAIN mSent' /\ dropped' \subseteq DOMAIN mSent'
    BY <1>0, <1>1, <1>2 DEF ModuleInv, GhostTypes
  <2> QED
    BY <1>0, <2>1, <2>2 DEF ModuleInv, GhostTypes
<1>14. SeqInv' /\ SendInv'
  BY <1>0, <1>2 DEF ModuleInv, SeqInv, SendInv, Reading
<1>15. ReadInv'
  <2>1. CASE Reading
    <3>1. Last \in 1 .. Len(mSent) /\ Last' = Last
      <4>1. Len(taken) \in 1 .. Len(taken)
        BY <2>1, Numbers DEF ModuleInv
      <4> QED
        BY <1>0, <1>9, <4>1 DEF Last
    <3>2. Arrived(Last)' = Arrived(Last) /\ Copy(mCan)' = Copy(mCan)
      BY <1>0, <1>2, <3>1 DEF Arrived, Copy, Last
    <3>3. mSent'[Last] = mSent[Last]
      BY <1>2, <3>1
    <3>4. InBuffer => mChip'.rx[mBuf] = mChip.rx[mBuf] /\ held'[mBuf] = held[mBuf]
      BY <1>5, <1>8
    <3> QED
      BY <1>0, <3>1, <3>2, <3>3, <3>4 DEF ModuleInv, ReadInv, InBuffer
  <2>2. CASE ~Reading
    BY <1>0, <2>2 DEF ReadInv, Reading, InBuffer
  <2> QED
    BY <2>1, <2>2
<1>16. \A b \in 0 .. 1 : Waiting(b)' => b \in filled \/ Waiting(b)
  BY <1>0, <1>5 DEF Waiting, InBuffer, filled
<1>17. HoldInv'
  <2>1. \A b \in 0 .. 1 : FullBuffer(b)' =>
          held'[b] \in 1 .. Len(mSent') /\ mChip'.rx[b] = mSent'[held'[b]]
    BY <1>2, <1>5, <1>11 DEF ModuleInv, HoldInv
  <2>2. FullBuffer(0)' /\ FullBuffer(1)' => held'[0] # held'[1]
    BY <1>1, <1>5, <1>6, <1>11 DEF ModuleInv, HoldInv
  <2>3. ASSUME NEW b \in 0 .. 1, Waiting(b)', NEW i \in 1 .. Len(taken)
        PROVE  taken[i] # held'[b]
    <3>1. CASE b \in filled
      BY <1>1, <1>5, <1>9, <3>1 DEF filled
    <3>2. CASE b \notin filled
      BY <1>5, <1>16, <2>3, <3>2 DEF ModuleInv, HoldInv, filled
    <3> QED
      BY <3>1, <3>2
  <2>4. \A i \in 1 .. Len(handled) : handled[i] = Arrived(taken[i])'
    <3> SUFFICES ASSUME NEW i \in 1 .. Len(handled)
                 PROVE  handled[i] = Arrived(taken[i])'
      OBVIOUS
    <3>1. taken[i] \in 1 .. Len(mSent) /\ handled[i] = Arrived(taken[i])
      BY <1>1, <1>9 DEF ModuleInv, HoldInv
    <3>2. Arrived(taken[i])' = Arrived(taken[i])
      BY <1>0, <1>2, <3>1 DEF Arrived
    <3> QED
      BY <3>1, <3>2
  <2> QED
    BY <1>0, <1>2, <2>1, <2>2, <2>3, <2>4 DEF ModuleInv, HoldInv
<1>18. OrderInv'
  <2>1. \A b \in 0 .. 1 : FullBuffer(b)' => (held'[b] \in rolled' <=> b = 1)
    <3>1. \A i \in 1 .. Len(mSent) : i \in rolled' <=> i \in rolled
      BY <1>0, <1>2 DEF n
    <3>2. n \in rolled' <=> 1 \in filled
      BY <1>0, <1>2 DEF ModuleInv, OrderInv, n, filled
    <3> SUFFICES ASSUME NEW b \in 0 .. 1, FullBuffer(b)'
                 PROVE  held'[b] \in rolled' <=> b = 1
      OBVIOUS
    <3>3. CASE b \in filled
      BY <1>5, <1>6, <3>2, <3>3 DEF filled
    <3>4. CASE b \notin filled
      BY <1>5, <1>11, <3>1, <3>4 DEF ModuleInv, OrderInv, filled
    <3> QED
      BY <3>3, <3>4
  <2>2. rolled' \subseteq 1 .. Len(mSent')
    BY <1>0, <1>2 DEF ModuleInv, OrderInv, n
  <2>3. \A i \in 1 .. Len(taken) : taken[i] \in rolled' <=> taken[i] \in rolled
    BY <1>0, <1>2, <1>9 DEF n
  <2>4. ASSUME Waiting(0)', NEW i \in 1 .. Len(taken)
        PROVE  taken[i] < held'[0]
    BY <1>5, <1>9, <1>16, <2>4 DEF ModuleInv, OrderInv, filled
  <2>5. ASSUME Waiting(1)', NEW i \in 1 .. Len(taken), taken[i] \in rolled
        PROVE  taken[i] < held'[1]
    BY <1>5, <1>9, <1>16, <2>5 DEF ModuleInv, OrderInv, filled
  <2>6. OvertakenOnlyInBuffer1'
    BY <1>0, <1>1, <2>3 DEF ModuleInv, OrderInv, OvertakenOnlyInBuffer1
  <2> QED
    BY <1>0, <2>1, <2>2, <2>3, <2>4, <2>5, <2>6 DEF OrderInv
<1>19. SetupInv'
  BY <1>0, <1>3 DEF ModuleInv, SetupInv, Calls, Starting
<1>20. VanishInv'
  <2>0. /\ DOMAIN mSent = 1 .. Len(mSent) /\ DOMAIN mSent' = 1 .. Len(mSent')
        /\ \A i \in DOMAIN mSent' : i = n \/ i \in DOMAIN mSent
    BY <1>1, <1>2 DEF n
  <2>1. Starting' => DOMAIN mSent' \subseteq dropped'
    BY <1>0, <2>0 DEF ModuleInv, VanishInv, Starting, n
  <2>2. dropped' \subseteq 1 .. Len(mSent')
    BY <1>0, <1>2 DEF ModuleInv, VanishInv, n
  <2>3. Kept \subseteq Kept'
    <3>1. \A b \in {a \in 0 .. 1 : mChip.rx[a] # NoFrame} :
            b \in 0 .. 1 /\ mChip'.rx[b] # NoFrame /\ held'[b] = held[b]
      BY <1>5 DEF FullBuffer
    <3> QED
      BY <1>0, <3>1 DEF Kept
  <2>4. \A b \in filled : n \in Kept'
    BY <1>5, <1>7 DEF Kept, FullBuffer, filled
  <2>5. ASSUME ~refused, Own(f), n \notin dropped'
        PROVE  filled # {}
    <3>1. ~Starting /\ ~Full(mChip)
      BY <1>0, <2>5 DEF n
    <3>2. /\ mChip.mode = "normal" /\ mChip.mask[0] = BlockMask
          /\ mChip.filt[0] = OwnFilter /\ mChip.filt[1] = FaultFilter
      BY <2>5, <3>1 DEF ModuleInv, SetupInv, Calls, Starting
    <3>3. Accepts(mChip, 0, f)
      BY <2>5, <3>2, OwnAccepted
    <3>4. mChip \in Chip
      BY DEF ModuleInv, ChipTypes
    <3>5. CASE mChip.rx[0] = NoFrame
      <4>1. mChip' = [mChip EXCEPT !.rx[0] = f]
        BY <1>0, <3>2, <3>3, <3>5, Zenon DEF Receive
      <4>2. mChip'.rx[0] = f
        BY <3>4, <4>1 DEF Chip
      <4>3. 0 \in filled
        BY <1>4, <3>5, <4>2 DEF filled, Filled
      <4> QED
        BY <4>3
    <3>6. CASE mChip.rx[0] # NoFrame
      <4>0. mChip.rx[1] = NoFrame
        BY <3>1, <3>6 DEF Full
      <4>1. mChip' = [mChip EXCEPT !.rx[1] = f]
        BY <1>0, <3>2, <3>3, <3>6, <4>0, Zenon DEF Receive
      <4>2. mChip'.rx[1] = f
        BY <3>4, <4>1 DEF Chip
      <4>3. 1 \in filled
        BY <1>4, <4>0, <4>2 DEF filled, Filled
      <4> QED
        BY <4>3
    <3> QED
      BY <3>5, <3>6
  <2>6. NothingVanishes'
    <3> SUFFICES ASSUME ~refused, NEW i \in DOMAIN mSent', Own(mSent'[i]),
                        i \notin dropped'
                 PROVE  i \in Kept'
      BY <1>0 DEF NothingVanishes, Own
    <3>1. CASE i = n
      BY <1>2, <2>4, <2>5, <3>1
    <3>2. CASE i \in DOMAIN mSent
      <4>1. Own(mSent[i]) /\ i \notin dropped
        BY <1>0, <1>2, <2>0, <3>2
      <4> QED
        BY <2>3, <3>2, <4>1 DEF ModuleInv, VanishInv, NothingVanishes
    <3> QED
      BY <2>0, <3>1, <3>2
  <2> QED
    BY <2>1, <2>2, <2>6 DEF VanishInv
<1> QED
  BY <1>12, <1>13, <1>14, <1>15, <1>17, <1>18, <1>19, <1>20 DEF ModuleInv

\* The contents of the chip at power-up.
LEMMA ModuleInitInv ==
  ASSUME ModuleInit
  PROVE  ModuleInv
<1>1. PICK filters \in [0 .. 5 -> PowerUp] : mChip = Reset(filters)
  BY DEF ModuleInit
<1>2. /\ mCan = NoFrame /\ mPc = "begin" /\ mSetup = 0 /\ mBuf = 0 /\ irq = TRUE
      /\ mSend = NotSending /\ handled = <<>> /\ mSent = <<>> /\ rolled = {}
      /\ dropped = {} /\ held = [b \in 0 .. 1 |-> 0] /\ taken = <<>>
      /\ refusals \in 0 .. MaxRefusals /\ refused = FALSE
  BY DEF ModuleInit
<1>3. mChip \in Chip /\ \A b \in 0 .. 1 : mChip.rx[b] = NoFrame
  <2>1. filters \in [0 .. 5 -> IdRegisters]
    BY ModuleAssumption
  <2> QED
    BY <1>1, <2>1, ResetType DEF Reset
<1>4. ~Reading /\ ~InBuffer /\ Starting
  BY <1>2 DEF Reading, InBuffer, Starting
<1>5. Len(mSent) = 0 /\ Len(taken) = 0 /\ Len(handled) = 0
      /\ DOMAIN mSent = {} /\ DOMAIN taken = {} /\ DOMAIN handled = {}
  BY <1>2
<1>6. ChipTypes
  <2>1. NoFrame \in Slot
    BY DEF Slot
  <2>2. irq \in BOOLEAN /\ refused \in BOOLEAN
    BY <1>2, Zenon
  <2>3. mChip \in Chip /\ mCan \in Slot /\ mSend \in SendType
    BY <1>2, <1>3, <2>1, NotSendingType
  <2> QED
    BY <1>2, <2>2, <2>3 DEF ChipTypes
<1>7. GhostTypes
  BY <1>2, <1>5 DEF GhostTypes
<1>8. SeqInv
  BY <1>2, <1>4 DEF SeqInv
<1>9. SendInv /\ ReadInv
  BY <1>2, <1>4, NotSendingType DEF SendInv, ReadInv, InBuffer
<1>10. \A b \in 0 .. 1 : ~FullBuffer(b) /\ ~Waiting(b)
  BY <1>3 DEF FullBuffer, Waiting
<1>11. HoldInv /\ OrderInv
  BY <1>2, <1>5, <1>10 DEF HoldInv, OrderInv, OvertakenOnlyInBuffer1
<1>12. SetupInv
  BY <1>2 DEF SetupInv, Calls, Starting
<1>13. VanishInv
  BY <1>2, <1>5 DEF VanishInv, NothingVanishes
<1> QED
  BY <1>6, <1>7, <1>8, <1>9, <1>11, <1>12, <1>13 DEF ModuleInv

\* Every step, of the module and of the bus, keeps the invariant.
LEMMA ModuleStepInv ==
  ASSUME ModuleInv, [ModuleNext]_moduleVars
  PROVE  ModuleInv'
<1>1. CASE ModuleStep
  BY <1>1, BeginStep, EnterConfigStep, LeaveConfigStep, CheckForRxFrameStep,
     ReadCanMsgIdStep, ReadCanMsgDataStep, ClearFlagStep, HandleFrameStep,
     PublishReportStep, SendLoopStep, SendWriteStep, Zenon DEF ModuleStep
<1>2. CASE \E f \in Frame : ModuleHears(f)
  BY <1>2, ModuleHearsStep, Zenon
<1>3. CASE \E b \in NextToSend(mChip) : ModuleSent(b)
  BY <1>3, ModuleSentStep, Zenon
<1>4. CASE UNCHANGED moduleVars
  <2>0. UNCHANGED <<mChip, mCan, mPc, mSetup, mBuf, irq, mSend, refusals, refused>>
        /\ UNCHANGED ghosts
    BY <1>4 DEF moduleVars, ghosts
  <2>1. ChipTypes' /\ GhostTypes'
    BY <2>0, SameGhostTypes DEF ModuleInv, ChipTypes
  <2>2. SeqInv' /\ SendInv' /\ ReadInv'
    <3>1. Arrived(Last)' = Arrived(Last) /\ Copy(mCan)' = Copy(mCan) /\ Last' = Last
      BY <2>0 DEF Last, Arrived, Copy, ghosts
    <3> QED
      BY <2>0, <3>1
      DEF ModuleInv, SeqInv, SendInv, ReadInv, Reading, InBuffer, ghosts
  <2>3. HoldInv' /\ OrderInv'
    BY <2>0, SameFrames DEF ModuleInv, Waiting, FullBuffer, InBuffer
  <2>4. SetupInv' /\ VanishInv'
    BY <2>0, SameKept DEF ModuleInv, SetupInv, Calls, Starting
  <2> QED
    BY <2>1, <2>2, <2>3, <2>4 DEF ModuleInv
<1> QED
  BY <1>1, <1>2, <1>3, <1>4, Zenon DEF ModuleNext

\* The inductive invariant of an actuator module's CAN interface, on a bus that
\* carries anything and for any number of refused mode changes (init.cpp:50).
THEOREM ModuleInvariant == ModuleSpec => []ModuleInv
<1>1. ModuleInit => ModuleInv
  BY ModuleInitInv
<1>2. ModuleInv /\ [ModuleNext]_moduleVars => ModuleInv'
  BY ModuleStepInv
<1> QED
  BY <1>1, <1>2, PTL DEF ModuleSpec

\* Types: the controller, the driver's fields and the notes of the model stay
\* what they are declared as, whatever frames the bus carries and however
\* often the chip refuses a mode.
THEOREM ModuleTypes == ModuleSpec => []ModuleTypeOK
<1>1. ModuleInv => ModuleTypeOK
  BY TwoTypes DEF ModuleInv
<1> QED
  BY <1>1, ModuleInvariant, PTL

\* Every frame process_rx_frame gets is one the bus carried, whole, and none
\* comes twice, although readMsg reads it in three steps and the report
\* interrupt writes the same fields of the driver.
THEOREM FramesIntact == ModuleSpec => []FrameIntact
<1>1. ModuleInv => FrameIntact
  <2> SUFFICES ASSUME ModuleInv PROVE FrameIntact
    OBVIOUS
  <2>1. /\ DOMAIN mSent = 1 .. Len(mSent) /\ DOMAIN taken = 1 .. Len(taken)
        /\ DOMAIN handled = 1 .. Len(handled)
        /\ Len(handled) \in Nat /\ Len(taken) \in Nat
    BY Numbers DEF ModuleInv
  <2>2. Len(handled) <= Len(taken)
    BY Numbers DEF ModuleInv
  <2>3. \A i \in DOMAIN handled : i \in DOMAIN taken
    BY <2>1, <2>2
  <2>4. \A i \in DOMAIN handled :
          taken[i] \in DOMAIN mSent /\ handled[i] = Arrived(taken[i])
    BY <2>1, <2>3 DEF ModuleInv, HoldInv
  <2>5. \A i, j \in DOMAIN taken : taken[i] = taken[j] => i = j
    BY <2>1 DEF ModuleInv, HoldInv
  <2> QED
    BY <2>3, <2>4, <2>5, Zenon DEF FrameIntact
<1> QED
  BY <1>1, ModuleInvariant, PTL

\* A frame is handled after a later one only if it went to buffer 1 and the
\* later one to buffer 0.
THEOREM OvertakingBounded == ModuleSpec => []OvertakenOnlyInBuffer1
<1>1. ModuleInv => OvertakenOnlyInBuffer1
  BY DEF ModuleInv, OrderInv
<1> QED
  BY <1>1, ModuleInvariant, PTL

\* Frames of the module's own block and of the fault block are lost only to
\* two full buffers, to the start-up, or to a mode change whose failure
\* init.cpp ignores.
THEOREM OwnFramesKept == ModuleSpec => []NothingVanishes
<1>1. ModuleInv => NothingVanishes
  BY DEF ModuleInv, VanishInv
<1> QED
  BY <1>1, ModuleInvariant, PTL

--------------------------------------------------------------------------
(* The channel the module's program sees. *)

\* The mapping, under names.
Carried == [n \in 1 .. Len(mSent) |-> Arrived(n)]
Places  == [b \in 0 .. 1 |-> IF Waiting(b) THEN held[b] ELSE 0]
Hand    == IF Reading THEN taken[Len(taken)] ELSE 0

\* Nothing is in the chip before it is first in normal mode.
BootInv ==
  mPc = "begin" => /\ mChip.mode = "config"
                   /\ \A b \in 0 .. 1 : mChip.rx[b] = NoFrame

ChannelVars == <<Carried, Places, Hand, handled>>

\* A step of the driver, of the start-up or of the transmit side, after which
\* the same frames are in the same places.
LEMMA SameChannel ==
  ASSUME UNCHANGED ghosts, Reading' = Reading,
         \A b \in 0 .. 1 : Waiting(b)' = Waiting(b)
  PROVE  UNCHANGED ChannelVars
<1>0. taken' = taken /\ handled' = handled /\ mSent' = mSent /\ held' = held
  BY DEF ghosts
<1>1. \A n : Arrived(n)' = Arrived(n)
  BY <1>0 DEF Arrived
<1>2. Carried' = Carried
  BY <1>0, <1>1 DEF Carried
<1>3. Places' = Places
  BY <1>0 DEF Places
<1>4. Hand' = Hand
  BY <1>0 DEF Hand
<1> QED
  BY <1>0, <1>2, <1>3, <1>4 DEF ChannelVars

\* The chip is reset before anything is heard.
LEMMA BootInit == ModuleInit => BootInv
BY DEF ModuleInit, BootInv, Reset

\* The program does not come back to begin, and what the bus carries
\* meanwhile finds the chip in configuration mode.
LEMMA BootStep ==
  ASSUME BootInv, [ModuleNext]_moduleVars
  PROVE  BootInv'
<1>1. CASE Begin
  BY <1>1 DEF Begin, BootInv, Reset
<1>2. CASE EnterConfig \/ LeaveConfig
  BY <1>2 DEF EnterConfig, LeaveConfig, AfterCall, BootInv
<1>3. CASE \/ CheckForRxFrame \/ ReadCanMsgId \/ ReadCanMsgData \/ ClearFlag
           \/ HandleFrame
  BY <1>3 DEF CheckForRxFrame, ReadCanMsgId, ReadCanMsgData, ClearFlag,
              HandleFrame, BootInv
<1>4. CASE PublishReport \/ SendPoll \/ SendWait
  BY <1>4 DEF PublishReport, SendPoll, SendWait, BootInv
<1>5. CASE SendWrite
  BY <1>5 DEF SendWrite, Write, BootInv
<1>6. CASE \E f \in Frame : ModuleHears(f)
  BY <1>6 DEF ModuleHears, Receive, BootInv
<1>7. CASE \E b \in NextToSend(mChip) : ModuleSent(b)
  BY <1>7 DEF ModuleSent, Sent, BootInv
<1>8. CASE UNCHANGED moduleVars
  BY <1>8 DEF moduleVars, BootInv
<1> QED
  BY <1>1, <1>2, <1>3, <1>4, <1>5, <1>6, <1>7, <1>8 DEF ModuleNext, ModuleStep

\* Start-up: the places are empty, or stay as they are.
LEMMA StartupChannel ==
  ASSUME ModuleInv, BootInv, Begin \/ EnterConfig \/ LeaveConfig
  PROVE  UNCHANGED ChannelVars
<1>0. UNCHANGED ghosts /\ ~Reading /\ ~Reading' /\ ~InBuffer /\ ~InBuffer'
  BY DEF Begin, EnterConfig, LeaveConfig, AfterCall, Reading, InBuffer
<1>1. \A b \in 0 .. 1 : mChip'.rx[b] = mChip.rx[b]
  <2>0. mChip \in Chip
    BY DEF ModuleInv, ChipTypes
  <2>1. CASE Begin
    <3>1. \A b \in 0 .. 1 : Reset(mChip.filt).rx[b] = NoFrame
      BY DEF Reset
    <3>2. SetMode(Reset(mChip.filt), "normal").rx = Reset(mChip.filt).rx
      BY DEF Reset, SetMode
    <3> QED
      BY <2>1, <3>1, <3>2 DEF Begin, BootInv
  <2>2. CASE EnterConfig
    <3>1. mSetup \in 0 .. 4 /\ SetMode(mChip, "config") \in Chip
      BY <2>2, SetModeType DEF EnterConfig, ModuleInv, SetupInv, ChipTypes
    <3>2. SetMode(mChip, "config").rx = mChip.rx
      BY <2>0 DEF SetMode, Chip
    <3> QED
      BY <2>2, <3>1, <3>2, SetupRegisters DEF EnterConfig
  <2>3. CASE LeaveConfig
    <3>1. SetMode(mChip, "normal").rx = mChip.rx
      BY <2>0 DEF SetMode, Chip
    <3> QED
      BY <2>3, <3>1 DEF LeaveConfig
  <2> QED
    BY <2>1, <2>2, <2>3
<1>2. \A b \in 0 .. 1 : Waiting(b)' = Waiting(b)
  BY <1>0, <1>1 DEF Waiting, FullBuffer
<1>3. Reading' = Reading
  BY <1>0 DEF Reading
<1> QED
  BY <1>0, <1>2, <1>3, SameChannel

\* readMsg finds a frame: it is fetched, from the first place if one waits
\* there.
LEMMA CheckIsFetch ==
  ASSUME ModuleInv, CheckForRxFrame
  PROVE  \E b \in 0 .. 1 : Channel!Fetch(b)
<1>1. PICK b \in Pending(mChip) : Taken(b)
  BY DEF CheckForRxFrame
<1>2. /\ b \in 0 .. 1 /\ FullBuffer(b)
      /\ b = 1 => ~FullBuffer(0)
  BY DEF Pending, FullBuffer
<1>3. /\ ~Reading /\ Reading' /\ ~InBuffer /\ InBuffer'
      /\ mBuf' = b /\ taken' = Append(taken, held[b]) /\ mChip' = mChip
      /\ UNCHANGED <<handled, mSent, held, rolled, dropped>>
  BY <1>1 DEF CheckForRxFrame, Reading, InBuffer, Taken
<1>4. taken \in Seq(Nat) /\ held[b] \in Nat \ {0}
  <2>1. Len(mSent) \in Nat /\ taken \in Seq(Nat)
    BY Numbers DEF ModuleInv, SeqInv
  <2>2. held[b] \in 1 .. Len(mSent)
    BY <1>2 DEF ModuleInv, HoldInv
  <2> QED
    BY <2>1, <2>2
<1>5. Len(taken') = Len(taken) + 1 /\ taken'[Len(taken')] = held[b]
  BY <1>3, <1>4
<1>6. \A a \in 0 .. 1 : /\ Waiting(a) = FullBuffer(a)
                        /\ Waiting(a)' = (FullBuffer(a) /\ a # b)
  BY <1>3 DEF Waiting, FullBuffer
<1>7. Hand = 0 /\ Hand' = held[b]
  BY <1>3, <1>5 DEF Hand
<1>8. Places[b] = held[b] /\ (b = 1 => Places[0] = 0)
  BY <1>2, <1>6 DEF Places
<1>9. Places' = [Places EXCEPT ![b] = 0]
  BY <1>3, <1>6 DEF Places
<1>10. Carried' = Carried
  BY <1>3 DEF Carried, Arrived
<1>11. Channel!Fetch(b)
  BY <1>3, <1>4, <1>7, <1>8, <1>9, <1>10
  DEF Channel!Fetch, Carried, Places, Hand
<1> QED
  BY <1>2, <1>11

\* Reading takes nothing out of the places: the buffer being read is none.
LEMMA ReadChannel ==
  ASSUME ModuleInv, ReadCanMsgId \/ ReadCanMsgData \/ ClearFlag
  PROVE  UNCHANGED ChannelVars
<1>0. UNCHANGED ghosts /\ Reading /\ Reading' /\ InBuffer /\ mBuf' = mBuf
  BY DEF ReadCanMsgId, ReadCanMsgData, ClearFlag, Reading, InBuffer
<1>1. mChip \in Chip /\ mBuf \in 0 .. 1
  BY DEF ModuleInv, ChipTypes
<1>2. ASSUME NEW b \in 0 .. 1
      PROVE  Waiting(b)' = Waiting(b)
  <2>1. CASE ReadCanMsgId \/ ReadCanMsgData
    BY <1>0, <2>1
    DEF ReadCanMsgId, ReadCanMsgData, Waiting, FullBuffer, InBuffer
  <2>2. CASE ClearFlag /\ b = mBuf
    <3>1. mChip'.rx[b] = NoFrame
      BY <1>1, <2>2 DEF ClearFlag, Release, Chip
    <3> QED
      BY <1>0, <2>2, <3>1 DEF Waiting, FullBuffer
  <2>3. CASE ClearFlag /\ b # mBuf
    <3>1. mChip'.rx[b] = mChip.rx[b]
      BY <1>1, <2>3 DEF ClearFlag, Release, Chip
    <3> QED
      BY <1>0, <2>3, <3>1 DEF Waiting, FullBuffer
  <2> QED
    BY <2>1, <2>2, <2>3
<1> QED
  BY <1>0, <1>2, SameChannel

\* process_rx_frame gets what was fetched, as the bus carried it.
LEMMA HandleIsGive ==
  ASSUME ModuleInv, HandleFrame
  PROVE  Channel!Give
<1>0. /\ mPc = "copy" /\ mPc' = "idle"
      /\ handled' = Append(handled, Copy(mCan))
      /\ UNCHANGED <<mChip, mBuf, mSent, held, taken>>
  BY DEF HandleFrame
<1>1. ~InBuffer /\ ~InBuffer' /\ Reading /\ ~Reading'
  BY <1>0 DEF InBuffer, Reading
<1>2. Copy(mCan) = Arrived(Last)
  BY <1>0 DEF ModuleInv, ReadInv
<1>3. Last \in 1 .. Len(mSent) /\ Last # 0
  <2>1. Len(taken) \in 1 .. Len(taken) /\ Len(mSent) \in Nat
    BY <1>1, Numbers DEF ModuleInv
  <2> QED
    BY <2>1 DEF ModuleInv, HoldInv, Last
<1>4. Hand = Last /\ Hand' = 0
  BY <1>1 DEF Hand, Last
<1>5. Carried[Hand] = Arrived(Last)
  BY <1>3, <1>4 DEF Carried
<1>6. Carried' = Carried
  BY <1>0 DEF Carried, Arrived
<1>7. Places' = Places
  BY <1>0, <1>1 DEF Places, Waiting, FullBuffer
<1> QED
  BY <1>0, <1>2, <1>3, <1>4, <1>5, <1>6, <1>7
  DEF Channel!Give, Carried, Places, Hand

\* Sending uses other buffers.
LEMMA SendChannel ==
  ASSUME ModuleInv,
         \/ PublishReport \/ SendPoll \/ SendWrite \/ SendWait
         \/ \E b \in NextToSend(mChip) : ModuleSent(b)
  PROVE  UNCHANGED ChannelVars
<1>0. UNCHANGED ghosts /\ mPc' = mPc /\ mBuf' = mBuf
  BY DEF PublishReport, SendPoll, SendWrite, SendWait, ModuleSent
<1>1. mChip'.rx = mChip.rx
  <2>1. mChip \in Chip
    BY DEF ModuleInv, ChipTypes
  <2>2. Write(mChip, mSend, mCan).rx = mChip.rx
    BY <2>1 DEF Write, Chip
  <2>3. \A b : Sent(mChip, b).rx = mChip.rx
    BY <2>1 DEF Sent, Chip
  <2> QED
    BY <2>2, <2>3 DEF PublishReport, SendPoll, SendWrite, SendWait, ModuleSent
<1>2. /\ Reading' = Reading
      /\ \A b \in 0 .. 1 : Waiting(b)' = Waiting(b)
  BY <1>0, <1>1 DEF Reading, Waiting, FullBuffer, InBuffer
<1> QED
  BY <1>0, <1>2, SameChannel

\* A frame of the bus finds a free place, or none that takes it.
LEMMA HearsIsBus ==
  ASSUME ModuleInv, NEW f \in Frame, ModuleHears(f)
  PROVE  Channel!Miss \/ \E b \in 0 .. 1 : Channel!Arrive(b)
<1> DEFINE n == Len(mSent) + 1
<1>0. /\ mChip' = Receive(mChip, f) /\ mSent' = Append(mSent, f)
      /\ held' = [b \in 0 .. 1 |->
                    IF b \in Filled(mChip, mChip') THEN n ELSE held[b]]
      /\ UNCHANGED <<mPc, mBuf, handled, taken>>
  BY DEF ModuleHears
<1>1. /\ mSent \in Seq(Frame) /\ Len(mSent) \in Nat
      /\ Len(mSent') = n
      /\ \A i \in 1 .. Len(mSent) : mSent'[i] = mSent[i]
  <2>1. mSent \in Seq(Frame) /\ Len(mSent) \in Nat
    BY Numbers DEF ModuleInv, SeqInv
  <2> QED
    BY <1>0, <2>1
<1>2. /\ \A b \in 0 .. 1 : mChip'.rx[b] # mChip.rx[b] =>
           mChip.rx[b] = NoFrame /\ mChip'.rx[b] = f
      /\ ~(mChip'.rx[0] # mChip.rx[0] /\ mChip'.rx[1] # mChip.rx[1])
  BY <1>0, ReceiveType DEF ModuleInv, ChipTypes
<1>3. f # NoFrame
  BY InFrame
<1>4. Reading' = Reading /\ InBuffer' = InBuffer
  BY <1>0 DEF Reading, InBuffer
<1>5. Hand' = Hand
  BY <1>0, <1>4 DEF Hand
<1> HIDE DEF n
<1>6. /\ DOMAIN Carried = 1 .. Len(mSent) /\ DOMAIN Carried' = 1 .. n
      /\ \A i \in 1 .. Len(mSent) : Carried'[i] = Carried[i]
  <2>1. \A i \in 1 .. Len(mSent) : Arrived(i)' = Arrived(i)
    BY <1>1 DEF Arrived
  <2>2. \A i \in 1 .. Len(mSent) : i \in 1 .. n
    BY <1>1 DEF n
  <2> QED
    BY <1>1, <2>1, <2>2 DEF Carried
<1>7. Len(Carried) = Len(mSent) /\ Len(Carried') = n
  <2>1. n \in Nat
    BY <1>1 DEF n
  <2> QED
    BY <1>1, <1>6, <2>1 DEF Carried
<1>8. Channel!Bus
  BY <1>6, <1>7 DEF Channel!Bus, Carried, n
<1>9. ASSUME NEW b \in 0 .. 1, b \in Filled(mChip, mChip')
      PROVE  Channel!Arrive(b)
  <2>1. mChip.rx[b] = NoFrame /\ mChip'.rx[b] # NoFrame
    BY <1>9 DEF Filled
  <2>2. \A a \in 0 .. 1 : a # b =>
          mChip'.rx[a] = mChip.rx[a] /\ a \notin Filled(mChip, mChip')
    BY <1>2, <2>1 DEF Filled
  <2>3. ~Waiting(b) /\ ~(InBuffer /\ mBuf = b)
    BY <2>1 DEF Waiting, FullBuffer, ModuleInv, ReadInv
  <2>4. Waiting(b)' /\ held'[b] = n
    BY <1>0, <1>4, <1>9, <2>1, <2>3 DEF Waiting, FullBuffer
  <2>5. \A a \in 0 .. 1 : a # b => Waiting(a)' = Waiting(a) /\ held'[a] = held[a]
    BY <1>0, <1>4, <2>2 DEF Waiting, FullBuffer
  <2>6. Places[b] = 0 /\ Places' = [Places EXCEPT ![b] = n]
    BY <2>3, <2>4, <2>5 DEF Places
  <2> QED
    BY <1>0, <1>5, <1>7, <1>8, <2>6 DEF Channel!Arrive, Carried, Places, Hand
<1>10. ASSUME \A b \in 0 .. 1 : b \notin Filled(mChip, mChip')
       PROVE  Channel!Miss
  <2>1. \A b \in 0 .. 1 : mChip'.rx[b] = mChip.rx[b] /\ held'[b] = held[b]
    BY <1>0, <1>2, <1>3, <1>10 DEF Filled
  <2>2. \A b \in 0 .. 1 : Waiting(b)' = Waiting(b)
    BY <1>0, <1>4, <2>1 DEF Waiting, FullBuffer
  <2>3. Places' = Places
    BY <2>1, <2>2 DEF Places
  <2> QED
    BY <1>0, <1>5, <1>8, <2>3 DEF Channel!Miss, Places, Hand
<1> QED
  BY <1>9, <1>10

\* Every step of the module is a step of the channel or invisible to it.
LEMMA ChannelSimulation ==
  ASSUME ModuleInv, BootInv, [ModuleNext]_moduleVars
  PROVE  [Channel!Next]_(Channel!vars)
<1>1. ASSUME UNCHANGED ChannelVars PROVE UNCHANGED Channel!vars
  BY <1>1 DEF ChannelVars, Channel!vars, Carried, Places, Hand
<1>2. CASE Begin \/ EnterConfig \/ LeaveConfig
  BY <1>1, <1>2, StartupChannel
<1>3. CASE CheckForRxFrame
  BY <1>3, CheckIsFetch DEF Channel!Next
<1>4. CASE ReadCanMsgId \/ ReadCanMsgData \/ ClearFlag
  BY <1>1, <1>4, ReadChannel
<1>5. CASE HandleFrame
  BY <1>5, HandleIsGive DEF Channel!Next
<1>6. CASE \/ PublishReport \/ SendPoll \/ SendWrite \/ SendWait
           \/ \E b \in NextToSend(mChip) : ModuleSent(b)
  BY <1>1, <1>6, SendChannel
<1>7. CASE \E f \in Frame : ModuleHears(f)
  BY <1>7, HearsIsBus DEF Channel!Next
<1>8. CASE UNCHANGED moduleVars
  <2>1. UNCHANGED ghosts /\ UNCHANGED <<mChip, mPc, mBuf>>
    BY <1>8 DEF moduleVars, ghosts
  <2>2. /\ Reading' = Reading
        /\ \A b \in 0 .. 1 : Waiting(b)' = Waiting(b)
    BY <2>1 DEF Reading, Waiting, FullBuffer, InBuffer
  <2> QED
    BY <1>1, <2>1, <2>2, SameChannel
<1> QED
  BY <1>2, <1>3, <1>4, <1>5, <1>6, <1>7, <1>8 DEF ModuleNext, ModuleStep

\* An empty chip is an empty channel.
LEMMA ChannelInit == ModuleInit => Channel!Init
<1> SUFFICES ASSUME ModuleInit PROVE Channel!Init
  OBVIOUS
<1>1. /\ mSent = <<>> /\ handled = <<>> /\ ~Reading
      /\ \A b \in 0 .. 1 : ~Waiting(b)
  BY DEF ModuleInit, Reset, Reading, Waiting, FullBuffer
<1>2. [n \in 1 .. Len(mSent) |-> Arrived(n)] = <<>>
  BY <1>1
<1> QED
  BY <1>1, <1>2 DEF Channel!Init

\* A module's CAN interface is a channel of two places that loses frames but
\* neither changes nor doubles one, and hands them over one at a time, that of
\* the first place before that of the second, whatever the bus carries and the
\* report interrupt sends meanwhile.
THEOREM InterfaceIsChannel == ModuleSpec => ImplementsChannel
<1>1. ModuleInit => BootInv /\ Channel!Init
  BY BootInit, ChannelInit
<1>2. BootInv /\ [ModuleNext]_moduleVars => BootInv'
  BY BootStep
<1>3. ModuleInv /\ BootInv /\ [ModuleNext]_moduleVars
        => [Channel!Next]_(Channel!vars)
  BY ChannelSimulation
<1> QED
  BY <1>1, <1>2, <1>3, ModuleInvariant, PTL
  DEF ModuleSpec, ImplementsChannel, Channel!Spec
=============================================================================
