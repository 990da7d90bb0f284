---------------------------- MODULE OsccApiProofs ----------------------------
(***************************************************************************)
(* Theorems about OsccApi, for every list of devices, every topology, any  *)
(* number of descriptors, modules, frames and calls.                       *)
(*                                                                         *)
(* The invariant has five layers: the types with what the call in progress *)
(* implies for its locals; the wake-up argument; what has been ordered so  *)
(* far; what oscc_init and oscc_open have achieved so far; where the       *)
(* search of oscc_init has left the modules' socket.                       *)
(***************************************************************************)
EXTENDS OsccApi, SequenceTheorems, TLAPS

\* Which call is at which step, and what its locals hold.
OpenSteps == {"detect", "detected", "socket", "assign", "register", "arm_oscc", "arm_vehicle"}
SearchSteps == {"detect", "detected", "socket", "assign"}

CallInv ==
  /\ pc \in OpenSteps => call \in {"init", "open"}
  /\ pc \in {"close_oscc", "close_vehicle"} => call = "close"
  /\ pc = "write" => call \in {"enable", "disable"}
  /\ pc \in SearchSteps =>
       /\ next \in 0 .. Len(Interfaces)
       /\ call = "init" => next # 0
       /\ call = "open" => chan \in Channel

TypeInv == TypeOK /\ CallInv

Signalled(f) == \E i \in DOMAIN socket[f].queue : socket[f].queue[i].signalled

\* Only an armed socket raises signals, sockets are armed after the handler
\* is installed, and a socket a global is about to take is not armed yet.
WakeInv ==
  /\ NoFrameStranded
  /\ SignalIsHandled
  /\ \A f \in Fd : socket[f].async => registered
  /\ \A f \in Fd : ~socket[f].async => ~Signalled(f)
  /\ \A f \in Fd : socket[f].channel = "none" => ~socket[f].async
  /\ pc \in {"arm_oscc", "arm_vehicle"} => registered
  /\ pc = "assign" /\ sock \in Fd => ~socket[sock].async

\* A loop of writes has reached every module before the one it is at.
OrderInv ==
  /\ OrdersTold
  /\ pc = "write" => result = "none"
  /\ pc = "write" /\ Reaches(oscc_fd) =>
       \A m \in DOMAIN Modules : m < todo => ordered[m] \in {call, "callback"}
  /\ pc # "write" => todo = 1

\* The socket is on the channel the client named, if it named one.
Bound(f) == call = "open" => socket[f].channel = chan

\* oscc_init is about to open, or has just opened, a socket for OSCC.
Opening == pc \in {"socket", "assign"} /\ target = "oscc"

\* Once its search has found OSCC, the global holds no number at all or that
\* of an open socket on a channel with OSCC: never one of a closed socket,
\* which the next detection or the vehicle would get.
FoundInv ==
  call = "init" =>
    /\ pc = "socket" /\ target = "oscc" => "oscc" \in topology[Probed]
    /\ pc = "assign" /\ target = "oscc" /\ sock \in Fd => Reaches(sock)
    /\ "oscc" \in found /\ pc \in OpenSteps /\ ~Opening =>
         \/ oscc_fd \notin Fd
         \/ Reaches(oscc_fd) /\ (pc = "detected" => sock # oscc_fd)
    /\ "oscc" \in found /\ pc = "idle" /\ result = "OK" => Reaches(oscc_fd)

\* What has been achieved before each step of oscc_init and oscc_open.
OpenInv ==
  /\ pc = "idle" /\ result = "OK" /\ call \in {"init", "open"} =>
       IsOpen(oscc_fd) /\ Bound(oscc_fd) /\ socket[oscc_fd].async
  /\ pc \in {"socket", "assign"} /\ next = 0 => target = "oscc"
  /\ pc = "assign" /\ next = 0 /\ sock \in Fd => IsOpen(sock) /\ Bound(sock)
  /\ pc = "register" /\ call = "open" => IsOpen(oscc_fd) /\ Bound(oscc_fd)
  /\ pc = "arm_oscc" /\ call = "open" => IsOpen(oscc_fd) /\ Bound(oscc_fd)
  /\ pc = "arm_vehicle" => IsOpen(oscc_fd) /\ Bound(oscc_fd) /\ socket[oscc_fd].async

USE DEF kernel, globals, locals, counters

----------------------------------------------------------------------------
(* The descriptor table                                                    *)

\* A channel of the list is not "none", so a socket bound to it is open.
LEMMA ProbedIsChannel ==
  ASSUME TypeInv, pc \in SearchSteps PROVE Probed \in Channel /\ Probed # "none"
<1>1. call \in {"init", "open"} /\ next \in 0 .. Len(Interfaces)
  BY DEF TypeInv, CallInv, OpenSteps, SearchSteps
<1>2. CASE next = 0
  BY <1>1, <1>2, ApiAssumption DEF Probed, TypeInv, CallInv
<1>3. CASE next # 0
  <2>1. next \in DOMAIN Interfaces
    BY <1>1, <1>3, ApiAssumption
  <2>. QED
    BY <1>3, <2>1, ApiAssumption DEF Probed, Channel
<1>. QED
  BY <1>2, <1>3

\* A descriptor that is not open has nothing to read.
LEMMA ClosedIsSocket ==
  /\ Closed \in Socket /\ Closed.queue = <<>>
  /\ Closed.channel = "none" /\ Closed.async = FALSE
BY DEF Closed, Fresh, Socket

\* Opening a socket keeps the table a table and touches a free entry only.
LEMMA OpenSocketType ==
  ASSUME TypeOK, NEW c \in Channel, OpenSocket(c)
  PROVE  /\ socket' \in [Fd -> Socket] /\ sock' \in Descriptor
         /\ \A f \in Fd : socket'[f] # socket[f] =>
              /\ ~IsOpen(f) /\ f = sock'
         /\ sock' \in Fd => ~IsOpen(sock')
         /\ sock' \in Fd => socket'[sock'] = [channel |-> c, async |-> FALSE, queue |-> <<>>]
<1>1. Fresh(c) \in Socket
  BY DEF Fresh, Socket
<1>2. Fresh(c) = [channel |-> c, async |-> FALSE, queue |-> <<>>]
  BY DEF Fresh
<1>3. UNINITIALIZED_SOCKET \notin Fd
  BY ApiAssumption DEF UNINITIALIZED_SOCKET
<1>4. ASSUME NEW f \in Fd, ~IsOpen(f), sock' = f,
             socket' = [socket EXCEPT ![f] = Fresh(c)]
      PROVE  /\ socket' \in [Fd -> Socket]
             /\ \A g \in Fd : g # f => socket'[g] = socket[g]
             /\ socket'[f] = [channel |-> c, async |-> FALSE, queue |-> <<>>]
  BY <1>1, <1>2, <1>4 DEF TypeOK
<1>5. CASE sock' = UNINITIALIZED_SOCKET /\ socket' = socket
  BY <1>3, <1>5 DEF TypeOK, Descriptor
<1>. QED
  BY <1>4, <1>5 DEF OpenSocket, Descriptor

\* Arming a socket changes its mode and nothing else.
LEMMA ArmType ==
  ASSUME TypeOK, NEW f \in Descriptor, AsyncEnable(f)
  PROVE  /\ f \in Fd /\ socket[f].channel # "none" /\ socket'[f].async
         /\ socket' \in [Fd -> Socket]
         /\ \A g \in Fd : /\ socket'[g].channel = socket[g].channel
                          /\ socket'[g].queue = socket[g].queue
         /\ \A g \in Fd : socket[g].async => socket'[g].async
         /\ \A g \in Fd : Signalled(g)' <=> Signalled(g)
<1>1. f \in Fd /\ socket[f].channel # "none" /\ socket[f] \in Socket
  BY DEF AsyncEnable, IsOpen, TypeOK
<1>2. socket' = [socket EXCEPT ![f] = [socket[f] EXCEPT !.async = TRUE]]
  BY DEF AsyncEnable
<1>3. [socket[f] EXCEPT !.async = TRUE] \in Socket
  BY <1>1 DEF Socket
<1>4. /\ socket'[f].channel = socket[f].channel /\ socket'[f].queue = socket[f].queue
      /\ socket'[f].async
  BY <1>1, <1>2 DEF TypeOK, Socket
<1>5. \A g \in Fd : g # f => socket'[g] = socket[g]
  BY <1>2 DEF TypeOK
<1>6. socket' \in [Fd -> Socket]
  BY <1>2, <1>3 DEF TypeOK
<1>7. \A g \in Fd : socket'[g].queue = socket[g].queue
  BY <1>4, <1>5
<1>. QED
  BY <1>1, <1>4, <1>5, <1>6, <1>7 DEF Signalled

\* Taking a frame shortens a queue and adds nothing to it.
LEMMA TakeType ==
  ASSUME TypeOK, NEW f \in Fd, HasFrame(f), Take(f)
  PROVE  /\ socket' \in [Fd -> Socket]
         /\ Head(socket[f].queue) \in Frame
         /\ \A g \in Fd : /\ socket'[g].channel = socket[g].channel
                          /\ socket'[g].async = socket[g].async
         /\ \A g \in Fd : g # f => socket'[g] = socket[g]
         /\ \A g \in Fd : Signalled(g)' => Signalled(g)
<1> DEFINE q == socket[f].queue
<1>1. q \in Seq(Frame) /\ q # <<>> /\ socket[f] \in Socket
  BY DEF TypeOK, HasFrame, Socket
<1>2. /\ Tail(q) \in Seq(Frame) /\ Head(q) \in Frame
      /\ Len(Tail(q)) = Len(q) - 1 /\ \A i \in 1 .. Len(Tail(q)) : Tail(q)[i] = q[i + 1]
  BY <1>1, HeadTailProperties
<1>3. socket' = [socket EXCEPT ![f] = [socket[f] EXCEPT !.queue = Tail(q)]]
  BY DEF Take
<1>4. [socket[f] EXCEPT !.queue = Tail(q)] \in Socket
  BY <1>1, <1>2 DEF Socket
<1>5. /\ socket'[f].queue = Tail(q) /\ socket'[f].channel = socket[f].channel
      /\ socket'[f].async = socket[f].async
  BY <1>1, <1>3 DEF TypeOK, Socket
<1>6. \A g \in Fd : g # f => socket'[g] = socket[g]
  BY <1>3 DEF TypeOK
<1>7. Signalled(f)' => Signalled(f)
  <2> SUFFICES ASSUME NEW i \in DOMAIN socket'[f].queue, socket'[f].queue[i].signalled
               PROVE  Signalled(f)
    BY DEF Signalled
  <2>1. i \in 1 .. Len(Tail(q)) /\ q[i + 1].signalled
    BY <1>2, <1>5
  <2>2. i + 1 \in DOMAIN q
    BY <1>1, <1>2, <2>1
  <2>. QED
    BY <2>1, <2>2 DEF Signalled
<1>8. \A g \in Fd : Signalled(g)' => Signalled(g)
  BY <1>6, <1>7 DEF Signalled
<1>9. socket' \in [Fd -> Socket]
  BY <1>3, <1>4 DEF TypeOK
<1>. QED
  BY <1>2, <1>5, <1>6, <1>8, <1>9

\* An arriving frame is marked by the mode of the socket.
LEMMA ArriveType ==
  ASSUME TypeOK, NEW c \in Channel, NEW kind \in Kinds, Arrive(c, kind)
  PROVE  /\ socket' \in [Fd -> Socket]
         /\ \A g \in Fd : /\ socket'[g].channel = socket[g].channel
                          /\ socket'[g].async = socket[g].async
         /\ \A g \in Fd : Signalled(g)' =>
              Signalled(g) \/ (socket[g].async /\ pending')
<1> SUFFICES ASSUME NEW g \in Fd
             PROVE  /\ socket'[g] \in Socket
                    /\ socket'[g].channel = socket[g].channel
                    /\ socket'[g].async = socket[g].async
                    /\ Signalled(g)' => Signalled(g) \/ (socket[g].async /\ pending')
  BY DEF Arrive
<1>1. socket[g] \in Socket
  BY DEF TypeOK
<1>2. socket'[g] = IF socket[g].channel = c THEN Enqueue(socket[g], kind) ELSE socket[g]
  BY DEF Arrive
<1>3. CASE socket'[g] = socket[g]
  BY <1>1, <1>3 DEF Signalled
<1>4. CASE socket'[g] # socket[g]
  <2> DEFINE q == socket[g].queue
             e == [kind |-> kind, signalled |-> socket[g].async]
  <2>1. socket'[g] = [socket[g] EXCEPT !.queue = Append(q, e)] /\ socket[g].channel = c
    BY <1>2, <1>4 DEF Enqueue
  <2>2. q \in Seq(Frame) /\ e \in Frame
    BY <1>1 DEF Socket, Frame
  <2>3. /\ Append(q, e) \in Seq(Frame) /\ Len(Append(q, e)) = Len(q) + 1
        /\ \A i \in 1 .. Len(q) : Append(q, e)[i] = q[i]
        /\ Append(q, e)[Len(q) + 1] = e
    BY <2>2, AppendProperties
  <2>4. /\ socket'[g] \in Socket /\ socket'[g].queue = Append(q, e)
        /\ socket'[g].channel = socket[g].channel /\ socket'[g].async = socket[g].async
    BY <1>1, <2>1, <2>3 DEF Socket
  <2>5. ASSUME NEW i \in DOMAIN socket'[g].queue, socket'[g].queue[i].signalled
        PROVE  Signalled(g) \/ (socket[g].async /\ pending')
    <3>1. i \in 1 .. Len(q) + 1
      BY <2>3, <2>4
    <3>2. CASE i \in 1 .. Len(q)
      BY <2>2, <2>3, <2>4, <2>5, <3>2 DEF Signalled
    <3>3. CASE i = Len(q) + 1
      <4>1. socket[g].async
        BY <2>3, <2>4, <2>5, <3>3
      <4>. QED
        BY <4>1, <2>1 DEF Arrive
    <3>. QED
      BY <3>1, <3>2, <3>3, <2>2
  <2>. QED
    BY <2>4, <2>5 DEF Signalled
<1>. QED
  BY <1>3, <1>4

\* The start of the process satisfies every layer.
LEMMA InitInv == Init => TypeInv /\ WakeInv /\ OrderInv /\ OpenInv /\ FoundInv
<1> SUFFICES ASSUME Init PROVE TypeInv /\ WakeInv /\ OrderInv /\ OpenInv /\ FoundInv
  OBVIOUS
<1>1. TypeOK
  <2>1. 1 \in DOMAIN Modules /\ MaxFrames \in Nat /\ MaxOpens \in Nat
    BY ApiAssumption
  <2>2. topology \in [Channel -> SUBSET Role]
    BY ApiAssumption DEF Init
  <2>3. socket \in [Fd -> Socket]
    BY ClosedIsSocket DEF Init
  <2>4. ordered \in [DOMAIN Modules -> Orders]
    BY DEF Init, Orders
  <2>5. sent \in 0 .. MaxFrames /\ opens \in 0 .. MaxOpens /\ next \in Nat
    BY <2>1 DEF Init
  <2>6. target \in Role /\ found \in SUBSET Role
    BY DEF Init, Role
  <2>7. todo \in DOMAIN Modules
    BY <2>1 DEF Init
  <2>8. pc \in Steps /\ call \in Calls /\ chan \in Channel \cup {"none"}
    BY DEF Init, Steps, Calls
  <2>9. oscc_fd \in Descriptor /\ vehicle_fd \in Descriptor /\ sock \in Descriptor
    BY DEF Init, Descriptor
  <2>. QED
    BY <2>2, <2>3, <2>4, <2>5, <2>6, <2>7, <2>8, <2>9
    DEF Init, TypeOK, Descriptor, Role, Steps, Calls
<1>2. CallInv
  BY DEF Init, CallInv, OpenSteps, SearchSteps
<1>3. \A f \in Fd : socket[f] = Closed /\ ~Signalled(f)
  BY ClosedIsSocket DEF Init, Signalled
<1>4. WakeInv
  BY <1>3, ClosedIsSocket DEF Init, WakeInv, NoFrameStranded, SignalIsHandled, Signalled
<1>5. OrderInv /\ OpenInv /\ FoundInv
  BY DEF Init, OrderInv, OrdersTold, OpenInv, FoundInv
<1>. QED
  BY <1>1, <1>2, <1>4, <1>5 DEF TypeInv

\* Every step keeps the types and the locals of the call in progress.
LEMMA TypeStep == TypeInv /\ [Next]_vars => TypeInv'
<1> SUFFICES ASSUME TypeInv, [Next]_vars PROVE TypeInv'
  OBVIOUS
<1> USE DEF TypeInv, TypeOK, CallInv, Steps, Calls, OpenSteps, SearchSteps
<1>1. CASE CallInit
  BY <1>1, ApiAssumption DEF CallInit, MayOpen, Step, Role
<1>2. ASSUME NEW c \in Channel, CallOpen(c) PROVE TypeInv'
  BY <1>2, ApiAssumption DEF CallOpen, MayOpen, Step, Role
<1>3. CASE CallClose
  BY <1>3 DEF CallClose, Step
<1>4. CASE Detect
  <2>1. Probed \in Channel
    BY <1>4, ProbedIsChannel DEF Detect, Step
  <2>2. socket' \in [Fd -> Socket] /\ sock' \in Descriptor
    BY <1>4, <2>1, OpenSocketType DEF Detect
  <2>. QED
    BY <1>4, <2>2 DEF Detect, Step
<1>5. CASE Detected
  <2>1. socket' \in [Fd -> Socket]
    BY <1>5, ClosedIsSocket DEF Detected
  <2>2. sock' \in Descriptor
    BY <1>5 DEF Detected, Descriptor
  <2>3. /\ found' \in SUBSET Role /\ target' \in Role /\ next' \in 0 .. Len(Interfaces)
        /\ pc' \in {"detect", "socket", "register"}
        /\ pc' = "register" => call = "init"
        /\ pc' # "register" /\ call = "init" => next' # 0
    <3>1. PICK contents \in SUBSET (IF sock \in Fd THEN topology[Probed] ELSE {}) :
             LET seen == IF next = 0 THEN found ELSE found \cup contents IN
             \/ /\ Wanted(contents) # {}
                /\ pc' = "socket" /\ target' \in Wanted(contents)
                /\ found' = seen /\ UNCHANGED next
             \/ SearchOn(seen)
             \/ SearchEnd(seen)
      BY <1>5 DEF Detected
    <3>2. contents \in SUBSET Role
      <4>1. Probed \in Channel
        BY <1>5, ProbedIsChannel DEF Detected, Step
      <4>. QED
        BY <4>1
    <3>3. Wanted(contents) \subseteq Role
      BY <3>2 DEF Wanted, Role
    <3>4. Len(Interfaces) \in Nat /\ pc = "detected"
      BY <1>5, ApiAssumption DEF Detected, Step
    <3> DEFINE seen == IF next = 0 THEN found ELSE found \cup contents
    <3>5. seen \in SUBSET Role
      BY <3>2
    <3>6. CASE /\ Wanted(contents) # {}
               /\ pc' = "socket" /\ target' \in Wanted(contents)
               /\ found' = seen /\ UNCHANGED next
      BY <3>3, <3>4, <3>5, <3>6
    <3>7. CASE SearchOn(seen)
      BY <3>4, <3>5, <3>7 DEF SearchOn
    <3>8. CASE SearchEnd(seen)
      BY <3>4, <3>5, <3>8 DEF SearchEnd, Role
    <3>. QED
      BY <3>1, <3>6, <3>7, <3>8
  <2>. QED
    BY <1>5, <2>1, <2>2, <2>3 DEF Detected, Step
<1>6. CASE OpenChannel
  <2>1. Probed \in Channel
    BY <1>6, ProbedIsChannel DEF OpenChannel, Step
  <2>2. socket' \in [Fd -> Socket] /\ sock' \in Descriptor
    BY <1>6, <2>1, OpenSocketType DEF OpenChannel
  <2>. QED
    BY <1>6, <2>2 DEF OpenChannel, Step
<1>7. CASE Assign
  <2>1. /\ found' \in SUBSET Role /\ target' \in Role /\ next' \in 0 .. Len(Interfaces)
        /\ pc' \in {"detect", "socket", "register", "idle"}
        /\ pc' \in {"detect", "socket"} /\ call = "init" => next' # 0
        /\ result' \in {"none", "OK", "ERROR"}
    <3>1. Len(Interfaces) \in Nat
      BY ApiAssumption
    <3>2. pc = "assign" /\ call \in {"init", "open"} /\ next \in 0 .. Len(Interfaces)
      BY <1>7 DEF Assign, Step
    <3>3. CASE SearchOn(found)
      BY <1>7, <3>1, <3>2, <3>3 DEF Assign, SearchOn, Return
    <3>4. CASE SearchEnd(found)
      BY <1>7, <3>1, <3>2, <3>4 DEF Assign, SearchEnd, Return, Role
    <3>5. CASE next = 0 /\ pc' \in {"register", "idle"}
      BY <1>7, <3>1, <3>2, <3>5 DEF Assign, Return, Role, SearchOn, SearchEnd
    <3>. QED
      BY <1>7, <3>3, <3>4, <3>5 DEF Assign, Return
  <2>. QED
    BY <1>7, <2>1 DEF Assign, Step, Descriptor
<1>8. CASE Register
  BY <1>8 DEF Register, Step, Return
<1>9. CASE ArmOscc
  BY <1>9 DEF ArmOscc, Step, Return, AsyncEnable, IsOpen, Socket
<1>10. CASE ArmVehicle
  BY <1>10 DEF ArmVehicle, Step, Return, AsyncEnable, IsOpen, Socket
<1>11. CASE CloseOscc
  BY <1>11, ClosedIsSocket DEF CloseOscc, Step, CloseSocket, IsOpen
<1>12. CASE CloseVehicle
  BY <1>12, ClosedIsSocket DEF CloseVehicle, Step, CloseSocket, IsOpen
<1>13. ASSUME NEW order \in {"enable", "disable"}, CallOrder(order) PROVE TypeInv'
  BY <1>13 DEF CallOrder, Step
<1>14. CASE WriteOrder
  <2>1. ordered' \in [DOMAIN Modules -> Orders]
    BY <1>14 DEF WriteOrder, Order, Step, Orders
  <2>. QED
    BY <1>14, <2>1, ApiAssumption DEF WriteOrder, Step, Return
<1>15. CASE Publish
  BY <1>15 DEF Publish, Step
<1>16. ASSUME NEW kind \in Kinds, Subscribe(kind) PROVE TypeInv'
  BY <1>16 DEF Subscribe, Step
<1>17. CASE Signal
  BY <1>17 DEF Signal
<1>18. CASE ReadOscc
  <2>1. socket' \in [Fd -> Socket]
    BY <1>18, TakeType DEF ReadOscc, HasFrame, IsOpen
  <2>. QED
    BY <1>18, <2>1 DEF ReadOscc, Deliver, FaultCallback, Orders
<1>19. CASE OsccDrained
  BY <1>19 DEF OsccDrained
<1>20. CASE ReadVehicle
  <2>1. socket' \in [Fd -> Socket]
    BY <1>20, TakeType DEF ReadVehicle, HasFrame, IsOpen
  <2>. QED
    BY <1>20, <2>1 DEF ReadVehicle
<1>21. CASE VehicleDrained
  BY <1>21 DEF VehicleDrained
<1>22. ASSUME NEW c \in Channel, NEW kind \in Kinds, Arrive(c, kind) PROVE TypeInv'
  <2>1. socket' \in [Fd -> Socket]
    BY <1>22, ArriveType
  <2>. QED
    BY <1>22, <2>1, ApiAssumption DEF Arrive
<1>23. CASE UNCHANGED vars
  BY <1>23 DEF vars
<1>. QED
  BY <1>1, <1>2, <1>3, <1>4, <1>5, <1>6, <1>7, <1>8, <1>9, <1>10, <1>11, <1>12,
     <1>13, <1>14, <1>15, <1>16, <1>17, <1>18, <1>19, <1>20, <1>21, <1>22,
     <1>23 DEF Next, Main, Handler

\* No wake-up is lost.  The delicate steps are OsccDrained, which leaves an
\* empty queue behind, and Arrive, which raises the signal for what it adds.
LEMMA WakeStep == TypeInv /\ WakeInv /\ [Next]_vars => WakeInv'
<1> SUFFICES ASSUME TypeInv, WakeInv, [Next]_vars PROVE WakeInv'
  OBVIOUS
<1> USE DEF WakeInv, NoFrameStranded, SignalIsHandled, WillRead
<1>1. CASE CallInit
  BY <1>1 DEF CallInit, Step, MayOpen, Signalled
<1>2. ASSUME NEW c \in Channel, CallOpen(c) PROVE WakeInv'
  BY <1>2 DEF CallOpen, Step, MayOpen, Signalled
<1>3. CASE CallClose
  BY <1>3 DEF CallClose, Step, Signalled
<1>4. CASE Detect
  <2>1. Probed \in Channel /\ Probed # "none"
    BY <1>4, ProbedIsChannel DEF Detect, Step, SearchSteps
  <2>2. \A f \in Fd : socket'[f] # socket[f] => f = sock'
    BY <1>4, <2>1, OpenSocketType DEF TypeInv, Detect
  <2>3. sock' \in Fd => socket'[sock'] = [channel |-> Probed, async |-> FALSE, queue |-> <<>>]
    BY <1>4, <2>1, OpenSocketType DEF TypeInv, Detect
  <2>4. \A f \in Fd : Signalled(f)' => Signalled(f) /\ socket'[f] = socket[f]
    BY <2>2, <2>3 DEF Signalled
  <2>5. \A f \in Fd : socket'[f].async => socket[f].async /\ socket'[f] = socket[f]
    BY <2>2, <2>3
  <2>. QED
    BY <1>4, <2>1, <2>2, <2>3, <2>4, <2>5 DEF Detect, Step, Signalled
<1>5. CASE Detected
  <2>1. \A f \in Fd : socket'[f] = socket[f] \/ socket'[f] = Closed
    BY <1>5 DEF TypeInv, TypeOK, Detected
  <2>2. \A f \in Fd : Signalled(f)' => Signalled(f) /\ socket'[f] = socket[f]
    BY <2>1, ClosedIsSocket DEF Signalled
  <2>3. \A f \in Fd : socket'[f].async => socket[f].async /\ socket'[f] = socket[f]
    BY <2>1, ClosedIsSocket
  <2>. QED
    BY <1>5, <2>1, <2>2, <2>3, ClosedIsSocket DEF Detected, Step, SearchOn, SearchEnd, Signalled
<1>6. CASE OpenChannel
  <2>1. Probed \in Channel /\ Probed # "none"
    BY <1>6, ProbedIsChannel DEF OpenChannel, Step, SearchSteps
  <2>2. \A f \in Fd : socket'[f] # socket[f] => f = sock'
    BY <1>6, <2>1, OpenSocketType DEF TypeInv, OpenChannel
  <2>3. sock' \in Fd => socket'[sock'] = [channel |-> Probed, async |-> FALSE, queue |-> <<>>]
    BY <1>6, <2>1, OpenSocketType DEF TypeInv, OpenChannel
  <2>4. \A f \in Fd : Signalled(f)' => Signalled(f) /\ socket'[f] = socket[f]
    BY <2>2, <2>3 DEF Signalled
  <2>5. \A f \in Fd : socket'[f].async => socket[f].async /\ socket'[f] = socket[f]
    BY <2>2, <2>3
  <2>. QED
    BY <1>6, <2>1, <2>2, <2>3, <2>4, <2>5 DEF OpenChannel, Step, Signalled
<1>7. CASE Assign
  BY <1>7 DEF Assign, Step, SearchOn, SearchEnd, Return, Signalled
<1>8. CASE Register
  BY <1>8 DEF Register, Step, Return, Signalled
<1>9. CASE ArmOscc
  <2>1. CASE AsyncEnable(oscc_fd)
    <3>1. /\ \A f \in Fd : Signalled(f)' <=> Signalled(f)
          /\ \A f \in Fd : socket[f].async => socket'[f].async
          /\ \A f \in Fd : socket'[f].channel = socket[f].channel
          /\ \A f \in Fd : f # oscc_fd => socket'[f] = socket[f]
          /\ oscc_fd \in Fd /\ socket[oscc_fd].channel # "none"
      BY <2>1, ArmType DEF TypeInv, TypeOK, AsyncEnable
    <3>. QED
      BY <1>9, <3>1 DEF ArmOscc, Step, Return, Signalled
  <2>2. CASE UNCHANGED socket
    BY <1>9, <2>2 DEF ArmOscc, Step, Return, Signalled
  <2>. QED
    BY <1>9, <2>1, <2>2 DEF ArmOscc
<1>10. CASE ArmVehicle
  <2>1. CASE AsyncEnable(vehicle_fd)
    <3>1. /\ \A f \in Fd : Signalled(f)' <=> Signalled(f)
          /\ \A f \in Fd : socket[f].async => socket'[f].async
          /\ \A f \in Fd : socket'[f].channel = socket[f].channel
          /\ \A f \in Fd : f # vehicle_fd => socket'[f] = socket[f]
          /\ vehicle_fd \in Fd /\ socket[vehicle_fd].channel # "none"
      BY <2>1, ArmType DEF TypeInv, TypeOK, AsyncEnable
    <3>. QED
      BY <1>10, <3>1 DEF ArmVehicle, Step, Return, Signalled
  <2>2. CASE UNCHANGED socket
    BY <1>10, <2>2 DEF ArmVehicle, Step, Return, Signalled
  <2>. QED
    BY <1>10, <2>1, <2>2 DEF ArmVehicle
<1>11. CASE CloseOscc
  <2>1. \A f \in Fd : socket'[f] = socket[f] \/ socket'[f] = Closed
    BY <1>11 DEF TypeInv, TypeOK, CloseOscc, CloseSocket, IsOpen
  <2>2. \A f \in Fd : Signalled(f)' => Signalled(f) /\ socket'[f] = socket[f]
    BY <2>1, ClosedIsSocket DEF Signalled
  <2>3. \A f \in Fd : socket'[f].async => socket[f].async /\ socket'[f] = socket[f]
    BY <2>1, ClosedIsSocket
  <2>. QED
    BY <1>11, <2>1, <2>2, <2>3, ClosedIsSocket DEF CloseOscc, Step, Signalled
<1>12. CASE CloseVehicle
  <2>1. \A f \in Fd : socket'[f] = socket[f] \/ socket'[f] = Closed
    BY <1>12 DEF TypeInv, TypeOK, CloseVehicle, CloseSocket, IsOpen
  <2>2. \A f \in Fd : Signalled(f)' => Signalled(f) /\ socket'[f] = socket[f]
    BY <2>1, ClosedIsSocket DEF Signalled
  <2>3. \A f \in Fd : socket'[f].async => socket[f].async /\ socket'[f] = socket[f]
    BY <2>1, ClosedIsSocket
  <2>. QED
    BY <1>12, <2>1, <2>2, <2>3, ClosedIsSocket DEF CloseVehicle, Step, Signalled
<1>13. ASSUME NEW order \in {"enable", "disable"}, CallOrder(order) PROVE WakeInv'
  BY <1>13 DEF CallOrder, Step, Signalled
<1>14. CASE WriteOrder
  BY <1>14 DEF WriteOrder, Step, Return, Signalled
<1>15. CASE Publish
  BY <1>15 DEF Publish, Step, Signalled
<1>16. ASSUME NEW kind \in Kinds, Subscribe(kind) PROVE WakeInv'
  BY <1>16 DEF Subscribe, Step, Signalled
<1>17. CASE Signal
  BY <1>17 DEF Signal, Signalled
<1>18. CASE ReadOscc
  <2>1. oscc_fd \in Fd /\ HasFrame(oscc_fd) /\ Take(oscc_fd)
    BY <1>18 DEF ReadOscc, HasFrame, IsOpen
  <2>2. /\ \A g \in Fd : socket'[g].async = socket[g].async
        /\ \A g \in Fd : socket'[g].channel = socket[g].channel
        /\ \A g \in Fd : Signalled(g)' => Signalled(g)
        /\ \A g \in Fd : g # oscc_fd => socket'[g] = socket[g]
    BY <2>1, TakeType DEF TypeInv
  <2>. QED
    BY <1>18, <2>1, <2>2 DEF ReadOscc, Signalled
<1>19. CASE OsccDrained
  <2>1. oscc_fd \in Fd => ~Signalled(oscc_fd)
    BY <1>19 DEF OsccDrained, HasFrame, IsOpen, Signalled
  <2>. QED
    BY <1>19, <2>1 DEF OsccDrained, Signalled
<1>20. CASE ReadVehicle
  <2>1. vehicle_fd \in Fd /\ HasFrame(vehicle_fd) /\ Take(vehicle_fd)
    BY <1>20 DEF ReadVehicle, HasFrame, IsOpen
  <2>2. /\ \A g \in Fd : socket'[g].async = socket[g].async
        /\ \A g \in Fd : socket'[g].channel = socket[g].channel
        /\ \A g \in Fd : Signalled(g)' => Signalled(g)
        /\ \A g \in Fd : g # vehicle_fd => socket'[g] = socket[g]
    BY <2>1, TakeType DEF TypeInv
  <2>. QED
    BY <1>20, <2>1, <2>2 DEF ReadVehicle, Signalled
<1>21. CASE VehicleDrained
  <2>1. vehicle_fd \in Fd => ~Signalled(vehicle_fd)
    BY <1>21 DEF VehicleDrained, HasFrame, IsOpen, Signalled
  <2>. QED
    BY <1>21, <2>1 DEF VehicleDrained, Signalled
<1>22. ASSUME NEW c \in Channel, NEW kind \in Kinds, Arrive(c, kind) PROVE WakeInv'
  <2>1. /\ \A g \in Fd : socket'[g].async = socket[g].async
        /\ \A g \in Fd : socket'[g].channel = socket[g].channel
        /\ \A g \in Fd : Signalled(g)' => Signalled(g) \/ (socket[g].async /\ pending')
    BY <1>22, ArriveType DEF TypeInv
  <2>. QED
    BY <1>22, <2>1 DEF Arrive, Signalled
<1>23. CASE UNCHANGED vars
  BY <1>23 DEF vars, Signalled
<1>. QED
  BY <1>1, <1>2, <1>3, <1>4, <1>5, <1>6, <1>7, <1>8, <1>9, <1>10, <1>11, <1>12,
     <1>13, <1>14, <1>15, <1>16, <1>17, <1>18, <1>19, <1>20, <1>21, <1>22,
     <1>23 DEF Next, Main, Handler

\* The bus behind a descriptor is that of its socket, whatever its mode and
\* queue.
LEMMA SameReach ==
  ASSUME topology' = topology, \A f \in Fd : socket'[f].channel = socket[f].channel
  PROVE  \A f : Reaches(f)' <=> Reaches(f)
BY DEF Reaches, IsOpen

\* What has been ordered.  The handler only adds orders of the callback.
LEMMA OrderStep == TypeInv /\ OrderInv /\ [Next]_vars => OrderInv'
<1> SUFFICES ASSUME TypeInv, OrderInv, [Next]_vars PROVE OrderInv'
  OBVIOUS
<1> USE DEF OrderInv, OrdersTold
<1>1. CASE CallInit
  BY <1>1 DEF TypeInv, CallInv, OpenSteps, CallInit, Step, MayOpen
<1>2. ASSUME NEW c \in Channel, CallOpen(c) PROVE OrderInv'
  BY <1>2 DEF TypeInv, CallInv, OpenSteps, CallOpen, Step, MayOpen
<1>3. CASE CallClose
  BY <1>3 DEF TypeInv, CallInv, OpenSteps, CallClose, Step
<1>4. CASE Detect
  BY <1>4 DEF TypeInv, CallInv, OpenSteps, Detect, Step
<1>5. CASE Detected
  BY <1>5 DEF TypeInv, CallInv, OpenSteps, Detected, Step, SearchOn, SearchEnd
<1>6. CASE OpenChannel
  BY <1>6 DEF TypeInv, CallInv, OpenSteps, OpenChannel, Step
<1>7. CASE Assign
  BY <1>7 DEF TypeInv, CallInv, OpenSteps, Assign, Step, SearchOn, SearchEnd, Return
<1>8. CASE Register
  BY <1>8 DEF TypeInv, CallInv, OpenSteps, Register, Step, Return
<1>9. CASE ArmOscc
  BY <1>9 DEF TypeInv, CallInv, OpenSteps, ArmOscc, Step, Return
<1>10. CASE ArmVehicle
  BY <1>10 DEF TypeInv, CallInv, OpenSteps, ArmVehicle, Step, Return
<1>11. CASE CloseOscc
  BY <1>11 DEF TypeInv, CallInv, OpenSteps, CloseOscc, Step
<1>12. CASE CloseVehicle
  BY <1>12 DEF TypeInv, CallInv, OpenSteps, CloseVehicle, Step
<1>13. ASSUME NEW order \in {"enable", "disable"}, CallOrder(order) PROVE OrderInv'
  BY <1>13, ApiAssumption DEF TypeInv, TypeOK, CallOrder, Step
<1>14. CASE WriteOrder
  <2>1. /\ pc = "write" /\ todo \in 1 .. Len(Modules) /\ Len(Modules) \in Nat
        /\ call \in {"enable", "disable"} /\ call' = call
        /\ ordered \in [1 .. Len(Modules) -> Orders] /\ DOMAIN Modules = 1 .. Len(Modules)
    BY <1>14, ApiAssumption DEF TypeInv, TypeOK, CallInv, WriteOrder, Step
  <2>2. CASE Order(todo, call)
    <3>0. Reaches(oscc_fd)' <=> Reaches(oscc_fd)
      BY <1>14 DEF WriteOrder, Reaches, IsOpen
    <3>1. Reaches(oscc_fd) => \A m \in DOMAIN Modules :
             m < todo + 1 => ordered'[m] \in {call, "callback"}
      BY <2>1, <2>2 DEF Order
    <3>2. CASE todo = Len(Modules) /\ Return("OK") /\ todo' = 1
      <4>1. \A m \in DOMAIN Modules : m < todo + 1
        BY <2>1, <3>2
      <4>. QED
        BY <2>1, <3>0, <3>1, <3>2, <4>1 DEF Return
    <3>3. CASE todo' = todo + 1 /\ UNCHANGED <<pc, result>>
      BY <2>1, <3>0, <3>1, <3>3
    <3>4. CASE Return("ERROR") /\ todo' = 1
      BY <3>4 DEF Return
    <3>. QED
      BY <1>14, <3>2, <3>3, <3>4 DEF WriteOrder
  <2>3. CASE Return("ERROR") /\ todo' = 1
    BY <2>3 DEF Return
  <2>. QED
    BY <1>14, <2>2, <2>3 DEF WriteOrder
<1>15. CASE Publish
  BY <1>15 DEF TypeInv, CallInv, OpenSteps, Publish, Step
<1>16. ASSUME NEW kind \in Kinds, Subscribe(kind) PROVE OrderInv'
  BY <1>16, SameReach DEF TypeInv, CallInv, OpenSteps, Subscribe, Step
<1>17. CASE Signal
  BY <1>17, SameReach DEF Signal
<1>18. CASE ReadOscc
  <2>1. \A f : Reaches(f)' <=> Reaches(f)
    BY <1>18, TakeType, SameReach DEF TypeInv, ReadOscc, HasFrame, IsOpen
  <2>. QED
    BY <1>18, <2>1 DEF TypeInv, TypeOK, CallInv, ReadOscc, Deliver, FaultCallback
<1>19. CASE OsccDrained
  BY <1>19, SameReach DEF OsccDrained
<1>20. CASE ReadVehicle
  <2>1. \A f : Reaches(f)' <=> Reaches(f)
    BY <1>20, TakeType, SameReach DEF TypeInv, ReadVehicle, HasFrame, IsOpen
  <2>. QED
    BY <1>20, <2>1 DEF ReadVehicle
<1>21. CASE VehicleDrained
  BY <1>21, SameReach DEF VehicleDrained
<1>22. ASSUME NEW c \in Channel, NEW kind \in Kinds, Arrive(c, kind) PROVE OrderInv'
  <2>1. \A f : Reaches(f)' <=> Reaches(f)
    BY <1>22, ArriveType, SameReach DEF TypeInv, Arrive
  <2>. QED
    BY <1>22, <2>1 DEF Arrive
<1>23. CASE UNCHANGED vars
  BY <1>23, SameReach DEF vars
<1>. QED
  BY <1>1, <1>2, <1>3, <1>4, <1>5, <1>6, <1>7, <1>8, <1>9, <1>10, <1>11, <1>12,
     <1>13, <1>14, <1>15, <1>16, <1>17, <1>18, <1>19, <1>20, <1>21, <1>22,
     <1>23 DEF Next, Main, Handler

\* What oscc_init and oscc_open have achieved; nothing but a later call undoes
\* it.
LEMMA OpenStep == TypeInv /\ OpenInv /\ [Next]_vars => OpenInv'
<1> SUFFICES ASSUME TypeInv, OpenInv, [Next]_vars PROVE OpenInv'
  OBVIOUS
<1> USE DEF OpenInv, IsOpen, Bound
<1>1. CASE CallInit
  BY <1>1 DEF CallInit, MayOpen, Step
<1>2. ASSUME NEW c \in Channel, CallOpen(c) PROVE OpenInv'
  BY <1>2 DEF CallOpen, MayOpen, Step
<1>3. CASE CallClose
  BY <1>3 DEF CallClose, Step
<1>4. CASE Detect
  BY <1>4 DEF Detect, Step
<1>5. CASE Detected
  BY <1>5 DEF TypeInv, CallInv, OpenSteps, Detected, Step, SearchOn, SearchEnd, Wanted
<1>6. CASE OpenChannel
  <2>1. Probed \in Channel /\ Probed # "none"
    BY <1>6, ProbedIsChannel DEF OpenChannel, Step, SearchSteps
  <2>2. sock' \in Fd => socket'[sock'] = [channel |-> Probed, async |-> FALSE, queue |-> <<>>]
    BY <1>6, <2>1, OpenSocketType DEF TypeInv, OpenChannel
  <2>. QED
    BY <1>6, <2>1, <2>2 DEF OpenChannel, Step, Probed
<1>7. CASE Assign
  BY <1>7 DEF TypeInv, CallInv, OpenSteps, SearchSteps, Assign, Step, SearchOn, SearchEnd, Return
<1>8. CASE Register
  BY <1>8 DEF TypeInv, CallInv, OpenSteps, Register, Step, Return
<1>9. CASE ArmOscc
  <2>1. CASE AsyncEnable(oscc_fd) /\ pc' = "arm_vehicle"
    BY <1>9, <2>1 DEF TypeInv, TypeOK, Socket, ArmOscc, Step, AsyncEnable
  <2>2. CASE Return("ERROR")
    BY <1>9, <2>2 DEF ArmOscc, Return
  <2>. QED
    BY <1>9, <2>1, <2>2 DEF ArmOscc
<1>10. CASE ArmVehicle
  <2>1. /\ \A g \in Fd : socket'[g].channel = socket[g].channel
        /\ \A g \in Fd : socket[g].async => socket'[g].async
    BY <1>10, ArmType DEF TypeInv, TypeOK, ArmVehicle
  <2>. QED
    BY <1>10, <2>1 DEF ArmVehicle, Step, Return
<1>11. CASE CloseOscc
  BY <1>11 DEF TypeInv, CallInv, CloseOscc, Step
<1>12. CASE CloseVehicle
  BY <1>12 DEF TypeInv, CallInv, CloseVehicle, Step
<1>13. ASSUME NEW order \in {"enable", "disable"}, CallOrder(order) PROVE OpenInv'
  BY <1>13 DEF CallOrder, Step
<1>14. CASE WriteOrder
  BY <1>14 DEF TypeInv, CallInv, WriteOrder, Step, Return
<1>15. CASE Publish
  BY <1>15 DEF Publish, Step
<1>16. ASSUME NEW kind \in Kinds, Subscribe(kind) PROVE OpenInv'
  BY <1>16 DEF Subscribe, Step
<1>17. CASE Signal
  BY <1>17 DEF Signal
<1>18. CASE ReadOscc
  <2>1. /\ \A g \in Fd : socket'[g].channel = socket[g].channel
        /\ \A g \in Fd : socket[g].async => socket'[g].async
    BY <1>18, TakeType DEF TypeInv, ReadOscc, HasFrame
  <2>. QED
    BY <1>18, <2>1 DEF ReadOscc
<1>19. CASE OsccDrained
  BY <1>19 DEF OsccDrained
<1>20. CASE ReadVehicle
  <2>1. /\ \A g \in Fd : socket'[g].channel = socket[g].channel
        /\ \A g \in Fd : socket[g].async => socket'[g].async
    BY <1>20, TakeType DEF TypeInv, ReadVehicle, HasFrame
  <2>. QED
    BY <1>20, <2>1 DEF ReadVehicle
<1>21. CASE VehicleDrained
  BY <1>21 DEF VehicleDrained
<1>22. ASSUME NEW c \in Channel, NEW kind \in Kinds, Arrive(c, kind) PROVE OpenInv'
  <2>1. /\ \A g \in Fd : socket'[g].channel = socket[g].channel
        /\ \A g \in Fd : socket[g].async => socket'[g].async
    BY <1>22, ArriveType DEF TypeInv
  <2>. QED
    BY <1>22, <2>1 DEF Arrive
<1>23. CASE UNCHANGED vars
  BY <1>23 DEF vars
<1>. QED
  BY <1>1, <1>2, <1>3, <1>4, <1>5, <1>6, <1>7, <1>8, <1>9, <1>10, <1>11, <1>12,
     <1>13, <1>14, <1>15, <1>16, <1>17, <1>18, <1>19, <1>20, <1>21, <1>22,
     <1>23 DEF Next, Main, Handler

\* The steps outside a search leave the numbers and channels alone, or begin a
\* call of which nothing is known.
LEMMA FoundStep == TypeInv /\ OpenInv /\ FoundInv /\ [Next]_vars => FoundInv'
<1> SUFFICES ASSUME TypeInv, OpenInv, FoundInv, [Next]_vars PROVE FoundInv'
  OBVIOUS
<1> USE DEF FoundInv, Opening, OpenSteps
<1>1. CASE CallInit
  BY <1>1 DEF CallInit, MayOpen, Step
<1>2. ASSUME NEW c \in Channel, CallOpen(c) PROVE FoundInv'
  BY <1>2 DEF CallOpen
<1>3. CASE CallClose
  BY <1>3 DEF CallClose
<1>4. CASE Detect
  <2>1. Probed \in Channel /\ pc = "detect" /\ pc' = "detected"
    BY <1>4, ProbedIsChannel DEF Detect, Step, SearchSteps
  <2>2. /\ \A f \in Fd : socket'[f] # socket[f] => ~IsOpen(f)
        /\ sock' \in Fd => ~IsOpen(sock')
    BY <1>4, <2>1, OpenSocketType DEF TypeInv, Detect
  <2>3. \A f \in Fd : Reaches(f) => Reaches(f)' /\ sock' # f
    BY <1>4, <2>2 DEF Detect, Reaches, IsOpen
  <2>. QED
    BY <1>4, <2>1, <2>3 DEF Detect
<1>5. CASE Detected
  <2>1. pc = "detected" /\ UNCHANGED <<topology, oscc_fd, call>>
    BY <1>5 DEF Detected, Step
  <2>2. PICK contents \in SUBSET (IF sock \in Fd THEN topology[Probed] ELSE {}) :
          LET seen == IF next = 0 THEN found ELSE found \cup contents IN
          \/ /\ Wanted(contents) # {}
             /\ pc' = "socket" /\ target' \in Wanted(contents)
             /\ found' = seen /\ UNCHANGED next
          \/ /\ Wanted(contents) = {}
             /\ SearchOn(seen) \/ SearchEnd(seen)
    BY <1>5 DEF Detected
  <2> DEFINE seen == IF next = 0 THEN found ELSE found \cup contents
  <2>3. ASSUME call = "init", "oscc" \in found
        PROVE  oscc_fd \notin Fd \/ Reaches(oscc_fd)'
    <3>1. oscc_fd \notin Fd \/ (Reaches(oscc_fd) /\ sock # oscc_fd)
      BY <2>1, <2>3
    <3>2. oscc_fd \in Fd /\ sock # oscc_fd => socket'[oscc_fd] = socket[oscc_fd]
      BY <1>5 DEF Detected, TypeInv, TypeOK
    <3>. QED
      BY <2>1, <3>1, <3>2 DEF Reaches, IsOpen
  <2>4. ASSUME call = "init"
        PROVE  /\ next # 0
               /\ "oscc" \in contents => Wanted(contents) = {"oscc"}
               /\ target' = "oscc" /\ pc' = "socket" => "oscc" \in contents
    <3>1. next # 0
      BY <2>1, <2>4 DEF TypeInv, CallInv, SearchSteps
    <3>2. "oscc" \in contents => Wanted(contents) = {"oscc"}
      BY <2>4, <3>1 DEF Wanted
    <3>3. "oscc" \notin contents => Wanted(contents) = contents
      BY <3>1 DEF Wanted
    <3>4. target' = "oscc" /\ pc' = "socket" => "oscc" \in contents
      BY <2>2, <2>4, <3>2, <3>3 DEF SearchOn, SearchEnd
    <3>. QED
      BY <3>1, <3>2, <3>4
  <2>5. CASE /\ Wanted(contents) # {}
             /\ pc' = "socket" /\ target' \in Wanted(contents)
             /\ found' = seen /\ UNCHANGED next
    <3>1. call = "init" /\ target' = "oscc" => "oscc" \in topology'[Probed']
      BY <1>5, <2>1, <2>2, <2>4, <2>5 DEF Detected, Probed
    <3>2. call = "init" /\ target' # "oscc" => ("oscc" \in found' => "oscc" \in found)
      <4>1. ASSUME call = "init", target' # "oscc" PROVE "oscc" \notin contents
        BY <2>4, <2>5, <4>1
      <4>. QED
        BY <2>5, <4>1
    <3>. QED
      BY <2>1, <2>3, <2>5, <3>1, <3>2
  <2>6. CASE Wanted(contents) = {} /\ (SearchOn(seen) \/ SearchEnd(seen))
    <3>1. call = "init" => ("oscc" \in found' => "oscc" \in found)
      BY <2>4, <2>6 DEF SearchOn, SearchEnd
    <3>2. pc' \in {"detect", "register"} \/ call # "init"
      BY <2>1, <2>6 DEF SearchOn, SearchEnd
    <3>. QED
      BY <2>1, <2>3, <3>1, <3>2
  <2>. QED
    BY <2>2, <2>5, <2>6
<1>6. CASE OpenChannel
  <2>1. Probed \in Channel /\ Probed # "none" /\ pc = "socket" /\ pc' = "assign"
    BY <1>6, ProbedIsChannel DEF OpenChannel, Step, SearchSteps
  <2>2. /\ \A f \in Fd : socket'[f] # socket[f] => ~IsOpen(f)
        /\ sock' \in Fd => socket'[sock'] = [channel |-> Probed, async |-> FALSE, queue |-> <<>>]
    BY <1>6, <2>1, OpenSocketType DEF TypeInv, OpenChannel
  <2>3. UNCHANGED <<topology, oscc_fd, call, found, target, next, chan, result>>
    BY <1>6 DEF OpenChannel
  <2>4. \A f \in Fd : Reaches(f) => Reaches(f)'
    BY <2>2, <2>3 DEF Reaches, IsOpen
  <2>5. sock' \in Fd /\ "oscc" \in topology[Probed] => Reaches(sock)'
    BY <2>1, <2>2, <2>3 DEF Reaches, IsOpen
  <2>. QED
    BY <2>1, <2>3, <2>4, <2>5 DEF Probed
<1>7. CASE Assign
  <2>1. /\ pc = "assign" /\ UNCHANGED <<topology, socket, call>>
        /\ oscc_fd' = IF target = "oscc" THEN sock ELSE oscc_fd
        /\ sock' = UNINITIALIZED_SOCKET
    BY <1>7 DEF Assign, Step
  <2>2. \A f : Reaches(f)' <=> Reaches(f)
    BY <2>1, SameReach
  <2>3. CASE call = "init"
    <3>1. SearchOn(found) \/ SearchEnd(found)
      BY <1>7, <2>3 DEF Assign, Step, TypeInv, CallInv, SearchSteps
    <3>2. pc' \in {"detect", "register"} /\ found' = found
      BY <2>3, <3>1 DEF SearchOn, SearchEnd
    <3>. QED
      BY <2>1, <2>2, <2>3, <3>2
  <2>. QED
    BY <2>1, <2>3
<1>8. CASE Register
  <2>1. \A f : Reaches(f)' <=> Reaches(f)
    BY <1>8, SameReach DEF Register
  <2>. QED
    BY <1>8, <2>1 DEF Register, Step, Return
<1>9. CASE ArmOscc
  <2>1. CASE AsyncEnable(oscc_fd) /\ pc' = "arm_vehicle"
    <3>1. \A f : Reaches(f)' <=> Reaches(f)
      BY <1>9, <2>1, ArmType, SameReach DEF TypeInv, TypeOK, ArmOscc
    <3>. QED
      BY <1>9, <2>1, <3>1 DEF ArmOscc, Step
  <2>2. CASE Return("ERROR")
    BY <1>9, <2>2 DEF ArmOscc, Return
  <2>. QED
    BY <1>9, <2>1, <2>2 DEF ArmOscc
<1>10. CASE ArmVehicle
  <2>1. \A f \in Fd : socket'[f].channel = socket[f].channel
    BY <1>10, ArmType DEF TypeInv, TypeOK, ArmVehicle
  <2>2. \A f : Reaches(f)' <=> Reaches(f)
    BY <1>10, <2>1, SameReach DEF ArmVehicle
  <2>3. oscc_fd \in Fd
    BY <1>10 DEF OpenInv, IsOpen, ArmVehicle, Step
  <2>. QED
    BY <1>10, <2>2, <2>3 DEF ArmVehicle, Step, Return
<1>11. CASE CloseOscc
  BY <1>11 DEF TypeInv, CallInv, CloseOscc, Step
<1>12. CASE CloseVehicle
  BY <1>12 DEF TypeInv, CallInv, CloseVehicle, Step
<1>13. ASSUME NEW order \in {"enable", "disable"}, CallOrder(order) PROVE FoundInv'
  BY <1>13 DEF CallOrder
<1>14. CASE WriteOrder
  BY <1>14 DEF TypeInv, CallInv, WriteOrder, Step
<1>15. CASE Publish
  BY <1>15 DEF Publish
<1>16. ASSUME NEW kind \in Kinds, Subscribe(kind) PROVE FoundInv'
  BY <1>16, SameReach DEF Subscribe, Step
<1>17. CASE Handler
  <2>1. \A f \in Fd : socket'[f].channel = socket[f].channel
    BY <1>17, TakeType DEF TypeInv, Handler, Signal, ReadOscc, OsccDrained, ReadVehicle,
       VehicleDrained, HasFrame, IsOpen
  <2>2. UNCHANGED <<topology, oscc_fd, pc, call, locals, result>>
    BY <1>17 DEF Handler, Signal, ReadOscc, OsccDrained, ReadVehicle, VehicleDrained
  <2>. QED
    BY <2>1, <2>2, SameReach DEF Probed
<1>18. ASSUME NEW c \in Channel, NEW kind \in Kinds, Arrive(c, kind) PROVE FoundInv'
  <2>1. \A f \in Fd : socket'[f].channel = socket[f].channel
    BY <1>18, ArriveType DEF TypeInv
  <2>2. UNCHANGED <<topology, oscc_fd, pc, call, locals, result>>
    BY <1>18 DEF Arrive
  <2>. QED
    BY <2>1, <2>2, SameReach DEF Probed
<1>19. CASE UNCHANGED vars
  BY <1>19, SameReach DEF vars, Probed
<1>. QED
  BY <1>1, <1>2, <1>3, <1>4, <1>5, <1>6, <1>7, <1>8, <1>9, <1>10, <1>11, <1>12,
     <1>13, <1>14, <1>15, <1>16, <1>17, <1>18, <1>19 DEF Next, Main

----------------------------------------------------------------------------

\* All layers hold in every reachable state.
THEOREM Invariance == Spec => [](TypeInv /\ WakeInv /\ OrderInv /\ OpenInv /\ FoundInv)
<1>1. Init => TypeInv /\ WakeInv /\ OrderInv /\ OpenInv /\ FoundInv
  BY InitInv
<1>2. TypeInv /\ WakeInv /\ OrderInv /\ OpenInv /\ FoundInv /\ [Next]_vars
        => (TypeInv /\ WakeInv /\ OrderInv /\ OpenInv /\ FoundInv)'
  BY TypeStep, WakeStep, OrderStep, OpenStep, FoundStep
<1>. QED
  BY <1>1, <1>2, PTL DEF Spec

\* Every variable of the library and the kernel keeps its type: the write loop
\* stays in the list of modules, the search in the list of devices.
THEOREM TypeCorrect == Spec => []TypeOK
<1>1. TypeInv => TypeOK
  BY DEF TypeInv
<1>. QED
  BY <1>1, Invariance, PTL

\* The handler of oscc.c loses no wake-up, for any number of sockets and
\* frames: one pending SIGIO is enough for two sockets drained in turn.
THEOREM NoWakeUpLost == Spec => []NoFrameStranded
<1>1. WakeInv => NoFrameStranded
  BY DEF WakeInv
<1>. QED
  BY <1>1, Invariance, PTL

\* No order of calls and failures lets SIGIO end the client.
THEOREM SignalSafety == Spec => []SignalIsHandled
<1>1. WakeInv => SignalIsHandled
  BY DEF WakeInv
<1>. QED
  BY <1>1, Invariance, PTL

\* OSCC_OK of oscc_enable and oscc_disable holds for every module, for any
\* list of modules and with callbacks that disable in between.
THEOREM OrdersTrue == Spec => []OrdersTold
<1>1. OrderInv => OrdersTold
  BY DEF OrderInv
<1>. QED
  BY <1>1, Invariance, PTL

\* OSCC_OK of oscc_init and oscc_open means an armed socket on the channel the
\* client named or, if the search found OSCC, on one that carries it, for any
\* list of devices, any topology, failures anywhere and any order of calls.
\* Of an oscc_init that found none it says that some armed socket is taken.
THEOREM OpenTrue == Spec => []OpenTold
<1>1. OpenInv /\ FoundInv => OpenTold
  BY DEF OpenInv, FoundInv, OpenTold, Bound
<1>. QED
  BY <1>1, Invariance, PTL
=============================================================================
