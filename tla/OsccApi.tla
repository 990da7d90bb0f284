------------------------------- MODULE OsccApi -------------------------------
(***************************************************************************)
(* The client library, api/src/oscc.c: the calls of the main program, cut  *)
(* at every system call and every write to a global, and the SIGIO handler *)
(* oscc_update_status, which comes between any two of these steps and      *)
(* suspends the main program until it returns.                             *)
(*                                                                         *)
(* The kernel is here as far as the library sees it: a table of            *)
(* descriptors whose lowest free number is given out, one receive queue    *)
(* per socket, and at most one pending SIGIO, raised by a frame that       *)
(* arrives at a socket in asynchronous mode.  A frame is its kind and      *)
(* whether its arrival raised a signal.                                    *)
(***************************************************************************)
EXTENDS Integers, Sequences, FiniteSets

CONSTANTS
  Interfaces,   \* the CAN devices of /proc/net/dev, in their order
  Topologies,   \* what the channels may carry: functions Channel -> SUBSET Role
  Fd,           \* descriptor numbers the process may get
  Kinds,        \* the frames told apart, among ReportKinds and "obd"
  Modules,      \* the modules, in the order oscc_enable and oscc_disable take
  QueueSize,    \* bound: frames a socket holds before the kernel drops them
  MaxFrames,    \* bound: frames the buses send
  MaxOpens      \* bound: calls of oscc_init and oscc_open

Channel     == {Interfaces[i] : i \in DOMAIN Interfaces}
Role        == {"oscc", "vehicle"}
ReportKinds == {"steering", "throttle", "brake", "fault"}
UNINITIALIZED_SOCKET == -1

ASSUME ApiAssumption ==
  /\ Interfaces \in Seq(STRING)
  /\ Topologies \subseteq [Channel -> SUBSET Role]
  /\ Fd \subseteq Nat
  /\ Modules \in Seq(STRING) /\ Len(Modules) > 0
  /\ Kinds \subseteq ReportKinds \cup {"obd"}
  /\ QueueSize \in Nat /\ MaxFrames \in Nat /\ MaxOpens \in Nat
  /\ "none" \notin Channel

VARIABLES
  topology,     \* what each channel really carries
  socket,       \* the process's descriptor table
  oscc_fd,      \* global_oscc_can_socket
  vehicle_fd,   \* global_vehicle_can_socket
  subscribed,   \* whether fault_report_callback is set
  registered,   \* whether oscc_update_status handles SIGIO
  pending,      \* whether a SIGIO is pending
  isr,          \* "idle", or the socket the handler is reading
  pc,           \* next step of the main program
  call,         \* the call it is in, or was in last
  chan,         \* channel argument of that call
  next,         \* loop index of oscc_search_can, 0 outside the loop
  found,        \* all_contents of oscc_search_can; after oscc_init it keeps,
                \* for the properties, what its search found
  target,       \* which global the socket being opened is for
  sock,         \* local descriptor of can_detection or init_can_socket
  todo,         \* next module oscc_enable or oscc_disable writes to
  result,       \* what the call will return, or has returned
  ordered,      \* the last order written for each module, and by whom
  sent, opens   \* frames sent and sockets asked for so far

kernel   == <<topology, socket, registered, pending>>
globals  == <<oscc_fd, vehicle_fd, subscribed>>
locals   == <<chan, next, found, target, sock>>
counters == <<sent, opens>>
vars == <<kernel, globals, isr, pc, call, locals, todo, result, ordered, counters>>

Frame  == [kind : Kinds, signalled : BOOLEAN]
Socket == [channel : Channel \cup {"none"}, async : BOOLEAN, queue : Seq(Frame)]
Fresh(c) == [channel |-> c, async |-> FALSE, queue |-> <<>>]
Closed == Fresh("none")
Descriptor == Fd \cup {UNINITIALIZED_SOCKET}
Calls  == {"none", "init", "open", "close", "enable", "disable", "publish"}
Steps  == {"idle", "detect", "detected", "socket", "assign", "register",
           "arm_oscc", "arm_vehicle", "close_oscc", "close_vehicle", "write"}
Orders == {"none", "enable", "disable", "callback"}

IsOpen(f) == f \in Fd /\ socket[f].channel # "none"

\* What is written to this descriptor gets to the modules.
Reaches(f) == IsOpen(f) /\ "oscc" \in topology[socket[f].channel]

----------------------------------------------------------------------------
(* Initial state: the globals' initialisers                                *)

Init ==
  /\ topology \in Topologies
  /\ socket = [f \in Fd |-> Closed]
  /\ oscc_fd = UNINITIALIZED_SOCKET /\ vehicle_fd = UNINITIALIZED_SOCKET
  /\ subscribed = FALSE /\ registered = FALSE /\ pending = FALSE /\ isr = "idle"
  /\ pc = "idle" /\ call = "none" /\ chan = "none" /\ next = 0 /\ found = {}
  /\ target = "oscc" /\ sock = UNINITIALIZED_SOCKET /\ todo = 1
  /\ result = "none" /\ ordered = [m \in DOMAIN Modules |-> "none"]
  /\ sent = 0 /\ opens = 0

----------------------------------------------------------------------------
(* System calls                                                            *)

\* socket, ioctl, setsockopt and bind: the lowest free number, or a failure
\* of any of them, after which nothing is left open.
OpenSocket(c) ==
  \/ \E f \in Fd :
       /\ ~IsOpen(f) /\ \A g \in Fd : g < f => IsOpen(g)
       /\ socket' = [socket EXCEPT ![f] = Fresh(c)]
       /\ sock' = f
  \/ sock' = UNINITIALIZED_SOCKET /\ UNCHANGED socket

\* The main program runs only while the handler does not.
Step(p) == isr = "idle" /\ pc = p

Return(r) == pc' = "idle" /\ result' = r

----------------------------------------------------------------------------
(* oscc_init and oscc_open                                                 *)

\* A client may open at any time: after a failure, after a close, or again.
MayOpen ==
  /\ Step("idle") /\ opens < MaxOpens
  /\ opens' = opens + 1

CallInit ==
  /\ MayOpen
  /\ call' = "init" /\ chan' = "none" /\ next' = 1 /\ found' = {}
  /\ pc' = IF Interfaces = <<>> THEN "register" ELSE "detect"
  /\ result' = "OK"
  /\ UNCHANGED <<kernel, globals, isr, target, sock, todo, ordered, sent>>

CallOpen(c) ==
  /\ MayOpen
  /\ call' = "open" /\ chan' = c /\ next' = 0 /\ found' = {"oscc"}
  /\ pc' = "detect" /\ result' = "OK"
  /\ UNCHANGED <<kernel, globals, isr, target, sock, todo, ordered, sent>>

Probed == IF next = 0 THEN chan ELSE Interfaces[next]

\* can_detection opens a socket of its own ...
Detect ==
  /\ Step("detect")
  /\ OpenSocket(Probed)
  /\ pc' = "detected"
  /\ UNCHANGED <<topology, registered, pending, globals, isr, call, chan, next,
                 found, target, todo, result, ordered, counters>>

\* The loop of oscc_search_can goes on until both kinds of channel have been
\* seen or the list ends.  Then oscc_init uses what was assigned on the way,
\* and oscc_open opens the channel it was given.
SearchOn(seen) ==
  /\ seen # Role /\ next < Len(Interfaces)
  /\ next' = next + 1 /\ pc' = "detect" /\ found' = seen /\ UNCHANGED target

SearchEnd(seen) ==
  /\ seen = Role \/ next >= Len(Interfaces)
  /\ next' = 0 /\ found' = seen /\ target' = "oscc"
  /\ pc' = IF call = "init" THEN "register" ELSE "socket"

\* What auto_init_all_can or auto_init_vehicle_can open for a channel with
\* these contents; outside the search, what oscc_open does.
Wanted(contents) ==
  CASE next = 0 -> IF "vehicle" \in contents THEN {"oscc"} ELSE {}
    [] next # 0 /\ call = "init" /\ "oscc" \in contents -> {"oscc"}
    [] OTHER -> contents \ {"oscc"}

\* ... reads a number of frames from it with a timeout, so that it may miss
\* what a slow channel carries but invents nothing, and closes it again.
Detected ==
  /\ Step("detected")
  /\ \E contents \in SUBSET (IF sock \in Fd THEN topology[Probed] ELSE {}) :
       LET seen == IF next = 0 THEN found ELSE found \cup contents IN
       \/ /\ Wanted(contents) # {}
          /\ pc' = "socket" /\ target' \in Wanted(contents)
          /\ found' = seen /\ UNCHANGED next
       \/ /\ Wanted(contents) = {}
          /\ SearchOn(seen) \/ SearchEnd(seen)
  /\ socket' = IF sock \in Fd THEN [socket EXCEPT ![sock] = Closed] ELSE socket
  /\ sock' = UNINITIALIZED_SOCKET
  /\ UNCHANGED <<topology, registered, pending, globals, isr, call, chan, todo,
                 result, ordered, counters>>

\* init_oscc_can and init_vehicle_can.
OpenChannel ==
  /\ Step("socket")
  /\ OpenSocket(Probed)
  /\ pc' = "assign"
  /\ UNCHANGED <<topology, registered, pending, globals, isr, call, chan, next,
                 found, target, todo, result, ordered, counters>>

\* Mutant: a socket that could not be opened is not assigned.
AssignOpened ==
  /\ Step("assign")
  /\ oscc_fd' = IF target = "oscc" /\ sock \in Fd THEN sock ELSE oscc_fd
  /\ vehicle_fd' = IF target = "vehicle" /\ sock \in Fd THEN sock ELSE vehicle_fd
  /\ \/ /\ next # 0 /\ (SearchOn(found) \/ SearchEnd(found))
        /\ UNCHANGED result
     \/ /\ next = 0 /\ sock \in Fd
        /\ pc' = "register" /\ found' = {} /\ UNCHANGED <<next, target, result>>
     \/ /\ next = 0 /\ sock \notin Fd
        /\ Return("ERROR") /\ found' = {} /\ UNCHANGED <<next, target>>
  /\ sock' = UNINITIALIZED_SOCKET
  /\ UNCHANGED <<kernel, subscribed, isr, call, chan, todo, ordered, counters>>

\* The former value of the global is lost: a socket it held stays open.
Assign ==
  /\ Step("assign")
  /\ oscc_fd' = IF target = "oscc" THEN sock ELSE oscc_fd
  /\ vehicle_fd' = IF target = "vehicle" THEN sock ELSE vehicle_fd
  /\ \/ /\ next # 0 /\ (SearchOn(found) \/ SearchEnd(found))
        /\ UNCHANGED result
     \/ /\ next = 0 /\ sock \in Fd
        /\ pc' = "register" /\ found' = {} /\ UNCHANGED <<next, target, result>>
     \/ /\ next = 0 /\ sock \notin Fd
        /\ Return("ERROR") /\ found' = {} /\ UNCHANGED <<next, target>>
  /\ sock' = UNINITIALIZED_SOCKET
  /\ UNCHANGED <<kernel, subscribed, isr, call, chan, todo, ordered, counters>>

\* Mutant: a failure of sigaction is not noticed.
RegisterUnchecked ==
  /\ Step("register")
  /\ registered' \in {registered, TRUE}
  /\ IF oscc_fd > 0 \/ (call = "open" /\ oscc_fd = 0)
     THEN pc' = "arm_oscc" /\ UNCHANGED result
     ELSE Return("ERROR")
  /\ UNCHANGED <<topology, socket, pending, globals, isr, call, locals, todo,
                 ordered, counters>>

\* register_can_signal; oscc_init takes the descriptor 0 for none.
Register ==
  /\ Step("register")
  /\ \/ /\ registered' = TRUE
        /\ IF oscc_fd > 0 \/ (call = "open" /\ oscc_fd = 0)
           THEN pc' = "arm_oscc" /\ UNCHANGED result
           ELSE Return("ERROR")
     \/ Return("ERROR") /\ UNCHANGED registered
  /\ UNCHANGED <<topology, socket, pending, globals, isr, call, locals, todo,
                 ordered, counters>>

\* The two fcntl calls of oscc_async_enable: from here on a frame that
\* arrives raises SIGIO, and a read returns at once.
AsyncEnable(f) ==
  /\ IsOpen(f)
  /\ socket' = [socket EXCEPT ![f].async = TRUE]

ArmOscc ==
  /\ Step("arm_oscc")
  /\ \/ AsyncEnable(oscc_fd) /\ pc' = "arm_vehicle" /\ UNCHANGED result
     \/ Return("ERROR") /\ UNCHANGED socket
  /\ UNCHANGED <<topology, registered, pending, globals, isr, call, locals, todo,
                 ordered, counters>>

\* Whether this one succeeds nobody asks.
ArmVehicle ==
  /\ Step("arm_vehicle")
  /\ AsyncEnable(vehicle_fd) \/ UNCHANGED socket
  /\ Return("OK")
  /\ UNCHANGED <<topology, registered, pending, globals, isr, call, locals, todo,
                 ordered, counters>>

----------------------------------------------------------------------------
(* oscc_close                                                              *)

CallClose ==
  /\ Step("idle") /\ opens > 0
  /\ call' = "close" /\ pc' = "close_oscc" /\ result' = "none"
  /\ chan' = "none" /\ found' = {}
  /\ UNCHANGED <<kernel, globals, isr, next, target, sock, todo, ordered, counters>>

\* closed_channel and close_errored, as the result they lead to.  The global
\* keeps the number.
CloseSocket(f) ==
  \/ /\ IsOpen(f)
     /\ socket' = [socket EXCEPT ![f] = Closed]
     /\ result' = IF result = "ERROR" THEN "ERROR" ELSE "OK"
  \/ f \in Fd /\ ~IsOpen(f) /\ result' = "ERROR" /\ UNCHANGED socket
  \/ f \notin Fd /\ UNCHANGED <<socket, result>>

CloseOscc ==
  /\ Step("close_oscc")
  /\ CloseSocket(oscc_fd) /\ pc' = "close_vehicle"
  /\ UNCHANGED <<topology, registered, pending, globals, isr, call, locals, todo,
                 ordered, counters>>

CloseVehicle ==
  /\ Step("close_vehicle")
  /\ CloseSocket(vehicle_fd) /\ pc' = "idle"
  /\ UNCHANGED <<topology, registered, pending, globals, isr, call, locals, todo,
                 ordered, counters>>

----------------------------------------------------------------------------
(* Orders, commands and subscriptions                                      *)

\* oscc_can_write succeeds only on an open socket, and may fail even then.
\* Whether the modules hear it depends on the bus the socket is bound to.
MayWrite == IsOpen(oscc_fd)

Order(m, order) ==
  ordered' = IF Reaches(oscc_fd) THEN [ordered EXCEPT ![m] = order] ELSE ordered

CallOrder(order) ==
  /\ Step("idle")
  /\ call' = order /\ pc' = "write" /\ result' = "none"
  /\ chan' = "none" /\ found' = {}
  /\ UNCHANGED <<kernel, globals, isr, next, target, sock, todo, ordered, counters>>

\* Mutant: each write overwrites the result of the one before.
WriteOrderUnchained ==
  /\ Step("write")
  /\ \E ok \in {FALSE, MayWrite} :
       /\ IF ok THEN Order(todo, call) ELSE UNCHANGED ordered
       /\ IF todo = Len(Modules)
          THEN Return(IF ok THEN "OK" ELSE "ERROR") /\ todo' = 1
          ELSE todo' = todo + 1 /\ UNCHANGED <<pc, result>>
  /\ UNCHANGED <<kernel, globals, isr, call, locals, counters>>

\* Mutant: the last module is not the end of the list.
WriteOrderPast ==
  /\ Step("write")
  /\ \/ /\ MayWrite
        /\ Order(todo, call)
        /\ IF todo > Len(Modules)
           THEN Return("OK") /\ todo' = 1
           ELSE todo' = todo + 1 /\ UNCHANGED <<pc, result>>
     \/ Return("ERROR") /\ todo' = 1 /\ UNCHANGED ordered
  /\ UNCHANGED <<kernel, globals, isr, call, locals, counters>>

\* oscc_enable and oscc_disable go on only while the writes succeed.
WriteOrder ==
  /\ Step("write")
  /\ \/ /\ MayWrite
        /\ Order(todo, call)
        /\ IF todo = Len(Modules)
           THEN Return("OK") /\ todo' = 1
           ELSE todo' = todo + 1 /\ UNCHANGED <<pc, result>>
     \/ Return("ERROR") /\ todo' = 1 /\ UNCHANGED ordered
  /\ UNCHANGED <<kernel, globals, isr, call, locals, counters>>

\* oscc_publish_*: one write.
Publish ==
  /\ Step("idle")
  /\ call' = "publish" /\ chan' = "none" /\ found' = {}
  /\ result' = "ERROR" \/ (MayWrite /\ result' = "OK")
  /\ UNCHANGED <<kernel, globals, isr, pc, next, target, sock, todo, ordered, counters>>

\* oscc_subscribe_to_*, with a callback.  Of the five pointers only the fault
\* callback's is state here: the other callbacks call nothing of the library.
Subscribe(kind) ==
  /\ Step("idle")
  /\ subscribed' = (subscribed \/ kind = "fault")
  /\ UNCHANGED <<kernel, oscc_fd, vehicle_fd, isr, pc, call, locals, todo, result,
                 ordered, counters>>

----------------------------------------------------------------------------
(* The SIGIO handler, oscc_update_status                                   *)

\* The signal is taken as soon as it is not blocked, that is, outside the
\* handler.
Signal ==
  /\ isr = "idle" /\ pending /\ registered
  /\ pending' = FALSE /\ isr' = "oscc"
  /\ UNCHANGED <<topology, socket, registered, globals, pc, call, locals, todo,
                 result, ordered, counters>>

HasFrame(f) == IsOpen(f) /\ socket[f].queue # <<>>

\* read() on a socket that is not in asynchronous mode waits for a frame;
\* that of can_detection gives up after its timeout.
Blocks(f) ==
  /\ IsOpen(f) /\ ~HasFrame(f) /\ ~socket[f].async
  /\ ~(pc = "detected" /\ f = sock)

Take(f) == socket' = [socket EXCEPT ![f].queue = Tail(@)]

\* A fault callback may call oscc_disable, as far as its writes succeed.
FaultCallback ==
  \/ UNCHANGED ordered
  \/ /\ Reaches(oscc_fd)
     /\ \E last \in DOMAIN Modules :
          ordered' = [m \in DOMAIN Modules |->
                        IF m <= last THEN "callback" ELSE ordered[m]]

Deliver(kind) ==
  IF kind = "fault" /\ subscribed THEN FaultCallback ELSE UNCHANGED ordered

\* Mutant: one frame per signal.
ReadOsccOnce ==
  /\ isr = "oscc" /\ HasFrame(oscc_fd)
  /\ Deliver(Head(socket[oscc_fd].queue).kind)
  /\ Take(oscc_fd)
  /\ isr' = "vehicle"
  /\ UNCHANGED <<topology, registered, pending, globals, pc, call, locals, todo,
                 result, counters>>

ReadOscc ==
  /\ isr = "oscc" /\ HasFrame(oscc_fd)
  /\ Deliver(Head(socket[oscc_fd].queue).kind)
  /\ Take(oscc_fd)
  /\ UNCHANGED <<topology, registered, pending, globals, isr, pc, call, locals,
                 todo, result, counters>>

OsccDrained ==
  /\ isr = "oscc" /\ ~HasFrame(oscc_fd) /\ ~Blocks(oscc_fd)
  /\ isr' = "vehicle"
  /\ UNCHANGED <<kernel, globals, pc, call, locals, todo, result, ordered, counters>>

\* Whatever comes from the vehicle's socket goes to the OBD callback.
ReadVehicle ==
  /\ isr = "vehicle" /\ HasFrame(vehicle_fd)
  /\ Take(vehicle_fd)
  /\ UNCHANGED <<topology, registered, pending, globals, isr, pc, call, locals,
                 todo, result, ordered, counters>>

VehicleDrained ==
  /\ isr = "vehicle" /\ ~HasFrame(vehicle_fd) /\ ~Blocks(vehicle_fd)
  /\ isr' = "idle"
  /\ UNCHANGED <<kernel, globals, pc, call, locals, todo, result, ordered, counters>>

----------------------------------------------------------------------------
(* The buses                                                               *)

Enqueue(s, kind) ==
  IF Len(s.queue) < QueueSize
  THEN [s EXCEPT !.queue = Append(@, [kind |-> kind, signalled |-> s.async])]
  ELSE s

\* A frame reaches every socket bound to its channel, or none: buses and
\* buffers lose frames.
Arrive(c, kind) ==
  /\ sent < MaxFrames
  /\ IF kind = "obd" THEN "vehicle" \in topology[c] ELSE "oscc" \in topology[c]
  /\ sent' = sent + 1
  /\ socket' = [f \in Fd |-> IF socket[f].channel = c THEN Enqueue(socket[f], kind)
                                                      ELSE socket[f]]
  /\ pending' = (pending \/ \E f \in Fd : socket[f].channel = c /\ socket[f].async)
  /\ UNCHANGED <<topology, registered, globals, isr, pc, call, locals, todo, result,
                 ordered, opens>>

----------------------------------------------------------------------------

Main ==
  \/ CallInit \/ (\E c \in Channel : CallOpen(c)) \/ CallClose
  \/ Detect \/ Detected \/ OpenChannel \/ Assign \/ Register
  \/ ArmOscc \/ ArmVehicle \/ CloseOscc \/ CloseVehicle
  \/ (\E order \in {"enable", "disable"} : CallOrder(order)) \/ WriteOrder
  \/ Publish \/ (\E kind \in Kinds : Subscribe(kind))

Handler == Signal \/ ReadOscc \/ OsccDrained \/ ReadVehicle \/ VehicleDrained

Next == Main \/ Handler \/ \E c \in Channel, kind \in Kinds : Arrive(c, kind)

Spec == Init /\ [][Next]_vars

----------------------------------------------------------------------------
(* Properties                                                              *)

\* Every variable keeps the type of what it models.
TypeOK ==
  /\ topology \in [Channel -> SUBSET Role]
  /\ socket \in [Fd -> Socket]
  /\ oscc_fd \in Descriptor /\ vehicle_fd \in Descriptor /\ sock \in Descriptor
  /\ subscribed \in BOOLEAN /\ registered \in BOOLEAN /\ pending \in BOOLEAN
  /\ isr \in {"idle", "oscc", "vehicle"}
  /\ pc \in Steps /\ call \in Calls
  /\ chan \in Channel \cup {"none"}
  /\ next \in Nat /\ found \in SUBSET Role /\ target \in Role
  /\ todo \in DOMAIN Modules
  /\ result \in {"none", "OK", "ERROR"}
  /\ ordered \in [DOMAIN Modules -> Orders]
  /\ sent \in 0 .. MaxFrames /\ opens \in 0 .. MaxOpens

\* The handler will come to the descriptor before it returns.
WillRead(f) ==
  \/ pending
  \/ isr = "oscc" /\ f = oscc_fd
  \/ isr # "idle" /\ f = vehicle_fd

\* No wake-up is lost: a frame whose arrival raised a signal is never left in
\* a socket the library reads, however the arrivals fall between the two
\* loops of the handler and the calls of the main program.
NoFrameStranded ==
  \A f \in Fd \cap {oscc_fd, vehicle_fd} :
    (\E i \in DOMAIN socket[f].queue : socket[f].queue[i].signalled) => WillRead(f)

\* SIGIO never meets its default action, which ends the process: in all
\* orders of calls and failures a signal is raised only once the handler is
\* installed.
SignalIsHandled == pending => registered

\* An answer of OSCC_OK is the truth for every module, with a handler between
\* the writes that may disable modules itself: after oscc_disable none was
\* last ordered to enable, and after oscc_enable the ones that were not were
\* disabled by a callback.  That is, if the socket is the modules': through a
\* number left over from a closed socket (InitTellsApart) the library writes
\* to another bus and answers OSCC_OK as well.
OrdersTold ==
  pc = "idle" /\ result = "OK" /\ Reaches(oscc_fd) =>
    /\ call = "disable" => \A m \in DOMAIN Modules : ordered[m] \in {"disable", "callback"}
    /\ call = "enable"  => \A m \in DOMAIN Modules : ordered[m] \in {"enable", "callback"}

\* An answer of OSCC_OK to oscc_init or oscc_open means that reports raise
\* signals from now on, on the right bus: the OSCC socket is open and in
\* asynchronous mode, bound to the channel the client named or, for an
\* oscc_init whose search found OSCC, to one that carries it - whatever
\* sockets failed on the way, whatever the globals held before, and however
\* the numbers of closed sockets were given out again.  An oscc_init that
\* found no OSCC says nothing here: it uses the number of an earlier opening.
OpenTold ==
  pc = "idle" /\ result = "OK" /\ call \in {"init", "open"} =>
    /\ IsOpen(oscc_fd) /\ socket[oscc_fd].async
    /\ call = "open" => socket[oscc_fd].channel = chan
    /\ call = "init" /\ "oscc" \in found => Reaches(oscc_fd)

\* oscc.h: oscc_init "automatically detects which channel is OSCC control and
\* which channel is vehicle CAN".  What it has opened as OSCC's socket, and
\* answered OSCC_OK for, is bound to a channel with OSCC.
InitTellsApart ==
  pc = "idle" /\ result = "OK" /\ call = "init" => Reaches(oscc_fd)

\* README.md: "you can receive reports at any time".  The handler never
\* waits for a bus: while it does, it blocks its own signal and the main
\* program.
HandlerNeverBlocks ==
  /\ isr = "oscc" => ~Blocks(oscc_fd)
  /\ isr = "vehicle" => ~Blocks(vehicle_fd)
=============================================================================
