--------------------------- MODULE DiagnosticsTool ---------------------------
(***************************************************************************)
(* The diagnostics tool, utils/diagnostics_tool, run with -d: a table of   *)
(* the frames seen on a channel, one slot per identifier, and the state of *)
(* the modules read from it whenever the terminal is due.  An identifier   *)
(* of 0 marks a slot as empty, and the search stops at the first slot that *)
(* is empty or has the identifier sought.                                  *)
(***************************************************************************)
EXTENDS Integers, Sequences

CONSTANTS
  ReportOf,      \* OSCC_..._REPORT_CAN_ID of each module
  CommandOf,     \* OSCC_..._COMMAND_CAN_ID of each
  Ids,           \* identifiers on the bus
  TableSize,     \* CAN_MSG_ARRAY_SIZE
  QueueMax       \* bound: frames the driver holds

Watched == {"brakes", "steering", "throttle"}

\* can_frame_contents_s: the data bytes the analysis looks at.
Buffers == [enabled : 0 .. 255, override : 0 .. 255, dtcs : 0 .. 255]

None == [enabled |-> -1, override |-> -1, dtcs |-> -1]
Zero == [enabled |-> 0, override |-> 0, dtcs |-> 0]

ASSUME ToolAssumption ==
  /\ TableSize \in Nat \ {0} /\ QueueMax \in Nat
  /\ Ids \subseteq Nat
  /\ ReportOf \in [Watched -> Ids \ {0}]
  /\ CommandOf \in [Watched -> Ids \ {0}]

VARIABLES
  queue,         \* frames canRead has yet to return
  table,         \* can_msg_array
  system,        \* system_state: the state of each module
  tool,          \* whether the tool runs, has ended or has crashed
  latest         \* the last frame of each identifier put into the table

toolVars == <<queue, table, system, tool, latest>>

Slots == 1 .. TableSize

STATE_OK    == 2
STATE_FAULT == 255      \* -1 in a uint8_t

\* init_can: any of its calls may fail, which ends the tool.
InitCan == {"running", "ended"}

\* strtok(NULL) before any strtok of a string: some libraries return NULL,
\* others read through the null pointer they have saved.
ProcessCanIds(t) == {t, "crashed"}

ToolInit ==
  /\ queue = <<>>
  /\ table = [i \in Slots |-> [id |-> 0, buffer |-> Zero]]
  /\ system = [m \in Watched |-> [state |-> 0, control |-> 0, override |-> 0]]
  /\ \E t \in InitCan : tool \in ProcessCanIds(t)
  /\ latest = [id \in Ids |-> None]

\* get_can_msg_array_index; the empty set is its -1.
Index(tab, id) ==
  {i \in Slots :
     /\ tab[i].id \in {0, id}
     /\ \A j \in Slots : j < i => tab[j].id \notin {0, id}}

\* update_can_array_msg: what a slot holds of a frame.
Entry(f) == [id |-> f.id, buffer |-> f.buffer]

\* Mutant: only the first frame of an identifier is stored.
HandleCanRxOnce(f) ==
  /\ table' = [i \in Slots |->
                 IF i \in Index(table, f.id) /\ table[i].id = 0
                 THEN Entry(f)
                 ELSE table[i]]
  /\ latest' = IF Index(table, f.id) = {} THEN latest
               ELSE [latest EXCEPT ![f.id] = f.buffer]

\* handle_can_rx.
HandleCanRx(f) ==
  /\ table' = [i \in Slots |->
                 IF i \in Index(table, f.id)
                 THEN Entry(f)
                 ELSE table[i]]
  /\ latest' = IF Index(table, f.id) = {} THEN latest
               ELSE [latest EXCEPT ![f.id] = f.buffer]

\* analyze_command_frame reads nothing and its result is not used.
AnalyzeBrakeState(buffer) ==
  [state    |-> IF buffer.dtcs # 0 THEN STATE_FAULT ELSE STATE_OK,
   control  |-> buffer.enabled, override |-> buffer.override]

AnalyzeSteeringState(buffer) ==
  [state    |-> IF buffer.dtcs # 0 THEN STATE_FAULT ELSE STATE_OK,
   control  |-> buffer.enabled, override |-> buffer.override]

\* The DTCs of the throttle module are not looked at.
AnalyzeThrottleState(buffer) ==
  [state    |-> STATE_OK,
   control  |-> buffer.enabled, override |-> buffer.override]

Analyzed(m, buffer) ==
  IF m = "brakes" THEN AnalyzeBrakeState(buffer)
  ELSE IF m = "steering" THEN AnalyzeSteeringState(buffer)
  ELSE AnalyzeThrottleState(buffer)

\* Mutant: the command frame is analysed as the report.
UpdateStateFromCommand(tab, m) ==
  LET report == Index(tab, CommandOf[m])
  IN  IF report = {}
      THEN [system[m] EXCEPT !.state = STATE_FAULT]
      ELSE Analyzed(m, tab[CHOOSE i \in report : TRUE].buffer)

\* update_..._state for one module, from the table as it is.
UpdateState(tab, m) ==
  LET report == Index(tab, ReportOf[m])
  IN  IF report = {}
      THEN [system[m] EXCEPT !.state = STATE_FAULT]
      ELSE Analyzed(m, tab[CHOOSE i \in report : TRUE].buffer)

\* The command's slot is there and the report's is not: the tool asks for
\* either and reads both.
NullReport(tab, m) ==
  Index(tab, ReportOf[m]) = {} /\ Index(tab, CommandOf[m]) # {}

\* update_system_state and print_system_state, when the terminal is due.
UpdateSystemState(due) ==
  system' = IF due /\ \A m \in Watched : ~NullReport(table', m)
            THEN [m \in Watched |-> UpdateState(table', m)]
            ELSE system

Crashes(due) == due /\ \E m \in Watched : NullReport(table', m)

\* update_loop with a frame; a frame that finds no slot ends the tool, after
\* the terminal has been served.
ReadFrame ==
  /\ tool = "running"
  /\ queue # <<>>
  /\ queue' = Tail(queue)
  /\ HandleCanRx(Head(queue))
  /\ \E due \in BOOLEAN :
       /\ UpdateSystemState(due)
       /\ tool' = IF Crashes(due) THEN "crashed"
                  ELSE IF Index(table, Head(queue).id) = {} THEN "ended"
                  ELSE "running"

\* update_loop without one: canERR_NOMSG, or an error that ends the tool.
ReadNothing ==
  /\ tool = "running"
  /\ UNCHANGED <<queue, table, latest>>
  /\ \E due, error \in BOOLEAN :
       /\ error \/ queue = <<>>
       /\ UpdateSystemState(due)
       /\ tool' = IF Crashes(due) THEN "crashed"
                  ELSE IF error THEN "ended"
                  ELSE "running"

\* sig_handler; the loop ends before the next read.
Interrupted ==
  /\ tool = "running"
  /\ tool' = "ended"
  /\ UNCHANGED <<queue, table, system, latest>>

ToolStep == ReadFrame \/ ReadNothing \/ Interrupted

\* The channel; the driver drops what it has no room for.
ToolHears(f) ==
  /\ queue' = IF Len(queue) < QueueMax THEN Append(queue, f) ELSE queue
  /\ UNCHANGED <<table, system, tool, latest>>

ToolNext == ToolStep \/ \E f \in [id : Ids, buffer : Buffers] : ToolHears(f)

ToolSpec == ToolInit /\ [][ToolNext]_toolVars

--------------------------------------------------------------------------
(* Properties. *)

Used(i) == table[i].id # 0

\* The table is a table: no gap before its last used slot, no identifier
\* twice, and in the slot of an identifier the last frame that came with it;
\* every identifier that came has its slot (can_monitor.c:87, where the
\* search for a slot and the search for a frame are one loop, and a frame
\* with identifier 0 leaves its slot empty).
TableFaithful ==
  /\ \A i, j \in Slots : i < j /\ Used(j) => Used(i)
  /\ \A i, j \in Slots : Used(i) /\ table[i].id = table[j].id => i = j
  /\ \A id \in Ids \ {0} :
       latest[id] # None <=> \E i \in Slots : table[i].id = id
  /\ \A i \in Slots : Used(i) => table[i].buffer = latest[table[i].id]

\* What the tool shows, once it refreshes the terminal, of a module whose
\* report it has seen is the last report it has seen, never that of another
\* identifier nor an earlier one (system_state.c:42).
DiagnosisIsLatest ==
  [][system' # system =>
       \A m \in Watched :
         latest'[ReportOf[m]] # None
           => system'[m] = Analyzed(m, latest'[ReportOf[m]])]_toolVars

ToolTypeOK ==
  /\ queue \in Seq([id : Ids, buffer : Buffers]) /\ Len(queue) <= QueueMax
  /\ table \in [Slots -> [id : Ids \cup {0}, buffer : Buffers \cup {Zero}]]
  /\ system \in [Watched -> [state : {0, STATE_OK, STATE_FAULT},
                             control : Nat, override : Nat]]
  /\ tool \in {"running", "ended", "crashed"}
  /\ latest \in [Ids -> Buffers \cup {None}]
=============================================================================
