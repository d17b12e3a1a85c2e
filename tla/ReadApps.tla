------------------------------ MODULE ReadApps ------------------------------
(***************************************************************************)
(* ParameterReadClient, which reads parameters of ParameterReadServer in   *)
(* rounds.  Reads are sent by the five threads of the client's pool and    *)
(* executed by the five of the server's (MiddlewareClient, RpcServer); the *)
(* handlers of both programs share variables of their threads' functions   *)
(* without a lock, so a handler is split where another one can get in.     *)
(* Reads are numbered in the order of the calls; a read may time out and   *)
(* be executed none the less.                                              *)
(***************************************************************************)
EXTENDS Integers, Sequences, FiniteSets, LatencyWindow

CONSTANTS
    ReadArguments,   \* the command lines tried, and whether DEBUG_TIMING is defined
    PoolThreads,     \* threads of the client's pool: 5 in the library
    MaxReadRounds    \* bound on the client's rounds

ASSUME ReadAssumption == \A a \in ReadArguments : a.client.readparms \in Int

VARIABLES
    readArguments,    \* the command lines of this run
    reader,           \* the client's thread: where it is, what is left of a round
    readKeepRunning,  \* "client", "server" -> keepRunning
    readServer,       \* the server's thread
    UniqueIntValue,   \* of the server
    reads,            \* read number -> its identity and how far it is
    readWindow,       \* the client's latency window
    display,          \* SetSequentialFirstValue, LastDisplayValue, SequentialMisses
    readRounds,       \* rounds begun
    overlaps          \* identities two reads of which were under way together

readVars == <<readArguments, reader, readKeepRunning, readServer, UniqueIntValue, reads,
              readWindow, display, readRounds, overlaps>>

DebugLatencyChannel == 0

-----------------------------------------------------------------------------
(* The two mains: --help ends the program, and so does a server without    *)
(* parameters; the client may be left without any but the latency channel. *)
ReadClientMain(args) ==
    [runs |-> ~args.help, parms |-> args.readparms, once |-> args.readonce,
     show |-> args.showreadvalues, sequential |-> args.testreadsequential]
ReadServerMain(args) ==
    [runs |-> ~args.help /\ args.serverreadparms # 0, parms |-> args.serverreadparms]

ReadClient == ReadClientMain(readArguments.client)
ReadServer == ReadServerMain(readArguments.server)

ReadInit ==
    /\ readArguments \in ReadArguments
    /\ reader = [at |-> "start", left |-> <<>>]
    /\ readKeepRunning = [p \in {"client", "server"} |-> TRUE]
    /\ readServer = "start"
    /\ UniqueIntValue = 0
    /\ reads = <<>>
    /\ readWindow = NewWindow
    /\ display = [first |-> TRUE, last |-> 0, misses |-> 0]
    /\ readRounds = 0
    /\ overlaps = {}

Executing == {"increment", "store", "value"}
UnderWay(r) == r.client \notin {"posted", "done", "dropped"} \/ r.server \in Executing

-----------------------------------------------------------------------------
(* ParameterReadServerThread *)

(* The service is created, or the program ended in main.                   *)
StartReadServer ==
    /\ readServer = "start"
    /\ readServer' = IF ReadServer.runs THEN "serving" ELSE "ended"
    /\ UNCHANGED <<readArguments, reader, readKeepRunning, UniqueIntValue, reads, readWindow,
                   display, readRounds, overlaps>>

Served(id) ==
    \/ id \in 1..ReadServer.parms
    \/ id = DebugLatencyChannel /\ readArguments.DEBUG_TIMING

(* Only reads of parameter 1 increment UniqueIntValue.                     *)
FirstStep(id) == IF id = 1 THEN "increment" ELSE "value"

(* on_read_server: UniqueIntValue++ ...                                    *)
LoadUniqueIntValue(n) ==
    /\ reads[n].server = "increment"
    /\ reads' = [reads EXCEPT ![n].server = "store", ![n].value = UniqueIntValue]
    /\ UNCHANGED UniqueIntValue

StoreUniqueIntValue(n) ==
    /\ reads[n].server = "store"
    /\ UniqueIntValue' = reads[n].value + 1
    /\ reads' = [reads EXCEPT ![n].server = "value"]

(* ... and the value all parameters get; the latency channel gets a clock. *)
ReturnValue(n) ==
    /\ reads[n].server = "value"
    /\ reads' = [reads EXCEPT ![n].server = "answered", ![n].value = UniqueIntValue]
    /\ UNCHANGED UniqueIntValue

OnReadServer(n) ==
    /\ n \in DOMAIN reads
    /\ LoadUniqueIntValue(n) \/ StoreUniqueIntValue(n) \/ ReturnValue(n)
    /\ UNCHANGED <<readArguments, reader, readKeepRunning, readServer, readWindow, display,
                   readRounds, overlaps>>

(* The 250 ms poll; ~Service waits for the handlers that run.              *)
LeaveReadServer ==
    /\ readServer = "serving"
    /\ ~readKeepRunning["server"]
    /\ readServer' = "stopping"
    /\ UNCHANGED <<readArguments, reader, readKeepRunning, UniqueIntValue, reads, readWindow,
                   display, readRounds, overlaps>>

EndReadServer ==
    /\ readServer = "stopping"
    /\ \A n \in DOMAIN reads : reads[n].server \notin Executing
    /\ readServer' = "ended"
    /\ UNCHANGED <<readArguments, reader, readKeepRunning, UniqueIntValue, reads, readWindow,
                   display, readRounds, overlaps>>

-----------------------------------------------------------------------------
(* ParameterReadClientThread *)
StartReadClient ==
    /\ reader.at = "start"
    /\ reader' = [reader EXCEPT !.at = IF ReadClient.runs THEN "loop" ELSE "ended"]
    /\ UNCHANGED <<readArguments, readKeepRunning, readServer, UniqueIntValue, reads, readWindow,
                   display, readRounds, overlaps>>

ReadIdentities ==
    (IF ReadClient.parms < 1 THEN <<>> ELSE [i \in 1..ReadClient.parms |-> i])
    \o (IF readArguments.DEBUG_TIMING THEN <<DebugLatencyChannel>> ELSE <<>>)

BeginReadRound ==
    /\ reader.at = "loop"
    /\ readKeepRunning["client"]
    /\ readRounds < MaxReadRounds
    /\ readRounds' = readRounds + 1
    /\ reader' = [at |-> "reading", left |-> ReadIdentities]
    /\ UNCHANGED <<readArguments, readKeepRunning, readServer, UniqueIntValue, reads, readWindow,
                   display, overlaps>>

(* Read posts a task and returns; after the last one of a round --readonce *)
(* clears the flag.                                                        *)
PostRead ==
    /\ reader.at = "reading"
    /\ IF reader.left # <<>>
       THEN /\ reads' = Append(reads, [id |-> Head(reader.left), client |-> "posted",
                                       server |-> "none", value |-> 0,
                                       shown |-> 0, failed |-> FALSE])
            /\ reader' = [reader EXCEPT !.left = Tail(@)]
            /\ UNCHANGED readKeepRunning
       ELSE /\ reader' = [reader EXCEPT !.at = "loop"]
            /\ readKeepRunning' = [readKeepRunning EXCEPT !["client"] = @ /\ ~ReadClient.once]
            /\ UNCHANGED reads
    /\ UNCHANGED <<readArguments, readServer, UniqueIntValue, readWindow, display, readRounds, overlaps>>

(* A thread of the pool sends the request; a server that is up executes it *)
(* if it serves the parameter and answers with an exception if not.        *)
SendRead(n) ==
    /\ n \in DOMAIN reads
    /\ reads[n].client = "posted"
    /\ reader.at \in {"loop", "reading"}
    /\ \A m \in 1..(n - 1) : reads[m].client # "posted"
    /\ Cardinality({m \in DOMAIN reads : reads[m].client \notin {"posted", "done"}}) < PoolThreads
    /\ overlaps' = overlaps \cup {reads[m].id : m \in {k \in DOMAIN reads \ {n} :
                                      UnderWay(reads[k]) /\ reads[k].id = reads[n].id}}
    /\ reads' = [reads EXCEPT ![n].client = "waiting",
                   ![n].server = CASE readServer # "serving" -> "none"
                                   [] readServer = "serving" /\ ~Served(reads[n].id) -> "refused"
                                   [] OTHER -> FirstStep(reads[n].id)]
    /\ UNCHANGED <<readArguments, reader, readKeepRunning, readServer, UniqueIntValue, readWindow,
                   display, readRounds>>

(* The future is ready, or the call timed out or failed: then the value of *)
(* the parameter is the default.  The latency channel is timed; values are *)
(* looked at only if they are shown, and compared only for parameter 1.    *)
CompleteRead(n) ==
    /\ n \in DOMAIN reads
    /\ reads[n].client = "waiting"
    /\ reads' = [reads EXCEPT
                   ![n].shown = IF reads[n].server = "answered" /\ reads[n].id = 1
                                THEN reads[n].value ELSE 0,
                   ![n].failed = reads[n].server # "answered",
                   ![n].client =
                     CASE reads[n].id = DebugLatencyChannel -> "time"
                       [] reads[n].id = 1 /\ ReadClient.show /\ ReadClient.sequential -> "compare"
                       [] OTHER -> "done"]
    /\ UNCHANGED <<readArguments, reader, readKeepRunning, readServer, UniqueIntValue, readWindow,
                   display, readRounds, overlaps>>

(* on_read_client, timing: the filter of skewed clocks, the store and the  *)
(* test for a full window.  What a failed read leaves in the place of the  *)
(* clock is not defined.                                                   *)
TimeRead(n) ==
    /\ reads[n].client \in {"time", "keep", "print"}
    /\ UNCHANGED display
    /\ \/ /\ reads[n].client = "time"
          /\ \E skewed \in BOOLEAN :
               readWindow' = IF skewed THEN SkipSlot(readWindow) ELSE readWindow
          /\ reads' = [reads EXCEPT ![n].client = "keep"]
       \/ /\ reads[n].client = "keep"
          /\ readWindow' = StoreTravelTime(readWindow)
          /\ reads' = [reads EXCEPT ![n].client = "print"]
       \/ /\ reads[n].client = "print"
          /\ readWindow' = PrintWhenFull(readWindow)
          /\ reads' = [reads EXCEPT ![n].client = "done"]

(* on_read_client, sequence test: the first value only sets the baseline.  *)
CompareRead(n) ==
    /\ reads[n].client \in {"compare", "remember"}
    /\ UNCHANGED readWindow
    /\ \/ /\ reads[n].client = "compare"
          /\ display' = IF display.first THEN [display EXCEPT !.first = FALSE, !.last = reads[n].shown]
                        ELSE IF display.last + 1 # reads[n].shown THEN [display EXCEPT !.misses = @ + 1]
                        ELSE display
          /\ reads' = [reads EXCEPT ![n].client = "remember"]
       \/ /\ reads[n].client = "remember"
          /\ display' = [display EXCEPT !.last = reads[n].shown]
          /\ reads' = [reads EXCEPT ![n].client = "done", ![n].shown = 0]

OnReadClient(n) ==
    /\ n \in DOMAIN reads
    /\ TimeRead(n) \/ CompareRead(n)
    /\ UNCHANGED <<readArguments, reader, readKeepRunning, readServer, UniqueIntValue, readRounds,
                   overlaps>>

(* SIGINT or SIGTERM to either program.                                    *)
ExitReadProgram(p) ==
    /\ readKeepRunning[p]
    /\ readKeepRunning' = [readKeepRunning EXCEPT ![p] = FALSE]
    /\ UNCHANGED <<readArguments, reader, readServer, UniqueIntValue, reads, readWindow, display,
                   readRounds, overlaps>>

(* The loop ends; ~Service stops the pool, which forgets what is queued,   *)
(* and joins its threads before the variables of the function go.          *)
LeaveReadClient ==
    /\ reader.at = "loop"
    /\ ~readKeepRunning["client"]
    /\ reader' = [reader EXCEPT !.at = "stopping"]
    /\ reads' = [n \in DOMAIN reads |-> IF reads[n].client = "posted"
                                        THEN [reads[n] EXCEPT !.client = "dropped"] ELSE reads[n]]
    /\ UNCHANGED <<readArguments, readKeepRunning, readServer, UniqueIntValue, readWindow, display,
                   readRounds, overlaps>>

\* Mutant: the service outlives the variables its callbacks refer to.
EndWithService ==
    /\ reader.at = "stopping"
    /\ reader' = [reader EXCEPT !.at = "ended"]
    /\ UNCHANGED <<readArguments, readKeepRunning, readServer, UniqueIntValue, reads, readWindow,
                   display, readRounds, overlaps>>

EndReadClient ==
    /\ reader.at = "stopping"
    /\ \A n \in DOMAIN reads : reads[n].client \in {"done", "dropped"}
    /\ reader' = [reader EXCEPT !.at = "ended"]
    /\ UNCHANGED <<readArguments, readKeepRunning, readServer, UniqueIntValue, reads, readWindow,
                   display, readRounds, overlaps>>

ReadStep(n) == SendRead(n) \/ OnReadServer(n) \/ CompleteRead(n) \/ OnReadClient(n)

ReadNextState ==
    \/ StartReadServer \/ LeaveReadServer \/ EndReadServer
    \/ StartReadClient \/ BeginReadRound \/ PostRead \/ LeaveReadClient \/ EndReadClient
    \/ \E p \in {"client", "server"} : ExitReadProgram(p)
    \/ \E n \in DOMAIN reads : ReadStep(n)

-----------------------------------------------------------------------------
(* The handlers of both programs find the variables of the thread that     *)
(* made them: the thread does not leave its function while one runs.       *)
HandlersFindLocals ==
    /\ reader.at = "ended" => \A n \in DOMAIN reads : reads[n].client \in {"posted", "done", "dropped"}
    /\ readServer = "ended" => \A n \in DOMAIN reads : reads[n].server \notin Executing

(* The sequence test counts a miss only if two reads of parameter 1 were   *)
(* under way together, or a read of it failed.                             *)
MissMeansOverlap ==
    display.misses > 0 => 1 \in overlaps \/ \E n \in DOMAIN reads : reads[n].id = 1 /\ reads[n].failed

(* A travel time is stored behind the window only if two callbacks of the  *)
(* latency channel ran together.                                           *)
OverrunNeedsOverlap == readWindow.overrun => DebugLatencyChannel \in overlaps
=============================================================================
