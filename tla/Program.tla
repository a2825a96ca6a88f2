------------------------------ MODULE Program ------------------------------
(***************************************************************************)
(* The life of the program (cmd/main.go): it sets itself up, runs queries  *)
(* until the user quits, and is expected to take its Docker container with *)
(* it when it ends. Main's goroutine and the signal handler's can both     *)
(* clean up, through one sync.Once; the program can also end by log.Fatalf *)
(* or logger.Fatalf, by the default action of a signal, or be killed. It   *)
(* is started again and again; sessions outlive it, containers should not. *)
(*                                                                         *)
(* What a query's plan and steps do is in Executor, what is saved of them  *)
(* in Session; of a session there is here only the path of its capture.    *)
(***************************************************************************)
EXTENDS Naturals

CONSTANTS
    Paths,      \* paths of captures in the container
    NoPath,     \* no capture
    MaxRuns     \* bound on the number of times the program is started

ASSUME NoPathAssumption == NoPath \notin Paths
ASSUME BoundAssumption == MaxRuns \in Nat

VARIABLES
    status,     \* "running", or how the last run ended
    main,       \* where main stands
    handler,    \* where the signal handler's goroutine stands
    once,       \* who runs cleanupOnce's function, or "unused" or "done"
    signals,    \* the buffered channel sigCh: number of signals in it
    container,  \* the container of this run: "none", "up" or "removed"
    files,      \* the captures in it
    pcap,       \* the flag --pcap, as a path in the container
    resume,     \* whether the flag --session was given
    path,       \* containerPcapPath
    stored,     \* the path stored with the session, NoPath if there is none
    runs,       \* number of times the program was started
    left,       \* history variable: how runs ended that left a container
    caught      \* history variable: a signal was sent once Notify was called

env == <<files, pcap, resume, path, stored>>
vars == <<status, main, handler, once, signals, container, env, runs, left, caught>>

-----------------------------------------------------------------------------
Ends == {"returned", "failed", "fatal", "interrupted", "killed"}
Callers == {"main", "handler"}
Agents == {"planning", "executing"}

Init ==
    /\ status = "off" /\ main = "off" /\ handler = "none"
    /\ once = "unused" /\ signals = 0
    /\ container = "none" /\ files = {}
    /\ pcap = NoPath /\ resume = FALSE /\ path = NoPath /\ stored = NoPath
    /\ runs = 0 /\ left = {} /\ caught = FALSE

\* The process is gone, and all its goroutines with it.
End(how) ==
    /\ status' = how
    /\ main' = "off" /\ handler' = "none"
    /\ once' = "unused" /\ signals' = 0 /\ caught' = FALSE
    /\ left' = IF container = "up" THEN left \cup {how} ELSE left
    /\ UNCHANGED <<container, env, runs>>

\* main goes on from one place to another.
Step(from, to) ==
    /\ status = "running" /\ main = from
    /\ main' = to
    /\ UNCHANGED <<status, handler, once, signals, runs, left, caught>>

\* The program is started, with its flags.
Start ==
    /\ status # "running" /\ runs < MaxRuns
    /\ status' = "running" /\ main' = "store"
    /\ pcap' \in Paths \cup {NoPath} /\ resume' \in BOOLEAN
    /\ container' = "none" /\ files' = {} /\ path' = NoPath
    /\ runs' = runs + 1
    /\ UNCHANGED <<handler, once, signals, stored, left, caught>>

-----------------------------------------------------------------------------
\* The store is opened, and the sandbox's container is created, or one of
\* them fails: log.Fatalf.
OpenStore ==
    /\ Step("store", "sandbox")
    /\ UNCHANGED <<container, env>>

GetOperator ==
    /\ Step("sandbox", "notify")
    /\ container' = "up"
    /\ UNCHANGED env

FailEarly ==
    /\ status = "running" /\ main \in {"store", "sandbox"}
    /\ End("failed")

\* From here on a signal goes to sigCh; the handler's goroutine is started.
Notify ==
    /\ status = "running" /\ main = "notify"
    /\ main' = "copy" /\ handler' = "starting"
    /\ UNCHANGED <<status, once, signals, container, env, runs, left, caught>>

\* CopyFileToContainer: the directory is made if need be and the file put there.
CopyFileToContainer(destPath) == files' = files \cup {destPath}

\* Variant: a capture is copied for a new session only.
CopyPcapNewOnly ==
    /\ Step("copy", "setup")
    /\ IF pcap = NoPath \/ resume THEN UNCHANGED <<files, path>>
       ELSE files' = files \cup {pcap} /\ path' = pcap
    /\ UNCHANGED <<container, pcap, resume, stored>>

\* The capture of --pcap is copied into the container.
CopyPcap ==
    /\ Step("copy", "setup")
    /\ IF pcap = NoPath THEN UNCHANGED <<files, path>>
       ELSE CopyFileToContainer(pcap) /\ path' = pcap
    /\ UNCHANGED <<container, pcap, resume, stored>>

\* Model, tools, summarizer, agent, planner and executor are made.
SetUp ==
    /\ Step("setup", "session")
    /\ UNCHANGED <<container, env>>

\* A new session stores the path with itself.
NewSession ==
    /\ ~resume /\ pcap # NoPath
    /\ Step("session", "prompt")
    /\ stored' = path
    /\ UNCHANGED <<container, files, pcap, resume, path>>

\* A resumed session brings the path it was stored with.
ResumeSession ==
    /\ resume /\ stored # NoPath
    /\ Step("session", "prompt")
    /\ path' = stored
    /\ UNCHANGED <<container, files, pcap, resume, stored>>

\* Any of these fails, or there is no session or no capture: fatal.
Fails ==
    /\ \E at \in {"copy", "setup", "session"} : Step(at, "fatal")
    /\ UNCHANGED <<container, env>>

-----------------------------------------------------------------------------
\* The REPL: a query is planned, executed and saved; a failure of the planner
\* or the executor ends the round, one of the save is logged.
Query == Step("prompt", "planning") /\ UNCHANGED <<container, env>>
Planned == Step("planning", "executing") /\ UNCHANGED <<container, env>>
Executed == Step("executing", "saving") /\ UNCHANGED <<container, env>>
RoundFails == \E at \in Agents : Step(at, "prompt") /\ UNCHANGED <<container, env>>
Saved == Step("saving", "prompt") /\ UNCHANGED <<container, env>>

\* The summarizer of the agent's conversation fails: logger.Fatalf.
SummaryFatal ==
    /\ status = "running" /\ main \in Agents
    /\ End("fatal")

\* The user quits or the input ends: events get time to flush, then main
\* returns and its deferred calls run: cleanup first.
Quit == Step("prompt", "flush") /\ UNCHANGED <<container, env>>

\* Variant: main waits for a signal before it returns.
FlushAwaitsSignal == handler = "received" /\ Step("flush", "return") /\ UNCHANGED <<container, env>>

Flush == Step("flush", "return") /\ UNCHANGED <<container, env>>

-----------------------------------------------------------------------------
\* Who is about to call cleanup.
Calls(c) ==
    /\ status = "running"
    /\ IF c = "main" THEN main \in {"fatal", "return"} ELSE handler = "received"

\* cleanupOnce.Do runs its function for the first caller; the container is
\* removed by the time that call returns.
CleanUp(c) ==
    /\ Calls(c) /\ once = "unused"
    /\ once' = c
    /\ UNCHANGED <<status, main, handler, signals, container, env, runs, left, caught>>

CleanedUp(c) ==
    /\ status = "running" /\ once = c
    /\ once' = "done"
    /\ container' = "removed"
    /\ UNCHANGED <<status, main, handler, signals, env, runs, left, caught>>

\* Variant: the second caller does not wait for the first.
CleanNoWait(c) == once \notin {"unused", c}

\* Do returns to a caller only when the function was run to its end.
Clean(c) == once = "done"

\* main returns, or fatal exits.
Return ==
    /\ Calls("main") /\ Clean("main")
    /\ End(IF main = "fatal" THEN "failed" ELSE "returned")

\* os.Exit(130).
HandlerExits ==
    /\ Calls("handler") /\ Clean("handler")
    /\ End("interrupted")

-----------------------------------------------------------------------------
\* Variant: sigCh is not buffered.
InterruptUnbuffered ==
    /\ status = "running" /\ handler # "none"
    /\ signals' = IF handler = "waiting" THEN 1 ELSE 0
    /\ caught' = TRUE
    /\ UNCHANGED <<status, main, handler, once, container, env, runs, left>>

\* Variant: every signal is queued.
InterruptQueued ==
    /\ status = "running" /\ handler # "none"
    /\ signals' = signals + 1
    /\ caught' = TRUE
    /\ UNCHANGED <<status, main, handler, once, container, env, runs, left>>

\* SIGINT or SIGTERM once Notify was called: into the channel, if there is
\* room for it, and lost otherwise.
Interrupt ==
    /\ status = "running" /\ handler # "none"
    /\ signals' = 1
    /\ caught' = TRUE
    /\ UNCHANGED <<status, main, handler, once, container, env, runs, left>>

\* A signal before that, or SIGKILL at any time, kills the process.
Killed ==
    /\ status = "running"
    /\ End("killed")

HandlerWaits ==
    /\ status = "running" /\ handler = "starting"
    /\ handler' = "waiting"
    /\ UNCHANGED <<status, main, once, signals, container, env, runs, left, caught>>

HandlerReceives ==
    /\ status = "running" /\ handler = "waiting" /\ signals > 0
    /\ handler' = "received"
    /\ signals' = 0
    /\ UNCHANGED <<status, main, once, container, env, runs, left, caught>>

MainStep ==
    \/ OpenStore \/ GetOperator \/ FailEarly \/ Notify \/ CopyPcap \/ SetUp
    \/ NewSession \/ ResumeSession \/ Fails
    \/ Query \/ Planned \/ Executed \/ RoundFails \/ Saved \/ SummaryFatal
    \/ Quit \/ Flush \/ CleanUp("main") \/ CleanedUp("main") \/ Return

HandlerStep ==
    \/ HandlerWaits \/ HandlerReceives
    \/ CleanUp("handler") \/ CleanedUp("handler") \/ HandlerExits

Next == Start \/ MainStep \/ HandlerStep \/ Interrupt \/ Killed

\* Weak fairness for the handler's goroutine and for main from its last
\* steps on: in the REPL it may wait for the user for ever.
Spec ==
    /\ Init /\ [][Next]_vars
    /\ WF_vars(HandlerStep)
    /\ WF_vars(Flush \/ CleanUp("main") \/ CleanedUp("main") \/ Return)

-----------------------------------------------------------------------------
FlagsOK == resume \in BOOLEAN /\ caught \in BOOLEAN

\* The types of the variables.
TypeOK ==
    /\ status \in Ends \cup {"off", "running"}
    /\ main \in {"off", "store", "sandbox", "notify", "copy", "setup", "session", "prompt",
                 "saving", "flush", "return", "fatal"} \cup Agents
    /\ handler \in {"none", "starting", "waiting", "received"}
    /\ once \in Callers \cup {"unused", "done"}
    /\ signals \in 0..1
    /\ container \in {"none", "up", "removed"}
    /\ files \in SUBSET Paths
    /\ pcap \in Paths \cup {NoPath} /\ path \in Paths \cup {NoPath}
    /\ stored \in Paths \cup {NoPath}
    /\ FlagsOK
    /\ runs \in 0..MaxRuns
    /\ left \in SUBSET Ends

\* A run that returns, ends in fatal, or is interrupted once the handler is
\* installed takes its container with it, whoever of main and the handler
\* was first to clean up and whenever the signal came (main.go:70-98).
Tidy == left \subseteq {"fatal", "killed"}

\* A new session's agents find their capture in the container, and so does
\* whoever resumes the session and gives the same capture again
\* (main.go:100-112, 172-180).
GivenCaptureIsThere ==
    main \in Agents /\ (resume => pcap = stored) => path \in files

\* A signal that comes once Notify was called ends the run, however far the
\* handler's goroutine and main have come (main.go:82-90).
InterruptEnds == caught ~> status # "running"

\* So does quitting (main.go:202-205, 250-251).
QuitEnds == main = "flush" ~> status # "running"

\* "fatal logs an error, cleans up the container, and exits. Use this
\* instead of log.Fatalf after sandbox creation" (main.go:92-93): no run
\* ends by Fatalf with its container up.
NoFatalLeavesContainer == "fatal" \notin left

\* PcapPath is the "container-side path to the target PCAP" (planner.go:23):
\* when a query is planned that capture is in the container.
CaptureIsThere == main = "planning" => path \in files
=============================================================================
