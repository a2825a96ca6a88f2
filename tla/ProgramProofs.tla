--------------------------- MODULE ProgramProofs ---------------------------
(***************************************************************************)
(* The safety properties of Program, for every set of captures and every   *)
(* number of runs.                                                         *)
(*                                                                         *)
(* Tidy is inductive together with what sync.Once grants (Removed): once   *)
(* it is done the container is removed. That a capture is there follows    *)
(* from where main has come with its flags (Located).                      *)
(***************************************************************************)
EXTENDS Program, TLAPS

USE NoPathAssumption, BoundAssumption

-----------------------------------------------------------------------------
\* Every step keeps the two flags Boolean.
LEMMA FlagsTyped ==
    ASSUME FlagsOK, [Next]_vars
    PROVE  FlagsOK'
<1> USE DEF FlagsOK
<1>1. ASSUME NEW how, End(how) PROVE FlagsOK'
  BY <1>1, Zenon DEF End, env
<1>2. CASE Start
  BY <1>2, Zenon DEF Start
<1>3. ASSUME NEW from, NEW to, Step(from, to), UNCHANGED resume PROVE FlagsOK'
  BY <1>3, Zenon DEF Step
<1>4. CASE OpenStore \/ GetOperator \/ SetUp \/ Fails
  BY <1>3, <1>4, Zenon DEF OpenStore, GetOperator, SetUp, Fails, env
<1>5. CASE Notify
  BY <1>5, Zenon DEF Notify, env
<1>6. CASE CopyPcap \/ NewSession \/ ResumeSession
  BY <1>3, <1>6, Zenon DEF CopyPcap, CopyFileToContainer, NewSession, ResumeSession
<1>7. CASE Query \/ Planned \/ Executed \/ RoundFails \/ Saved \/ Quit \/ Flush
  BY <1>3, <1>7, Zenon DEF Query, Planned, Executed, RoundFails, Saved, Quit, Flush, env
<1>8. CASE FailEarly \/ SummaryFatal \/ Return \/ HandlerExits \/ Killed
  BY <1>1, <1>8, Zenon DEF FailEarly, SummaryFatal, Return, HandlerExits, Killed
<1>9. ASSUME NEW c, CleanUp(c) \/ CleanedUp(c) PROVE FlagsOK'
  BY <1>9, Zenon DEF CleanUp, CleanedUp, env
<1>10. CASE Interrupt \/ HandlerWaits \/ HandlerReceives
  BY <1>10, Zenon DEF Interrupt, HandlerWaits, HandlerReceives, env
<1>11. CASE UNCHANGED vars
  BY <1>11, Zenon DEF vars, env
<1> QED
  BY <1>2, <1>4, <1>5, <1>6, <1>7, <1>8, <1>9, <1>10, <1>11, Zenon
  DEF Next, MainStep, HandlerStep

\* The variables always have their types.
THEOREM TypeCorrect == Spec => []TypeOK
<1>1. Init => TypeOK
  <2>1. Init => FlagsOK
    BY Zenon DEF Init, FlagsOK
  <2> QED
    BY <2>1 DEF Init, TypeOK, Ends, Callers, Agents
<1>2. TypeOK /\ [Next]_vars => TypeOK'
  <2> SUFFICES ASSUME TypeOK, FlagsOK', [Next]_vars PROVE TypeOK'
    <3>1. TypeOK /\ [Next]_vars => FlagsOK'
      BY FlagsTyped DEF TypeOK
    <3> QED
      BY <3>1
  <2> USE DEF TypeOK, Ends, Callers, Agents, env
  <2>1. CASE Start
    BY <2>1 DEF Start
  <2>2. ASSUME NEW how \in Ends, End(how) PROVE TypeOK'
    <3>1. left' \in SUBSET Ends
      BY <2>2 DEF End
    <3>2. UNCHANGED <<container, env, runs>>
      BY <2>2 DEF End
    <3> QED
      BY <2>2, <3>1, <3>2 DEF End
  <2>3. CASE OpenStore \/ GetOperator \/ SetUp \/ Fails
    BY <2>3 DEF OpenStore, GetOperator, SetUp, Fails, Step
  <2>4. CASE Notify \/ CopyPcap
    BY <2>4 DEF Notify, CopyPcap, CopyFileToContainer, Step
  <2>5. CASE NewSession \/ ResumeSession
    BY <2>5 DEF NewSession, ResumeSession, Step
  <2>6. CASE Query \/ Planned \/ Executed \/ RoundFails \/ Saved \/ Quit \/ Flush
    <3>1. CASE Query \/ Planned \/ Executed
      BY <3>1 DEF Query, Planned, Executed, Step
    <3>2. CASE RoundFails \/ Saved
      BY <3>2 DEF RoundFails, Saved, Step
    <3>3. CASE Quit \/ Flush
      BY <3>3 DEF Quit, Flush, Step
    <3> QED
      BY <2>6, <3>1, <3>2, <3>3
  <2>7. CASE FailEarly \/ SummaryFatal \/ Return \/ HandlerExits \/ Killed
    BY <2>2, <2>7 DEF FailEarly, SummaryFatal, Return, HandlerExits, Killed
  <2>8. ASSUME NEW c \in Callers, CleanUp(c) \/ CleanedUp(c) PROVE TypeOK'
    <3>1. CASE CleanUp(c)
      BY <3>1 DEF CleanUp
    <3>2. CASE CleanedUp(c)
      BY <3>2 DEF CleanedUp
    <3> QED
      BY <2>8, <3>1, <3>2
  <2>9. CASE Interrupt \/ HandlerWaits \/ HandlerReceives
    <3>1. CASE Interrupt
      BY <3>1 DEF Interrupt
    <3>2. CASE HandlerWaits
      BY <3>2 DEF HandlerWaits
    <3>3. CASE HandlerReceives
      BY <3>3 DEF HandlerReceives
    <3> QED
      BY <2>9, <3>1, <3>2, <3>3
  <2>10. CASE UNCHANGED vars
    BY <2>10 DEF vars
  <2> QED
    BY <2>1, <2>3, <2>4, <2>5, <2>6, <2>7, <2>8, <2>9, <2>10 DEF Next, MainStep, HandlerStep
<1> QED
  BY <1>1, <1>2, PTL DEF Spec

-----------------------------------------------------------------------------
\* The container is there from its creation until the function that removes
\* it was run to its end; nobody cleans up before it is created.
Removed ==
    /\ once = "done" => container = "removed"
    /\ status # "running" => once = "unused" /\ handler = "none"
    /\ main \in {"store", "sandbox", "notify"} => once = "unused" /\ handler = "none"
    /\ main \in {"store", "sandbox"} => container = "none"

\* A run that returns, ends in fatal or is interrupted leaves no container,
\* whatever the goroutines that clean up have come to (main.go:70-98).
THEOREM ContainersAreRemoved == Spec => []Tidy
<1>1. Init => Removed /\ Tidy
  BY DEF Init, Removed, Tidy
<1>2. Removed /\ Tidy /\ [Next]_vars => Removed' /\ Tidy'
  <2> SUFFICES ASSUME Removed, Tidy, [Next]_vars PROVE Removed' /\ Tidy'
    OBVIOUS
  <2> USE DEF Removed, Tidy
  <2>1. ASSUME NEW how, End(how), container = "up" => how \in {"fatal", "killed"}
        PROVE  Removed' /\ Tidy'
    BY <2>1 DEF End
  <2>2. CASE Start
    BY <2>2 DEF Start
  <2>3. CASE OpenStore \/ GetOperator \/ SetUp \/ Fails
    BY <2>3 DEF OpenStore, GetOperator, SetUp, Fails, Step
  <2>4. CASE Notify \/ CopyPcap \/ NewSession \/ ResumeSession
    BY <2>4 DEF Notify, CopyPcap, CopyFileToContainer, NewSession, ResumeSession, Step
  <2>5. CASE Query \/ Planned \/ Executed \/ RoundFails \/ Saved \/ Quit \/ Flush
    BY <2>5 DEF Query, Planned, Executed, RoundFails, Saved, Quit, Flush, Step
  <2>6. CASE FailEarly
    BY <2>1, <2>6 DEF FailEarly
  <2>7. CASE SummaryFatal \/ Killed
    BY <2>1, <2>7 DEF SummaryFatal, Killed
  <2>8. CASE Return \/ HandlerExits
    BY <2>1, <2>8 DEF Return, HandlerExits, Clean
  <2>9. ASSUME NEW c \in Callers, CleanUp(c) \/ CleanedUp(c) PROVE Removed' /\ Tidy'
    <3>1. CASE CleanUp(c)
      BY <2>9, <3>1 DEF CleanUp, Calls, Callers
    <3>2. CASE CleanedUp(c)
      BY <2>9, <3>2 DEF CleanedUp, Callers
    <3> QED
      BY <2>9, <3>1, <3>2
  <2>10. CASE Interrupt \/ HandlerWaits \/ HandlerReceives
    BY <2>10 DEF Interrupt, HandlerWaits, HandlerReceives
  <2>11. CASE UNCHANGED vars
    BY <2>11 DEF vars
  <2> QED
    BY <2>2, <2>3, <2>4, <2>5, <2>6, <2>7, <2>8, <2>9, <2>10, <2>11
    DEF Next, MainStep, HandlerStep, Callers
<1> QED
  BY <1>1, <1>2, PTL DEF Spec

-----------------------------------------------------------------------------
\* Where the captures are: the one that was given is copied before there is
\* a session, and the session's path is that one or the stored one.
Located ==
    /\ main \in {"store", "sandbox", "notify", "copy"} => path = NoPath
    /\ main \in {"setup", "session"} => path = pcap
    /\ main \in {"setup", "session", "prompt", "saving"} \cup Agents /\ pcap # NoPath =>
         pcap \in files
    /\ main \in {"prompt", "saving"} \cup Agents =>
         IF resume THEN path = stored /\ stored # NoPath ELSE path = pcap /\ pcap # NoPath

\* The agents of a new session find their capture in the container, and so do
\* those of a session resumed with the same capture (main.go:100-112, 172-180).
THEOREM GivenCapturesAreThere == Spec => []GivenCaptureIsThere
<1>1. Init => Located
  BY DEF Init, Located, Agents
<1>2. Located /\ [Next]_vars => Located'
  <2> SUFFICES ASSUME Located, [Next]_vars PROVE Located'
    OBVIOUS
  <2> USE DEF Located, Agents, env
  <2>1. ASSUME NEW how, End(how) PROVE Located'
    BY <2>1 DEF End
  <2>2. CASE Start
    BY <2>2 DEF Start
  <2>3. CASE OpenStore \/ GetOperator \/ SetUp \/ Fails
    BY <2>3 DEF OpenStore, GetOperator, SetUp, Fails, Step
  <2>4. CASE Notify \/ CopyPcap
    BY <2>4 DEF Notify, CopyPcap, CopyFileToContainer, Step
  <2>5. CASE NewSession \/ ResumeSession
    BY <2>5 DEF NewSession, ResumeSession, Step
  <2>6. CASE Query \/ Planned \/ Executed \/ RoundFails \/ Saved \/ Quit \/ Flush
    BY <2>6 DEF Query, Planned, Executed, RoundFails, Saved, Quit, Flush, Step
  <2>7. CASE FailEarly \/ SummaryFatal \/ Return \/ HandlerExits \/ Killed
    BY <2>1, <2>7 DEF FailEarly, SummaryFatal, Return, HandlerExits, Killed
  <2>8. ASSUME NEW c \in Callers, CleanUp(c) \/ CleanedUp(c) PROVE Located'
    BY <2>8 DEF CleanUp, CleanedUp
  <2>9. CASE Interrupt \/ HandlerWaits \/ HandlerReceives
    BY <2>9 DEF Interrupt, HandlerWaits, HandlerReceives
  <2>10. CASE UNCHANGED vars
    BY <2>10 DEF vars
  <2> QED
    BY <2>2, <2>3, <2>4, <2>5, <2>6, <2>7, <2>8, <2>9, <2>10
    DEF Next, MainStep, HandlerStep, Callers
<1>3. Located => GivenCaptureIsThere
  BY DEF Located, GivenCaptureIsThere
<1> QED
  BY <1>1, <1>2, <1>3, PTL DEF Spec
=============================================================================
