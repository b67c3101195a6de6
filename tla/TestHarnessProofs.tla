------------------------- MODULE TestHarnessProofs -------------------------
(***************************************************************************)
(* What the test harness owes its client, for every number of timers,      *)
(* runs, reports and clients and every set of parameters: nothing leaks,   *)
(* verdicts belong to their runs, every client is answered once, and tests *)
(* start with all their parameters.                                        *)
(*                                                                         *)
(* The inductive invariant ties what the test runner holds to the phase of *)
(* core 0: a run is in progress (Doing) from the moment its timeout ticks  *)
(* until its verdict, and while it is, the client that asked for it is     *)
(* connected, its timer is the only one in use, and only its code is       *)
(* active.                                                                 *)
(***************************************************************************)
EXTENDS TestHarness, FiniteSetTheorems, TLAPS

Phases == {"running", "starting", "draining", "exiting", "deregistering", "final"}
Gone == phase \in {"deregistering", "final"}
Retired == phase \in {"exiting", "deregistering", "final"}
Busy == runner.state = "Busy"
Doing == Busy \/ phase = "starting"

Timers == [state : {"none", "idle", "armed", "retired"}, id : 0 .. MaxRuns]
Reports == [kind : {"none", "result", "extension"}, id : 0 .. MaxRuns, late : BOOLEAN]
Mails == [kind : {"timeout", "result", "extension"}, id : 0 .. MaxRuns, of : 0 .. MaxRuns,
          late : BOOLEAN]
Codes == [state : {"none", "active", "lingering"}, sent : Nat, report : Reports]
Verdicts ==
    [how : {"none", "stopped", "hangup", "refused", "unstarted", "unextended", "result",
            "timeout", "shutdown"},
     of : 0 .. MaxRuns, late : BOOLEAN]
Entries == [asker : 0 .. MaxClients, verdict : Verdicts, answers : Seq(Nat)]
Clients == [waiting : BOOLEAN, count : 0 .. MaxClients, peer : {"none", "up", "gone"}]

Types ==
    /\ phase \in Phases
    /\ polling \in BOOLEAN /\ registered \in BOOLEAN /\ fatal \in BOOLEAN
    /\ conn \in [active : 0 .. MaxClients, pollable : {"listening", "connection"}]
    /\ open \subseteq {"listening", "connection"}
    /\ client \in Clients
    /\ runner \in [state : {"Idle", "Busy"}, timer : TimerIds \cup {NoTimer}, test : BOOLEAN]
    /\ run.timer \in TimerIds \cup {NoTimer}
    /\ runId \in 0 .. MaxRuns
    /\ timers \in [TimerIds -> Timers]
    /\ queue \in Seq(Mails)
    /\ code \in [Runs -> Codes]
    /\ ledger \in [Runs -> Entries]

(* Core 0 and what depends on its phase only. *)
PhaseInv ==
    /\ polling <=> phase \in {"running", "starting"}
    /\ registered <=> phase # "final"
    /\ ~ fatal

(* A client that waits has not been counted yet; the descriptors are those  *)
(* of the socket and of the connection, until the exit.                     *)
SocketInv ==
    /\ client.waiting => client.count < MaxClients
    /\ conn.active = 0 <=> conn.pollable = "listening"
    /\ open = IF Gone THEN {}
              ELSE {"listening"} \cup (IF conn.active = 0 THEN {} ELSE {"connection"})

RunnerInv ==
    /\ Busy => runner.test /\ runner.timer \in TimerIds /\ phase \in {"running", "draining", "exiting"}
    /\ ~ Busy => runner = Idle
    /\ phase = "starting" => run.timer \in TimerIds
    /\ phase # "starting" => run = NoRun

(* The timer of the run in progress is the only one, until all are retired. *)
InUse(t) == IF phase = "starting" THEN t = run.timer ELSE Busy /\ t = runner.timer
TimersInv ==
    \A t \in TimerIds :
        /\ Retired => timers[t].state = "retired"
        /\ ~ Retired /\ InUse(t) => timers[t].state \in {"idle", "armed"}
        /\ ~ Retired /\ ~ InUse(t) => timers[t].state = "none"
Armed == {t \in TimerIds : timers[t].state = "armed"}
LiveInv == live = Len(queue) + Cardinality(Armed)

Silent == {"none", "stopped", "hangup", "shutdown"}
LedgerInv ==
    /\ \A r \in Runs :
          /\ ledger[r].asker # 0 <=> r <= runId
          /\ r > runId => ledger[r].verdict.how = "none"
          /\ ledger[r].verdict.how \in Silent => ledger[r].answers = << >>
          /\ ledger[r].verdict.how \notin Silent => ledger[r].answers = <<ledger[r].asker>>
    /\ VerdictsBelong
    /\ Doing => /\ runId \in Runs
                /\ ledger[runId].verdict.how = "none"
                /\ ledger[runId].asker = conn.active

(* Only the code of the run in progress is active: what other code reports  *)
(* is late.                                                                 *)
CodeInv ==
    /\ \A r \in Runs :
          /\ code[r].state = "active" => r = runId /\ Doing
          /\ \/ code[r].report = NoReport
             \/ /\ code[r].report.kind # "none"
                /\ code[r].report.late \/ code[r].report.id = r
    /\ \A i \in 1 .. Len(queue) : queue[i].late \/ queue[i].of = queue[i].id

IInv ==
    /\ Types /\ PhaseInv /\ SocketInv /\ RunnerInv /\ TimersInv /\ LiveInv /\ LedgerInv /\ CodeInv
    /\ ParamsComplete

-----------------------------------------------------------------------------
(* What is assumed of the bounds. *)
LEMMA Bounds == MaxRuns \in Nat /\ MaxReports \in Nat /\ MaxClients \in Nat
BY TestHarnessAssumption

(* In the poll callback core 0 is in its loop; a test that is stopped has a *)
(* timer and a registered test case.                                        *)
LEMMA Polling ==
    ASSUME IInv, InPollCallback
    PROVE  phase = "running"
BY DEF IInv, PhaseInv, InPollCallback, Dispatching

LEMMA BusyHas ==
    ASSUME IInv, Busy
    PROVE  /\ runner.test /\ registered /\ Exists(runner.timer) /\ runner.timer \in TimerIds
           /\ phase \in {"running", "draining", "exiting"}
<1>1. runner.test /\ runner.timer \in TimerIds /\ phase \in {"running", "draining", "exiting"}
  BY DEF IInv, RunnerInv
<1>2. InUse(runner.timer)
  BY <1>1 DEF InUse
<1>3. timers[runner.timer].state \in {"idle", "armed", "retired"}
  BY <1>1, <1>2 DEF IInv, TimersInv
<1> QED BY <1>1, <1>3 DEF Exists, IInv, PhaseInv

LEMMA StartingHas ==
    ASSUME IInv, phase = "starting"
    PROVE  /\ run.timer \in TimerIds /\ Exists(run.timer) /\ ~ Busy /\ runner = Idle /\ ~ Retired
           /\ timers[run.timer].state \in {"idle", "armed"}
<1>1. run.timer \in TimerIds /\ ~ Busy /\ runner = Idle /\ ~ Retired
  BY DEF IInv, RunnerInv, Retired
<1>2. timers[run.timer].state \in {"idle", "armed"}
  BY <1>1 DEF IInv, TimersInv, InUse
<1> QED BY <1>1, <1>2 DEF Exists

(* No assertion fails. *)
LEMMA NotFatal ==
    ASSUME IInv, Next
    PROVE  ~ fatal'
<1>0. ~ fatal
  BY DEF IInv, PhaseInv
<1>1. ASSUME NEW messages, Busy, StopOngoingTest(messages) PROVE ~ fatal'
  BY <1>0, <1>1, BusyHas DEF StopOngoingTest, Assert
<1>2. CASE Accept
  <2>1. phase = "running"
    BY <1>2, Polling DEF Accept
  <2>2. "listening" \in open /\ conn.active = 0
    BY <1>2, <2>1 DEF Accept, IInv, SocketInv, Gone
  <2> QED BY <1>0, <1>2, <2>2 DEF Accept, Assert
<1>3. CASE PollHup
  BY <1>0, <1>1, <1>3 DEF PollHup, Busy
<1>4. CASE HandleCommandStop
  BY <1>1, <1>4 DEF HandleCommandStop, Busy
<1>5. CASE StartTestFails
  BY <1>0, <1>5, StartingHas DEF StartTestFails, Assert
<1>6. CASE HandleTestResult
  BY <1>1, <1>6 DEF HandleTestResult, Current, Busy
<1>7. ASSUME NEW succeeds \in BOOLEAN, HandleTimeoutExtension(succeeds) PROVE ~ fatal'
  BY <1>0, <1>1, <1>7, BusyHas DEF HandleTimeoutExtension, Current, Busy, Assert
<1>8. CASE HarnessGlobalExit
  BY <1>0, <1>1, <1>8 DEF HarnessGlobalExit, Busy
<1>9. ASSUME \/ RunRefused \/ Start \/ Obsolete \/ ExtensionIgnored \/ LeaveLoop \/ RetireAllTimers \/ Deregister
             \/ Environment \/ (\E t \in TimerIds : Timeout(t))
             \/ \E t \in TimerIds, args \in Requests : RunBegins(t, args)
      PROVE  ~ fatal'
  BY <1>0, <1>5, <1>9
     DEF RunRefused, RunBegins, Start, StartTest, StartTestReturns, Obsolete, ExtensionIgnored, LeaveLoop,
         RetireAllTimers, Deregister, Environment, ClientConnects, ClientLeaves, HarnessUnchanged, Sends, CannotSend,
         ReadsRunId, CodeUnchanged, Timeout
<1> QED BY <1>2, <1>3, <1>4, <1>6, <1>7, <1>8, <1>9 DEF Next, Poll, Listener, Shutdown

(* Stopping a test touches neither core 0 nor the socket. *)
LEMMA NextPhase ==
    ASSUME IInv, Next
    PROVE  PhaseInv' /\ SocketInv'
<1> USE Bounds
<1>0. ~ fatal'
  BY NotFatal
<1>1. CASE Accept
  BY <1>0, <1>1, Polling DEF Accept, IInv, PhaseInv, SocketInv, Types, Clients, Gone
<1>2. CASE PollHup
  <2>1. phase = "running" /\ phase' = phase /\ polling' = polling /\ registered' = registered
    BY <1>2, Polling DEF PollHup
  <2>2. client'.waiting = client.waiting /\ client'.count = client.count
    BY <1>2 DEF PollHup, IInv, Types, Clients
  <2>3. conn'.active = 0 /\ conn'.pollable = "listening" /\ open' = {"listening"}
    BY <1>2, <2>1 DEF PollHup, IInv, SocketInv, Gone
  <2> QED BY <1>0, <2>1, <2>2, <2>3 DEF IInv, PhaseInv, SocketInv, Gone
<1>3. CASE HandleCommandStop \/ RunRefused \/ \E t \in TimerIds, args \in Requests : RunBegins(t, args)
  BY <1>0, <1>3, Polling DEF HandleCommandStop, RunRefused, RunBegins, PollIn, sock, IInv, PhaseInv, SocketInv, Gone
<1>4. CASE Start
  BY <1>0, <1>4 DEF Start, StartTest, StartTestReturns, StartTestFails, sock, IInv, PhaseInv, SocketInv, Gone
<1>5. CASE Listener
  <2>1. UNCHANGED <<phase, polling, sock, registered>>
    BY <1>5 DEF Listener, Obsolete, HandleTestResult, ExtensionIgnored, HandleTimeoutExtension, Receives
  <2> QED BY <1>0, <2>1 DEF sock, IInv, PhaseInv, SocketInv, Gone
<1>6. CASE Shutdown
  BY <1>0, <1>6 DEF Shutdown, LeaveLoop, RetireAllTimers, HarnessGlobalExit, Deregister, DisableInputPolling, sock,
         IInv, PhaseInv, SocketInv, Gone
<1>7. CASE ClientConnects \/ ClientLeaves
  BY <1>0, <1>7 DEF ClientConnects, ClientLeaves, HarnessUnchanged, IInv, PhaseInv, SocketInv, Gone, Types, Clients
<1>8. ASSUME NEW r \in Runs, \/ Sends(r) \/ CannotSend(r)
                             \/ \E kind \in {"result", "extension"} : ReadsRunId(r, kind)
      PROVE  PhaseInv' /\ SocketInv'
  BY <1>0, <1>8 DEF Sends, CannotSend, ReadsRunId, CodeUnchanged, sock, IInv, PhaseInv, SocketInv, Gone
<1>9. ASSUME NEW t \in TimerIds, Timeout(t) PROVE PhaseInv' /\ SocketInv'
  BY <1>0, <1>9 DEF Timeout, sock, IInv, PhaseInv, SocketInv, Gone
<1> QED BY <1>1, <1>2, <1>3, <1>4, <1>5, <1>6, <1>7, <1>8, <1>9 DEF Next, Poll, Environment

-----------------------------------------------------------------------------
(* What stopping a test does to the runner, its timer and its code.         *)
LEMMA StopIs ==
    ASSUME IInv, Busy, NEW messages, StopOngoingTest(messages)
    PROVE  /\ runner' = Idle /\ runner.timer \in TimerIds
           /\ Retired => timers' = timers
           /\ ~ Retired => timers' = [timers EXCEPT ![runner.timer] = [state |-> "none", id |-> 0]]
           /\ live' = live - messages - HeldBy(runner.timer)
           /\ code' = [code EXCEPT ![runId].state = "lingering"]
<1>1. runner.timer \in TimerIds
  BY BusyHas
<1>2. /\ Retired => timers[runner.timer].state = "retired"
      /\ ~ Retired => timers[runner.timer].state # "retired"
  BY <1>1 DEF IInv, TimersInv, InUse, Busy
<1>3. timers' = Freed(runner.timer) /\ timers \in [TimerIds -> Timers]
  BY DEF StopOngoingTest, IInv, Types
<1>4. Retired => timers' = timers
  BY <1>1, <1>2, <1>3 DEF Freed
<1>5. ~ Retired => timers' = [timers EXCEPT ![runner.timer] = [state |-> "none", id |-> 0]]
  BY <1>1, <1>2, <1>3 DEF Freed
<1> QED BY <1>1, <1>4, <1>5 DEF StopOngoingTest, Terminated

(* The runner, and what is left of a request. *)
LEMMA NextRunner ==
    ASSUME IInv, Next
    PROVE  RunnerInv'
<1>0. RunnerInv /\ Idle.state = "Idle"
  BY DEF IInv, Idle
<1>1. ASSUME NEW messages, Busy, StopOngoingTest(messages), UNCHANGED run, phase # "starting", phase' # "starting"
      PROVE  RunnerInv'
  BY <1>0, <1>1, StopIs DEF RunnerInv, Busy
<1>2. ASSUME UNCHANGED <<runner, run>>, phase # "starting", phase' # "starting",
             Busy => phase' \in {"running", "draining", "exiting"}
      PROVE  RunnerInv'
  BY <1>0, <1>2 DEF RunnerInv, Busy
<1>3. ASSUME UNCHANGED <<phase, runner, run>>
      PROVE  RunnerInv'
  BY <1>0, <1>3 DEF RunnerInv, Busy
<1>4. CASE Accept
  BY <1>3, <1>4 DEF Accept
<1>5. CASE PollHup
  BY <1>1, <1>3, <1>5, Polling DEF PollHup, Busy
<1>6. CASE HandleCommandStop
  BY <1>1, <1>6, Polling DEF HandleCommandStop, PollIn, Busy
<1>7. CASE RunRefused
  BY <1>3, <1>7 DEF RunRefused
<1>8. ASSUME NEW t \in TimerIds, NEW args \in Requests, RunBegins(t, args) PROVE RunnerInv'
  BY <1>0, <1>8 DEF RunBegins, PollIn, RunnerInv, Busy
<1>9. CASE StartTest
  BY <1>3, <1>9 DEF StartTest
<1>10. CASE StartTestReturns
  BY <1>0, <1>10 DEF StartTestReturns, RunnerInv, Busy
<1>11. CASE StartTestFails
  BY <1>0, <1>11 DEF StartTestFails, RunnerInv, Busy
<1>12. CASE Obsolete \/ ExtensionIgnored
  BY <1>3, <1>12 DEF Obsolete, ExtensionIgnored, Receives
<1>13. CASE HandleTestResult
  BY <1>1, <1>13 DEF HandleTestResult, Receives, Dispatching, Current, Busy
<1>14. ASSUME NEW succeeds \in BOOLEAN, HandleTimeoutExtension(succeeds) PROVE RunnerInv'
  BY <1>1, <1>3, <1>14 DEF HandleTimeoutExtension, Receives, Dispatching, Current, Busy
<1>15. CASE LeaveLoop
  BY <1>2, <1>15 DEF LeaveLoop
<1>16. CASE RetireAllTimers
  BY <1>2, <1>16 DEF RetireAllTimers
<1>17. CASE HarnessGlobalExit
  BY <1>1, <1>2, <1>17 DEF HarnessGlobalExit, Busy
<1>18. CASE Deregister
  BY <1>0, <1>2, <1>18 DEF Deregister, RunnerInv
<1>19. CASE Environment \/ \E t \in TimerIds : Timeout(t)
  BY <1>3, <1>19 DEF Environment, ClientConnects, ClientLeaves, HarnessUnchanged, Sends, CannotSend, ReadsRunId,
         CodeUnchanged, Timeout
<1> QED BY <1>4, <1>5, <1>6, <1>7, <1>8, <1>9, <1>10, <1>11, <1>12, <1>13, <1>14, <1>15, <1>16, <1>17, <1>18, <1>19
        DEF Next, Poll, Start, Listener, Shutdown

(* The timer of the run in progress is the only one in use. *)
LEMMA TimersSame ==
    ASSUME IInv, UNCHANGED timers, Retired' <=> Retired, \A t \in TimerIds : InUse(t)' <=> InUse(t)
    PROVE  TimersInv'
BY DEF IInv, TimersInv

LEMMA TimersFreed ==
    ASSUME IInv, NEW u \in TimerIds, InUse(u), Retired' <=> Retired, \A t \in TimerIds : ~ InUse(t)',
           Retired => timers' = timers,
           ~ Retired => timers' = [timers EXCEPT ![u] = [state |-> "none", id |-> 0]]
    PROVE  TimersInv'
<1>1. \A t \in TimerIds : t # u => ~ InUse(t)
  BY DEF InUse
<1>2. timers \in [TimerIds -> Timers]
  BY DEF IInv, Types
<1> QED BY <1>1, <1>2 DEF IInv, TimersInv

LEMMA NextTimers ==
    ASSUME IInv, Next
    PROVE  TimersInv'
<1>0. timers \in [TimerIds -> Timers]
  BY DEF IInv, Types
<1>1. ASSUME NEW messages, Busy, StopOngoingTest(messages), phase # "starting", phase' # "starting", Retired' <=> Retired
      PROVE  TimersInv'
  <2>1. InUse(runner.timer) /\ \A t \in TimerIds : ~ InUse(t)'
    BY <1>1, StopIs DEF InUse, Busy, Idle
  <2> QED BY <1>1, <2>1, StopIs, TimersFreed
<1>2. ASSUME UNCHANGED <<timers, runner, run>>, Retired' <=> Retired, phase = "starting" <=> phase' = "starting"
      PROVE  TimersInv'
  BY <1>2, TimersSame DEF InUse, Busy
<1>3. CASE Accept
  BY <1>2, <1>3 DEF Accept, Retired
<1>4. CASE PollHup
  BY <1>1, <1>2, <1>4, Polling DEF PollHup, Busy, Retired
<1>5. CASE HandleCommandStop
  BY <1>1, <1>5, Polling DEF HandleCommandStop, PollIn, Busy, Retired
<1>6. CASE RunRefused
  BY <1>2, <1>6 DEF RunRefused, Retired
<1>7. ASSUME NEW u \in TimerIds, NEW args \in Requests, RunBegins(u, args) PROVE TimersInv'
  <2>1. /\ phase = "running" /\ phase' = "starting" /\ run'.timer = u /\ ~ Busy
        /\ timers' = [timers EXCEPT ![u] = [state |-> "armed", id |-> runId + 1]]
    BY <1>7, Polling DEF RunBegins, PollIn, Busy
  <2>2. \A t \in TimerIds : timers[t].state = "none"
    BY <2>1 DEF IInv, TimersInv, InUse, Retired
  <2>3. \A t \in TimerIds : InUse(t)' <=> t = u
    BY <2>1 DEF InUse
  <2> QED BY <1>0, <2>1, <2>2, <2>3 DEF TimersInv, Retired
<1>8. CASE StartTest
  BY <1>2, <1>8 DEF StartTest, Retired
<1>9. CASE StartTestReturns
  <2>1. \A t \in TimerIds : InUse(t)' <=> InUse(t)
    BY <1>9 DEF StartTestReturns, InUse, Busy
  <2> QED BY <1>9, <2>1, TimersSame DEF StartTestReturns, Retired
<1>10. CASE StartTestFails
  <2>1. run.timer \in TimerIds /\ InUse(run.timer) /\ ~ Retired /\ ~ Busy
    BY <1>10, StartingHas DEF StartTestFails, InUse
  <2>2. timers' = [timers EXCEPT ![run.timer] = [state |-> "none", id |-> 0]]
    BY <1>0, <1>10, <2>1, StartingHas DEF StartTestFails, Freed
  <2>3. \A t \in TimerIds : ~ InUse(t)'
    BY <1>10, <2>1 DEF StartTestFails, InUse, Busy
  <2>4. ~ Retired'
    BY <1>10 DEF StartTestFails, Retired
  <2> QED BY <2>1, <2>2, <2>3, <2>4, TimersFreed
<1>11. CASE Obsolete \/ ExtensionIgnored
  BY <1>2, <1>11 DEF Obsolete, ExtensionIgnored, Receives, Retired
<1>12. CASE HandleTestResult
  BY <1>1, <1>12 DEF HandleTestResult, Receives, Dispatching, Current, Busy, Retired
<1>13. ASSUME NEW succeeds \in BOOLEAN, HandleTimeoutExtension(succeeds) PROVE TimersInv'
  <2>1. CASE StopOngoingTest(1)
    BY <1>1, <1>13, <2>1 DEF HandleTimeoutExtension, Receives, Dispatching, Current, Busy, Retired
  <2>2. CASE timers[runner.timer].state # "retired" /\ timers' = Rearmed(runner.timer) /\ UNCHANGED runner
    <3>1. /\ Busy /\ runner.timer \in TimerIds /\ phase' = phase /\ run' = run /\ phase # "starting"
      BY <1>13, BusyHas DEF HandleTimeoutExtension, Receives, Dispatching, Current, Busy
    <3>2. InUse(runner.timer) /\ ~ Retired /\ ~ Retired' /\ \A t \in TimerIds : InUse(t)' <=> t = runner.timer
      BY <2>2, <3>1 DEF InUse, Busy, Retired, IInv, TimersInv
    <3>3. \A t \in TimerIds : t # runner.timer => ~ InUse(t)
      BY <3>1 DEF InUse
    <3> QED BY <1>0, <2>2, <3>1, <3>2, <3>3 DEF Rearmed, IInv, TimersInv
  <2> QED BY <1>13, <2>1, <2>2 DEF HandleTimeoutExtension
<1>14. CASE LeaveLoop
  BY <1>2, <1>14 DEF LeaveLoop, Retired
<1>15. CASE RetireAllTimers
  BY <1>15 DEF RetireAllTimers, Retired, TimersInv
<1>16. CASE HarnessGlobalExit
  BY <1>1, <1>2, <1>16 DEF HarnessGlobalExit, Busy, Retired
<1>17. CASE Deregister
  BY <1>2, <1>17 DEF Deregister, Retired
<1>18. CASE Environment
  BY <1>2, <1>18 DEF Environment, ClientConnects, ClientLeaves, HarnessUnchanged, Sends, CannotSend, ReadsRunId,
         CodeUnchanged, Retired
<1>19. ASSUME NEW t \in TimerIds, Timeout(t) PROVE TimersInv'
  <2>1. \A u \in TimerIds : InUse(u)' <=> InUse(u)
    BY <1>19 DEF Timeout, InUse, Busy
  <2>2. Retired' <=> Retired
    BY <1>19 DEF Timeout, Retired
  <2>3. timers[t].state = "armed" /\ timers' = [timers EXCEPT ![t].state = "idle"]
    BY <1>19 DEF Timeout
  <2>4. ~ Retired /\ InUse(t)
    BY <2>3 DEF IInv, TimersInv
  <2>5. timers'[t].state = "idle" /\ \A u \in TimerIds : u # t => timers'[u] = timers[u]
    BY <1>0, <2>3 DEF Timers
  <2> QED BY <2>1, <2>2, <2>4, <2>5 DEF IInv, TimersInv
<1> QED BY <1>3, <1>4, <1>5, <1>6, <1>7, <1>8, <1>9, <1>10, <1>11, <1>12, <1>13, <1>14, <1>15, <1>16, <1>17, <1>18, <1>19
        DEF Next, Poll, Start, Listener, Shutdown

-----------------------------------------------------------------------------
(* At most one timer is armed, and each has a message.                      *)
LEMMA Count ==
    ASSUME NEW tm, NEW u \in TimerIds, \A t \in TimerIds : t # u => tm[t].state # "armed"
    PROVE  Cardinality({t \in TimerIds : tm[t].state = "armed"}) = (IF tm[u].state = "armed" THEN 1 ELSE 0)
<1>1. CASE tm[u].state = "armed"
  <2>1. {t \in TimerIds : tm[t].state = "armed"} = {u}
    BY <1>1
  <2> QED BY <1>1, <2>1, FS_Singleton
<1>2. CASE tm[u].state # "armed"
  <2>1. {t \in TimerIds : tm[t].state = "armed"} = {}
    BY <1>2
  <2> QED BY <1>2, <2>1, FS_EmptySet
<1> QED BY <1>1, <1>2

LEMMA CountNone ==
    ASSUME NEW tm, \A t \in TimerIds : tm[t].state # "armed"
    PROVE  Cardinality({t \in TimerIds : tm[t].state = "armed"}) = 0
<1>1. {t \in TimerIds : tm[t].state = "armed"} = {}
  OBVIOUS
<1> QED BY <1>1, FS_EmptySet

LEMMA LiveIs ==
    ASSUME IInv
    PROVE  /\ \A u \in TimerIds : InUse(u) => Cardinality(Armed) = HeldBy(u)
           /\ (\A t \in TimerIds : ~ InUse(t)) => Cardinality(Armed) = 0
           /\ Cardinality(Armed) \in Nat /\ live \in Nat /\ Len(queue) \in Nat
<1>1. \A t \in TimerIds : ~ InUse(t) => timers[t].state # "armed"
  BY DEF IInv, TimersInv
<1>2. ASSUME NEW u \in TimerIds, InUse(u) PROVE Cardinality(Armed) = HeldBy(u)
  <2>1. \A t \in TimerIds : t # u => timers[t].state # "armed"
    BY <1>1, <1>2 DEF InUse
  <2> QED BY <2>1, Count DEF Armed, HeldBy
<1>3. ASSUME \A t \in TimerIds : ~ InUse(t) PROVE Cardinality(Armed) = 0
  BY <1>1, <1>3, CountNone DEF Armed
<1>4. Cardinality(Armed) \in Nat
  BY <1>2, <1>3 DEF HeldBy
<1>5. Len(queue) \in Nat
  BY DEF IInv, Types
<1> QED BY <1>2, <1>3, <1>4, <1>5 DEF IInv, LiveInv

LEMMA LiveSame ==
    ASSUME IInv, UNCHANGED <<timers, queue, live>>
    PROVE  LiveInv'
BY DEF IInv, LiveInv, Armed

(* The queue at its two ends. *)
LEMMA QueueIs ==
    ASSUME IInv
    PROVE  /\ queue # << >> => /\ Len(queue) >= 1 /\ Len(Tail(queue)) = Len(queue) - 1
                               /\ Tail(queue) \in Seq(Mails) /\ Head(queue) = queue[1] /\ Head(queue) \in Mails
                               /\ \A i \in 1 .. Len(Tail(queue)) : Tail(queue)[i] = queue[i + 1]
           /\ \A m \in Mails : /\ Len(Append(queue, m)) = Len(queue) + 1 /\ Append(queue, m) \in Seq(Mails)
                               /\ Append(queue, m)[Len(queue) + 1] = m
                               /\ \A i \in 1 .. Len(queue) : Append(queue, m)[i] = queue[i]
<1>1. queue \in Seq(Mails)
  BY DEF IInv, Types
<1> QED BY <1>1

LEMMA AppendLen == ASSUME IInv, NEW m PROVE Len(Append(queue, m)) = Len(queue) + 1
BY DEF IInv, Types

(* No message is forgotten or freed twice. *)
LEMMA NextLive ==
    ASSUME IInv, Next
    PROVE  LiveInv'
<1>0. /\ timers \in [TimerIds -> Timers]
      /\ live = Len(queue) + Cardinality(Armed)
      /\ live \in Nat /\ Len(queue) \in Nat /\ Cardinality(Armed) \in Nat
  BY LiveIs DEF IInv, Types, LiveInv
<1>1. ASSUME NEW messages \in 0 .. 1, Busy, StopOngoingTest(messages), phase # "starting",
             queue # << >> \/ messages = 0, queue' = (IF messages = 1 THEN Tail(queue) ELSE queue)
      PROVE  LiveInv'
  <2>1. /\ InUse(runner.timer) /\ runner.timer \in TimerIds
        /\ live' = live - messages - HeldBy(runner.timer) /\ HeldBy(runner.timer) \in 0 .. 1
    BY <1>1, StopIs DEF InUse, HeldBy
  <2>2. Cardinality(Armed) = HeldBy(runner.timer)
    BY <2>1, LiveIs
  <2>3. \A t \in TimerIds : timers'[t].state # "armed"
    <3>1. \A t \in TimerIds : t # runner.timer => ~ InUse(t)
      BY <1>1 DEF InUse
    <3>2. \A t \in TimerIds : t # runner.timer => timers[t].state # "armed"
      BY <3>1 DEF IInv, TimersInv
    <3>3. CASE Retired
      BY <1>1, <3>3, StopIs DEF IInv, TimersInv
    <3>4. CASE ~ Retired
      BY <1>0, <1>1, <3>2, <3>4, StopIs
    <3> QED BY <3>3, <3>4
  <2>4. Cardinality(Armed') = 0
    BY <2>3, CountNone DEF Armed
  <2>5. Len(queue') = Len(queue) - messages
    BY <1>0, <1>1, QueueIs
  <2> QED BY <1>0, <1>1, <2>1, <2>2, <2>4, <2>5 DEF LiveInv
<1>2. CASE Accept
  BY <1>2, LiveSame DEF Accept
<1>3. CASE PollHup
  BY <1>1, <1>3, Polling, LiveSame DEF PollHup, Busy
<1>4. CASE HandleCommandStop
  BY <1>1, <1>4, Polling DEF HandleCommandStop, PollIn, Busy
<1>5. CASE RunRefused
  BY <1>5, LiveSame DEF RunRefused, PollIn
<1>6. ASSUME NEW u \in TimerIds, NEW args \in Requests, RunBegins(u, args) PROVE LiveInv'
  <2>1. /\ phase = "running" /\ ~ Busy /\ queue' = queue /\ live' = live + 1
        /\ timers' = [timers EXCEPT ![u] = [state |-> "armed", id |-> runId + 1]]
    BY <1>6, Polling DEF RunBegins, PollIn, Busy
  <2>2. \A t \in TimerIds : timers[t].state = "none"
    BY <2>1 DEF IInv, TimersInv, InUse, Retired
  <2>3. Cardinality(Armed) = 0
    BY <2>2, CountNone DEF Armed
  <2>4. timers'[u].state = "armed" /\ \A t \in TimerIds : t # u => timers'[t].state # "armed"
    BY <1>0, <2>1, <2>2
  <2>5. Cardinality(Armed') = 1
    BY <2>4, Count DEF Armed
  <2> QED BY <1>0, <2>1, <2>3, <2>5 DEF LiveInv
<1>7. CASE StartTest \/ StartTestReturns
  BY <1>7, LiveSame DEF StartTest, StartTestReturns
<1>8. CASE StartTestFails
  <2>1. run.timer \in TimerIds /\ InUse(run.timer) /\ ~ Retired /\ phase = "starting"
    BY <1>8, StartingHas DEF StartTestFails, InUse
  <2>2. timers' = [timers EXCEPT ![run.timer] = [state |-> "none", id |-> 0]]
    BY <1>0, <1>8, <2>1, StartingHas DEF StartTestFails, Freed
  <2>3. \A t \in TimerIds : t # run.timer => timers[t].state # "armed"
    BY <2>1 DEF IInv, TimersInv, InUse
  <2>4. \A t \in TimerIds : timers'[t].state # "armed"
    BY <1>0, <2>2, <2>3
  <2>5. Cardinality(Armed') = 0
    BY <2>4, CountNone DEF Armed
  <2>6. Cardinality(Armed) = HeldBy(run.timer)
    BY <2>1, LiveIs
  <2> QED BY <1>0, <1>8, <2>5, <2>6 DEF StartTestFails, LiveInv
<1>9. CASE Obsolete \/ ExtensionIgnored
  <2>1. queue # << >> /\ queue' = Tail(queue) /\ live' = live - 1 /\ timers' = timers
    BY <1>9 DEF Obsolete, ExtensionIgnored, Receives
  <2>2. Len(queue') = Len(queue) - 1
    BY <2>1, QueueIs
  <2> QED BY <1>0, <2>1, <2>2 DEF LiveInv, Armed
<1>10. CASE HandleTestResult
  BY <1>1, <1>10 DEF HandleTestResult, Receives, Dispatching, Current, Busy
<1>11. ASSUME NEW succeeds \in BOOLEAN, HandleTimeoutExtension(succeeds) PROVE LiveInv'
  <2>0. Busy /\ phase # "starting" /\ queue # << >> /\ queue' = Tail(queue)
    BY <1>11 DEF HandleTimeoutExtension, Receives, Dispatching, Current, Busy
  <2>1. CASE StopOngoingTest(1)
    BY <1>1, <2>0, <2>1
  <2>2. CASE timers' = Rearmed(runner.timer) /\ live' = live - HeldBy(runner.timer)
    <3>1. runner.timer \in TimerIds /\ InUse(runner.timer)
      BY <2>0, BusyHas DEF InUse
    <3>2. Cardinality(Armed) = HeldBy(runner.timer)
      BY <3>1, LiveIs
    <3>3. \A t \in TimerIds : t # runner.timer => timers[t].state # "armed"
      BY <2>0 DEF IInv, TimersInv, InUse
    <3>4. timers'[runner.timer].state = "armed" /\ \A t \in TimerIds : t # runner.timer => timers'[t].state # "armed"
      BY <1>0, <2>2, <3>1, <3>3 DEF Rearmed
    <3>5. Cardinality(Armed') = 1
      BY <3>1, <3>4, Count DEF Armed
    <3>6. Len(queue') = Len(queue) - 1
      BY <2>0, QueueIs
    <3> QED BY <1>0, <2>2, <3>2, <3>5, <3>6 DEF LiveInv
  <2> QED BY <1>11, <2>1, <2>2 DEF HandleTimeoutExtension
<1>12. CASE LeaveLoop \/ Deregister
  BY <1>12, LiveSame DEF LeaveLoop, Deregister
<1>13. CASE RetireAllTimers
  <2>1. live' = live - Cardinality(Armed) /\ queue' = queue
    BY <1>13 DEF RetireAllTimers, Armed
  <2>2. \A t \in TimerIds : timers'[t].state # "armed"
    BY <1>13 DEF RetireAllTimers
  <2>3. Cardinality(Armed') = 0
    BY <2>2, CountNone DEF Armed
  <2> QED BY <1>0, <2>1, <2>3 DEF LiveInv
<1>14. CASE HarnessGlobalExit
  BY <1>1, <1>14, LiveSame DEF HarnessGlobalExit, Busy
<1>15. CASE ClientConnects \/ ClientLeaves
  BY <1>15, LiveSame DEF ClientConnects, ClientLeaves, HarnessUnchanged
<1>16. ASSUME NEW r \in Runs, NEW kind, ReadsRunId(r, kind) \/ CannotSend(r) PROVE LiveInv'
  BY <1>16, LiveSame DEF ReadsRunId, CannotSend, CodeUnchanged
<1>17. ASSUME NEW r \in Runs, Sends(r) PROVE LiveInv'
  <2>1. live' = live + 1 /\ timers' = timers /\ Len(queue') = Len(queue) + 1
    BY <1>17, AppendLen DEF Sends, CodeUnchanged
  <2> QED BY <1>0, <2>1 DEF LiveInv, Armed
<1>18. ASSUME NEW t \in TimerIds, Timeout(t) PROVE LiveInv'
  <2>1. /\ timers[t].state = "armed" /\ timers' = [timers EXCEPT ![t].state = "idle"]
        /\ live' = live /\ Len(queue') = Len(queue) + 1
    BY <1>18, AppendLen DEF Timeout
  <2>2. InUse(t)
    BY <2>1 DEF IInv, TimersInv
  <2>3. Cardinality(Armed) = 1
    BY <2>1, <2>2, LiveIs DEF HeldBy
  <2>4. \A u \in TimerIds : timers'[u].state # "armed"
    <3>1. \A u \in TimerIds : u # t => ~ InUse(u)
      BY <2>2 DEF InUse
    <3>2. \A u \in TimerIds : u # t => timers[u].state # "armed"
      BY <3>1 DEF IInv, TimersInv
    <3> QED BY <1>0, <2>1, <3>2 DEF Timers
  <2>5. Cardinality(Armed') = 0
    BY <2>4, CountNone DEF Armed
  <2> QED BY <1>0, <2>1, <2>3, <2>5 DEF LiveInv
<1> QED BY <1>2, <1>3, <1>4, <1>5, <1>6, <1>7, <1>8, <1>9, <1>10, <1>11, <1>12, <1>13, <1>14, <1>15, <1>16, <1>17, <1>18
        DEF Next, Poll, Start, Listener, Shutdown, Environment

-----------------------------------------------------------------------------
(* The code of a run whose report is overtaken reports late.                *)
LEMMA QueueTail ==
    ASSUME IInv, queue # << >>
    PROVE  \A i \in 1 .. Len(Tail(queue)) : Tail(queue)[i].late \/ Tail(queue)[i].of = Tail(queue)[i].id
<1>1. \A i \in 1 .. Len(Tail(queue)) : i + 1 \in 1 .. Len(queue) /\ Tail(queue)[i] = queue[i + 1]
  BY QueueIs, LiveIs
<1> QED BY <1>1 DEF IInv, CodeInv

LEMMA CodeSame ==
    ASSUME IInv, UNCHANGED <<code, runId>>, Doing => Doing', queue' = queue \/ (queue # << >> /\ queue' = Tail(queue))
    PROVE  CodeInv'
BY QueueTail DEF IInv, CodeInv

LEMMA CodeStopped ==
    ASSUME IInv, code' = Terminated(runId),
           queue' = queue \/ (queue # << >> /\ queue' = Tail(queue))
    PROVE  CodeInv'
<1>1. code \in [Runs -> Codes]
  BY DEF IInv, Types
<1>2. ASSUME NEW r \in Runs
      PROVE  /\ code'[r].report = code[r].report
             /\ code'[r].state # "active"
  BY <1>1, <1>2 DEF Terminated, Codes, IInv, CodeInv
<1>3. \A i \in 1 .. Len(queue') : queue'[i].late \/ queue'[i].of = queue'[i].id
  BY QueueTail DEF IInv, CodeInv
<1> QED BY <1>2, <1>3 DEF IInv, CodeInv

LEMMA NextCode ==
    ASSUME IInv, Next
    PROVE  CodeInv'
<1>0. code \in [Runs -> Codes] /\ runId \in 0 .. MaxRuns
  BY DEF IInv, Types
<1>1. CASE Accept \/ Deregister \/ ClientConnects \/ ClientLeaves \/ LeaveLoop \/ RetireAllTimers
  <2>1. UNCHANGED <<code, runId, queue, runner>> /\ (phase = "starting" => phase' = "starting")
    BY <1>1 DEF Accept, Deregister, ClientConnects, ClientLeaves, HarnessUnchanged, LeaveLoop, RetireAllTimers
  <2> QED BY <2>1, CodeSame DEF Doing, Busy
<1>2. CASE PollHup
  <2>1. CASE Busy
    BY <1>2, <2>1, CodeStopped DEF PollHup, StopOngoingTest, Busy
  <2>2. CASE ~ Busy
    BY <1>2, <2>2, CodeSame DEF PollHup, Busy, Doing
  <2> QED BY <2>1, <2>2
<1>3. CASE HandleCommandStop
  BY <1>3, CodeStopped DEF HandleCommandStop, PollIn, StopOngoingTest
<1>4. CASE RunRefused \/ \E u \in TimerIds, args \in Requests : RunBegins(u, args)
  <2>1. UNCHANGED <<code, queue>> /\ ~ Doing
    BY <1>4, Polling DEF RunRefused, RunBegins, PollIn, Doing, Busy
  <2> QED BY <2>1 DEF IInv, CodeInv
<1>5. CASE StartTest
  <2>1. /\ UNCHANGED <<phase, runner, runId, queue>> /\ phase = "starting"
        /\ code' = [code EXCEPT ![runId].state = "active"]
    BY <1>5 DEF StartTest
  <2>2. \A r \in Runs : code'[r].report = code[r].report /\ (code'[r].state = "active" => r = runId \/ code[r].state = "active")
    BY <1>0, <2>1 DEF Codes
  <2> QED BY <2>1, <2>2 DEF IInv, CodeInv, Doing
<1>6. CASE StartTestReturns
  BY <1>6, CodeSame DEF StartTestReturns, Doing, Busy
<1>7. CASE StartTestFails
  BY <1>7, CodeStopped DEF StartTestFails
<1>8. CASE Obsolete \/ ExtensionIgnored
  BY <1>8, CodeSame DEF Obsolete, ExtensionIgnored, Receives, Doing, Busy
<1>9. CASE HandleTestResult
  BY <1>9, CodeStopped DEF HandleTestResult, Receives, StopOngoingTest
<1>10. ASSUME NEW succeeds \in BOOLEAN, HandleTimeoutExtension(succeeds) PROVE CodeInv'
  <2>1. CASE StopOngoingTest(1)
    BY <1>10, <2>1, CodeStopped DEF HandleTimeoutExtension, Receives, StopOngoingTest
  <2>2. CASE UNCHANGED <<runner, code>>
    BY <1>10, <2>2, CodeSame DEF HandleTimeoutExtension, Receives, Doing, Busy
  <2> QED BY <1>10, <2>1, <2>2 DEF HandleTimeoutExtension
<1>11. CASE HarnessGlobalExit
  <2>1. CASE Busy
    BY <1>11, <2>1, CodeStopped DEF HarnessGlobalExit, StopOngoingTest, Busy
  <2>2. CASE ~ Busy
    BY <1>11, <2>2, CodeSame DEF HarnessGlobalExit, Busy, Doing
  <2> QED BY <2>1, <2>2
<1>12. ASSUME NEW q \in Runs, NEW kind \in {"result", "extension"}, ReadsRunId(q, kind) PROVE CodeInv'
  <2>1. /\ UNCHANGED <<phase, runner, runId, queue>> /\ code[q].state \in {"active", "lingering"}
        /\ code' = [code EXCEPT ![q].report =
                       [kind |-> kind, id |-> runId, late |-> code[q].state = "lingering"]]
    BY <1>12 DEF ReadsRunId, CodeUnchanged
  <2>2. /\ \A r \in Runs : code'[r].state = code[r].state
        /\ \A r \in Runs : r # q => code'[r].report = code[r].report
        /\ code'[q].report = [kind |-> kind, id |-> runId, late |-> code[q].state = "lingering"]
    BY <1>0, <2>1 DEF Codes
  <2>3. code[q].state = "active" => q = runId
    BY DEF IInv, CodeInv
  <2>4. code'[q].report.kind = kind /\ code'[q].report.id = runId /\ (code[q].state = "lingering" => code'[q].report.late)
    <3>1. PICK late \in BOOLEAN : late <=> code[q].state = "lingering"
      OBVIOUS
    <3>2. code'[q].report = [kind |-> kind, id |-> runId, late |-> late]
      BY <2>2, <3>1, Zenon
    <3> QED BY <3>1, <3>2
  <2>5. code'[q].report.kind # "none" /\ (code'[q].report.late \/ code'[q].report.id = q)
    BY <2>1, <2>3, <2>4
  <2>6. ASSUME NEW r \in Runs
        PROVE  /\ code'[r].state = "active" => r = runId' /\ Doing'
               /\ \/ code'[r].report = NoReport
                  \/ /\ code'[r].report.kind # "none"
                     /\ code'[r].report.late \/ code'[r].report.id = r
    <3>1. code'[r].state = "active" => r = runId' /\ Doing'
      BY <2>1, <2>2 DEF IInv, CodeInv, Doing, Busy
    <3>2. CASE r = q
      BY <2>5, <3>1, <3>2
    <3>3. CASE r # q
      BY <2>2, <3>1, <3>3 DEF IInv, CodeInv
    <3> QED BY <3>2, <3>3
  <2>7. \A i \in 1 .. Len(queue') : queue'[i].late \/ queue'[i].of = queue'[i].id
    BY <2>1 DEF IInv, CodeInv
  <2> QED BY <2>6, <2>7 DEF CodeInv
<1>13. ASSUME NEW q \in Runs, Sends(q) \/ CannotSend(q) PROVE CodeInv'
  <2>1. /\ UNCHANGED <<phase, runner, runId>> /\ code[q].report # NoReport
        /\ code' = [code EXCEPT ![q].report = NoReport, ![q].sent = @ + 1]
    BY <1>13 DEF Sends, CannotSend, CodeUnchanged
  <2>2. /\ \A r \in Runs : code'[r].state = code[r].state
        /\ \A r \in Runs : r # q => code'[r].report = code[r].report
        /\ code'[q].report = NoReport
    BY <1>0, <2>1 DEF Codes
  <2>3. \A i \in 1 .. Len(queue') : queue'[i].late \/ queue'[i].of = queue'[i].id
    <3>1. CASE queue' = queue
      BY <3>1 DEF IInv, CodeInv
    <3>2. PICK rep \in Reports : rep = code[q].report
      BY <1>0 DEF Codes
    <3>3. PICK m : m = [kind |-> rep.kind, id |-> rep.id, of |-> q, late |-> rep.late]
      OBVIOUS
    <3>4. CASE queue' = Append(queue, m)
      <4>1. rep.kind # "none" /\ (rep.late \/ rep.id = q) /\ q \in 0 .. MaxRuns
        BY <2>1, <3>2, Bounds DEF IInv, CodeInv, Runs
      <4>2. m \in Mails
        BY <3>2, <3>3, <4>1 DEF Mails, Reports
      <4>3. m.late \/ m.of = m.id
        BY <3>3, <4>1
      <4> QED BY <3>4, <4>2, <4>3, QueueIs, LiveIs DEF IInv, CodeInv
    <3> QED BY <1>13, <3>1, <3>2, <3>3, <3>4 DEF Sends, CannotSend
  <2> QED BY <2>1, <2>2, <2>3 DEF IInv, CodeInv, Doing, Busy
<1>14. ASSUME NEW t \in TimerIds, Timeout(t) PROVE CodeInv'
  <2>1. PICK id \in 0 .. MaxRuns : id = timers[t].id
    BY DEF IInv, Types, Timers
  <2>2. PICK m : m = [kind |-> "timeout", id |-> id, of |-> id, late |-> FALSE]
    OBVIOUS
  <2>3. m \in Mails /\ m.of = m.id
    BY <2>2 DEF Mails
  <2>4. queue' = Append(queue, m) /\ UNCHANGED <<phase, runner, runId, code>>
    BY <1>14, <2>1, <2>2 DEF Timeout
  <2>5. \A i \in 1 .. Len(queue') : queue'[i].late \/ queue'[i].of = queue'[i].id
    BY <2>3, <2>4, QueueIs, LiveIs DEF IInv, CodeInv
  <2> QED BY <2>4, <2>5 DEF IInv, CodeInv, Doing, Busy
<1> QED BY <1>1, <1>2, <1>3, <1>4, <1>5, <1>6, <1>7, <1>8, <1>9, <1>10, <1>11, <1>12, <1>13, <1>14
        DEF Next, Poll, Start, Listener, Shutdown, Environment

-----------------------------------------------------------------------------
(* A test is started with all its parameters, each of them once.            *)
LEMMA ParseIs ==
    ASSUME NEW args \in Requests, Parse(args)
    PROVE  Len(args) = Cardinality(Keys) /\ {args[i].key : i \in 1 .. Len(args)} = Keys
<1>1. IsFiniteSet(Keys) /\ Cardinality(Keys) \in Nat
  BY TestHarnessAssumption, FS_CardinalityType
<1>2. PICK n \in Nat : args \in [1 .. n -> Tokens]
  BY <1>1 DEF Requests
<1>3. Len(args) = n
  BY <1>2
<1> DEFINE key(i) == args[i].key
<1>4. /\ \A i \in 1 .. n : key(i) \in Keys \ {key(j) : j \in 1 .. (i - 1)}
      /\ Keys \ {key(j) : j \in 1 .. n} = {}
  <2> DEFINE layout == [i \in 0 .. Len(args) |-> Keys \ {args[j].key : j \in 1 .. i}]
  <2>1. \A i \in 1 .. Len(args) : args[i].key \in layout[i - 1]
    BY DEF Parse
  <2>2. layout[Len(args)] = {}
    BY DEF Parse
  <2>3. n \in 0 .. n /\ \A i \in 1 .. n : i - 1 \in 0 .. n
    OBVIOUS
  <2>4. \A i \in 0 .. n : layout[i] = Keys \ {args[j].key : j \in 1 .. i}
    BY <1>3
  <2> QED BY <1>3, <2>1, <2>2, <2>3, <2>4
<1> HIDE DEF key
<1>5. \A i, j \in 1 .. n : key(i) = key(j) => i = j
  <2> SUFFICES ASSUME NEW i \in 1 .. n, NEW j \in 1 .. n, i < j PROVE key(i) # key(j)
    OBVIOUS
  <2>1. i \in 1 .. (j - 1)
    OBVIOUS
  <2> QED BY <1>4, <2>1
<1>6. PICK f : f = [i \in 1 .. n |-> key(i)]
  OBVIOUS
<1>7. f \in Bijection(1 .. n, Keys)
  <2>1. f \in [1 .. n -> Keys]
    BY <1>4, <1>6
  <2>2. f \in Injection(1 .. n, Keys)
    BY <1>5, <1>6, <2>1 DEF Injection, IsInjective
  <2>3. f \in Surjection(1 .. n, Keys)
    BY <1>4, <1>6, <2>1 DEF Surjection
  <2> QED BY <2>2, <2>3 DEF Bijection
<1>8. IsFiniteSet(1 .. n) /\ Cardinality(1 .. n) = n
  BY FS_Interval
<1>9. Cardinality(Keys) = n
  BY <1>1, <1>7, <1>8, FS_Bijection DEF ExistsBijection
<1>10. {key(i) : i \in 1 .. n} = Keys
  BY <1>4
<1> QED BY <1>3, <1>9, <1>10 DEF key

LEMMA NextParams ==
    ASSUME IInv, Next
    PROVE  ParamsComplete'
<1>0. ParamsComplete
  BY DEF IInv
<1>1. ASSUME NEW u \in TimerIds, NEW args \in Requests, RunBegins(u, args) PROVE ParamsComplete'
  <2>1. run' = [timer |-> u, args |-> args] /\ Parse(args)
    BY <1>1 DEF RunBegins
  <2>2. run'.args = args
    BY <2>1
  <2> QED BY <2>1, <2>2, ParseIs DEF ParamsComplete
<1>2. ASSUME \/ Accept \/ PollHup \/ HandleCommandStop \/ RunRefused \/ Start \/ Listener \/ Shutdown \/ Environment
             \/ \E t \in TimerIds : Timeout(t)
      PROVE  phase' # "starting" \/ UNCHANGED <<phase, run>>
  BY <1>2 DEF Accept, PollHup, PollIn, HandleCommandStop, RunRefused, Start, StartTest, StartTestReturns, StartTestFails,
         Listener, Receives, Obsolete, HandleTestResult, ExtensionIgnored, HandleTimeoutExtension,
         Shutdown, LeaveLoop, RetireAllTimers, HarnessGlobalExit, Deregister,
         Environment, ClientConnects, ClientLeaves, HarnessUnchanged, ReadsRunId, Sends, CannotSend, CodeUnchanged, Timeout
<1>3. phase' # "starting" \/ UNCHANGED <<phase, run>> => ParamsComplete'
  BY <1>0 DEF ParamsComplete
<1> QED BY <1>1, <1>2, <1>3 DEF Next, Poll

-----------------------------------------------------------------------------
(* How a run ended, and what its client was told.                           *)
EntryOK(r) ==
    /\ ledger[r].asker # 0 <=> r <= runId
    /\ r > runId => ledger[r].verdict.how = "none"
    /\ ledger[r].verdict.how \in Silent => ledger[r].answers = << >>
    /\ ledger[r].verdict.how \notin Silent => ledger[r].answers = <<ledger[r].asker>>
    /\ ledger[r].verdict.how \in {"result", "timeout"} => ledger[r].verdict.of = r \/ ledger[r].verdict.late
DoingOK ==
    /\ runId \in Runs
    /\ ledger[runId].verdict.how = "none"
    /\ ledger[runId].asker = conn.active

LEMMA LedgerIs == LedgerInv <=> (\A r \in Runs : EntryOK(r)) /\ (Doing => DoingOK)
BY DEF LedgerInv, VerdictsBelong, EntryOK, DoingOK

LEMMA LedgerSame ==
    ASSUME IInv, UNCHANGED <<ledger, runId>>, Doing' => Doing /\ conn' = conn
    PROVE  LedgerInv'
BY DEF IInv, LedgerInv, VerdictsBelong

LEMMA LedgerChanged ==
    ASSUME IInv, NEW q \in Runs, \A r \in Runs : r # q => ledger'[r] = ledger[r],
           runId' = runId \/ (runId' = runId + 1 /\ q = runId + 1),
           EntryOK(q)', Doing' => DoingOK'
    PROVE  LedgerInv'
<1>1. runId \in Nat /\ Runs \subseteq Nat
  BY Bounds DEF IInv, Types, Runs
<1>2. \A r \in Runs : EntryOK(r)
  BY LedgerIs DEF IInv
<1>3. ASSUME NEW r \in Runs, r # q PROVE EntryOK(r)'
  <2>1. r <= runId' <=> r <= runId
    BY <1>1, <1>3
  <2>2. r > runId' => r > runId
    BY <1>1, <1>3
  <2> QED BY <1>2, <1>3, <2>1, <2>2 DEF EntryOK
<1>4. \A r \in Runs : EntryOK(r)'
  BY <1>3
<1> QED BY <1>4 DEF LedgerInv, VerdictsBelong, EntryOK, DoingOK

(* While a run is in progress its client is connected: it is written to     *)
(* unless the descriptors have been closed.                                 *)
LEMMA DoingHas ==
    ASSUME IInv, Doing
    PROVE  /\ runId \in Runs /\ DoingOK /\ ledger[runId].answers = << >>
           /\ conn.active # 0 /\ conn.pollable = "connection"
           /\ ~ Gone => WriteBack(ledger[runId].answers) = <<ledger[runId].asker>>
<1>1. DoingOK /\ EntryOK(runId)
  BY LedgerIs DEF IInv, DoingOK
<1>2. runId \in Runs /\ runId <= runId
  BY <1>1, Bounds DEF DoingOK, Runs
<1>3. ledger[runId].asker # 0 /\ ledger[runId].answers = << >>
  BY <1>1, <1>2 DEF EntryOK, DoingOK, Silent
<1>4. conn.active # 0 /\ conn.pollable = "connection"
  BY <1>1, <1>3 DEF DoingOK, IInv, SocketInv, Types
<1>5. ~ Gone => "connection" \in open
  BY <1>4 DEF IInv, SocketInv
<1>6. ~ Gone => WriteBack(ledger[runId].answers) = <<ledger[runId].asker>>
  BY <1>1, <1>3, <1>4, <1>5 DEF WriteBack, DoingOK
<1> QED BY <1>1, <1>2, <1>3, <1>4, <1>6

(* A run ends with an answer, or silently. *)
LEMMA EndsIs ==
    ASSUME IInv, Doing, ~ Gone, NEW how \in {"unstarted", "unextended", "result", "timeout"},
           NEW of, NEW late \in BOOLEAN, of = runId \/ late,
           ledger' = Ends(runId, how, of, late), runId' = runId, ~ Doing'
    PROVE  LedgerInv'
<1>1. runId \in Runs /\ ledger \in [Runs -> Entries] /\ DoingOK /\ runId <= runId /\ ledger[runId].asker # 0
  BY DoingHas, Bounds DEF IInv, Types, Runs, DoingOK
<1>2. PICK v : v = [how |-> how, of |-> of, late |-> late]
  OBVIOUS
<1>3. v.how = how /\ v.of = of /\ v.late = late
  BY <1>2
<1>4. /\ ledger'[runId].asker = ledger[runId].asker
      /\ ledger'[runId].verdict = v
      /\ ledger'[runId].answers = WriteBack(ledger[runId].answers)
      /\ \A r \in Runs : r # runId => ledger'[r] = ledger[r]
  BY <1>1, <1>2 DEF Ends, Entries
<1>5. ledger'[runId].answers = <<ledger[runId].asker>>
  BY <1>4, DoingHas
<1>6. PICK q \in Runs : q = runId
  BY <1>1
<1>7. EntryOK(q)'
  <2>1. v.of = runId \/ v.late
    BY <1>3, Zenon
  <2>2. ledger'[runId].verdict.of = runId \/ ledger'[runId].verdict.late
    BY <1>4, <2>1, Zenon
  <2>3. ledger'[runId].verdict.how \notin Silent
    BY <1>3, <1>4 DEF Silent
  <2> QED BY <1>1, <1>4, <1>5, <1>6, <2>2, <2>3 DEF EntryOK
<1> QED BY <1>1, <1>4, <1>6, <1>7, LedgerChanged

LEMMA EndsSilentlyIs ==
    ASSUME IInv, Doing, NEW how \in {"stopped", "hangup", "shutdown"},
           ledger' = EndsSilently(runId, how), runId' = runId, ~ Doing'
    PROVE  LedgerInv'
<1>1. runId \in Runs /\ ledger \in [Runs -> Entries] /\ DoingOK /\ runId <= runId /\ ledger[runId].asker # 0
  BY DoingHas, Bounds DEF IInv, Types, Runs, DoingOK
<1>2. /\ ledger'[runId].asker = ledger[runId].asker
      /\ ledger'[runId].verdict.how = how
      /\ ledger'[runId].answers = << >>
      /\ \A r \in Runs : r # runId => ledger'[r] = ledger[r]
  BY <1>1, DoingHas DEF EndsSilently, Entries
<1>3. PICK q \in Runs : q = runId
  BY <1>1
<1>4. EntryOK(q)'
  <2>1. /\ ledger'[q].asker = ledger[q].asker /\ ledger[q].asker # 0
        /\ ledger'[q].verdict.how \in Silent /\ ledger'[q].verdict.how \notin {"result", "timeout"}
        /\ ledger'[q].answers = << >>
    BY <1>1, <1>2, <1>3 DEF Silent
  <2>2. q <= runId' /\ ~ (q > runId')
    BY <1>3, Bounds DEF IInv, Types
  <2> QED BY <2>1, <2>2 DEF EntryOK
<1> QED BY <1>1, <1>2, <1>3, <1>4, LedgerChanged

LEMMA NextLedger ==
    ASSUME IInv, Next
    PROVE  LedgerInv'
<1>0. /\ runId \in 0 .. MaxRuns /\ ledger \in [Runs -> Entries] /\ queue \in Seq(Mails)
      /\ conn.active # 0 <=> conn.pollable = "connection"
  BY DEF IInv, Types, SocketInv
<1>1. ASSUME UNCHANGED <<ledger, runId, phase, runner, conn>> PROVE LedgerInv'
  BY <1>1, LedgerSame DEF Doing, Busy
<1>2. ASSUME NEW messages, NEW how \in {"stopped", "hangup", "shutdown"}, Busy, phase' # "starting",
             StopOngoingTest(messages), ledger' = EndsSilently(runId, how), runId' = runId
      PROVE  LedgerInv'
  BY <1>2, StopIs, EndsSilentlyIs DEF Doing, Busy, Idle
<1>3. CASE Accept
  <2>1. ~ Doing
    BY <1>3, DoingHas DEF Accept
  <2> QED BY <1>3, <2>1, LedgerSame DEF Accept, Doing, Busy
<1>4. CASE PollHup
  <2>1. phase = "running" /\ phase' = phase /\ runId' = runId
    BY <1>4, Polling DEF PollHup
  <2>2. CASE Busy
    BY <1>2, <1>4, <2>1, <2>2 DEF PollHup, Busy
  <2>3. CASE ~ Busy
    BY <1>4, <2>1, <2>3, LedgerSame DEF PollHup, Busy, Doing
  <2> QED BY <2>2, <2>3
<1>5. CASE HandleCommandStop
  BY <1>2, <1>5, Polling DEF HandleCommandStop, PollIn, Busy
<1>6. CASE RunRefused
  <2>1. runId + 1 \in Runs /\ runId + 1 > runId /\ runId' = runId + 1 /\ runId + 1 <= runId'
    BY <1>0, <1>6, Bounds DEF RunRefused, Runs
  <2>2. ledger[runId + 1].answers = << >>
    BY <2>1, LedgerIs DEF IInv, EntryOK, Silent
  <2>3. conn.active # 0 /\ ~ Doing /\ "connection" \in open
    BY <1>0, <1>6, Polling DEF RunRefused, PollIn, Doing, Busy, IInv, SocketInv, Gone
  <2>4. WriteBack(ledger[runId + 1].answers) = <<conn.active>>
    BY <2>2, <2>3 DEF WriteBack
  <2>5. /\ ledger'[runId + 1].asker = conn.active /\ ledger'[runId + 1].answers = <<conn.active>>
        /\ ledger'[runId + 1].verdict.how = "refused"
        /\ \A r \in Runs : r # runId + 1 => ledger'[r] = ledger[r]
    BY <1>0, <1>6, <2>1, <2>4 DEF RunRefused
  <2>6. PICK q \in Runs : q = runId + 1
    BY <2>1
  <2>7. EntryOK(q)'
    <3>1. /\ ledger'[q].asker = conn.active /\ ledger'[q].answers = <<conn.active>>
          /\ ledger'[q].verdict.how \notin Silent /\ ledger'[q].verdict.how \notin {"result", "timeout"}
      BY <2>5, <2>6 DEF Silent
    <3>2. q <= runId' /\ ~ (q > runId')
      BY <1>0, <2>1, <2>6
    <3> QED BY <2>3, <3>1, <3>2 DEF EntryOK
  <2>8. ~ Doing'
    BY <1>6, <2>3 DEF RunRefused, Doing, Busy
  <2> QED BY <2>1, <2>5, <2>6, <2>7, <2>8, LedgerChanged
<1>7. ASSUME NEW u \in TimerIds, NEW args \in Requests, RunBegins(u, args) PROVE LedgerInv'
  <2>1. runId + 1 \in Runs /\ runId + 1 > runId /\ runId' = runId + 1 /\ runId + 1 <= runId' /\ conn' = conn
    BY <1>0, <1>7, Bounds DEF RunBegins, PollIn, Runs, sock
  <2>2. ledger[runId + 1].answers = << >> /\ ledger[runId + 1].verdict.how = "none"
    BY <2>1, LedgerIs DEF IInv, EntryOK, Silent
  <2>3. conn.active # 0
    BY <1>0, <1>7 DEF RunBegins, PollIn
  <2>4. /\ ledger'[runId + 1].asker = conn.active /\ ledger'[runId + 1].answers = << >>
        /\ ledger'[runId + 1].verdict.how = "none"
        /\ \A r \in Runs : r # runId + 1 => ledger'[r] = ledger[r]
    BY <1>0, <1>7, <2>1, <2>2 DEF RunBegins, Entries
  <2>5. PICK q \in Runs : q = runId + 1
    BY <2>1
  <2>6. EntryOK(q)'
    <3>1. /\ ledger'[q].asker = conn.active /\ ledger'[q].answers = << >>
          /\ ledger'[q].verdict.how \in Silent /\ ledger'[q].verdict.how \notin {"result", "timeout"}
      BY <2>4, <2>5 DEF Silent
    <3>2. q <= runId' /\ ~ (q > runId')
      BY <1>0, <2>1, <2>5
    <3> QED BY <2>3, <3>1, <3>2 DEF EntryOK
  <2>7. DoingOK'
    BY <2>1, <2>4 DEF DoingOK, Runs
  <2> QED BY <2>1, <2>4, <2>5, <2>6, <2>7, LedgerChanged
<1>8. CASE StartTest
  BY <1>1, <1>8 DEF StartTest, sock
<1>9. CASE StartTestReturns
  BY <1>9, LedgerSame DEF StartTestReturns, Doing, Busy, sock
<1>10. CASE StartTestFails
  <2>1. Doing /\ ~ Gone /\ ~ Doing' /\ runId' = runId /\ ledger' = Ends(runId, "unstarted", runId, FALSE)
    BY <1>10, StartingHas DEF StartTestFails, Doing, Gone, Busy
  <2>2. PICK q : q = runId
    OBVIOUS
  <2>3. ledger' = Ends(runId, "unstarted", q, FALSE)
    BY <2>1, <2>2
  <2> QED BY <2>1, <2>2, <2>3, EndsIs
<1>11. CASE Obsolete \/ ExtensionIgnored
  BY <1>1, <1>11 DEF Obsolete, ExtensionIgnored, Receives, sock
<1>12. CASE HandleTestResult
  <2>1. /\ Busy /\ ~ Gone /\ Doing /\ queue # << >> /\ runId' = runId /\ phase' = phase /\ phase # "starting"
        /\ Head(queue).id = runId /\ Head(queue).kind \in {"result", "timeout"}
    BY <1>12, BusyHas DEF HandleTestResult, Receives, Dispatching, Current, Busy, Doing, Gone
  <2>2. runner' = Idle /\ ~ Doing'
    BY <1>12, <2>1, StopIs DEF HandleTestResult, Doing, Busy, Idle
  <2>3. PICK m \in Mails : m = queue[1]
    BY <2>1, QueueIs
  <2>4. m = Head(queue)
    BY <2>1, <2>3, QueueIs
  <2>5. m.late \/ m.of = m.id
    BY <1>0, <2>1, <2>3 DEF IInv, CodeInv
  <2>6. m.of = runId \/ m.late
    BY <2>1, <2>4, <2>5
  <2>7. ledger' = Ends(runId, m.kind, m.of, m.late)
    BY <1>12, <2>4 DEF HandleTestResult
  <2>8. m.late \in BOOLEAN /\ m.kind \in {"result", "timeout"}
    BY <2>1, <2>4 DEF Mails
  <2> QED BY <2>1, <2>2, <2>6, <2>7, <2>8, EndsIs
<1>13. ASSUME NEW succeeds \in BOOLEAN, HandleTimeoutExtension(succeeds) PROVE LedgerInv'
  <2>1. Busy /\ ~ Gone /\ Doing /\ runId' = runId /\ phase' = phase /\ phase # "starting" /\ conn' = conn
    BY <1>13, BusyHas DEF HandleTimeoutExtension, Receives, Dispatching, Current, Busy, Doing, Gone, sock
  <2>2. CASE UNCHANGED <<runner, ledger>>
    BY <1>1, <2>1, <2>2
  <2>3. CASE ledger' = Ends(runId, "unextended", runId, FALSE) /\ StopOngoingTest(1)
    <3>1. runner' = Idle
      BY <2>1, <2>3, StopIs
    <3>2. ~ Doing'
      BY <2>1, <3>1 DEF Doing, Busy, Idle
    <3>3. PICK q : q = runId
      OBVIOUS
    <3>4. ledger' = Ends(runId, "unextended", q, FALSE)
      BY <2>3, <3>3
    <3> QED BY <2>1, <3>2, <3>3, <3>4, EndsIs
  <2> QED BY <1>13, <2>2, <2>3 DEF HandleTimeoutExtension
<1>14. CASE LeaveLoop \/ RetireAllTimers \/ Deregister
  BY <1>14, LedgerSame DEF LeaveLoop, RetireAllTimers, Deregister, Doing, Busy, sock
<1>15. CASE HarnessGlobalExit
  <2>1. phase' = "deregistering" /\ phase = "exiting" /\ runId' = runId /\ conn' = conn
    BY <1>15 DEF HarnessGlobalExit
  <2>2. CASE Busy
    BY <1>2, <1>15, <2>1, <2>2 DEF HarnessGlobalExit, Busy
  <2>3. CASE ~ Busy
    BY <1>15, <2>1, <2>3, LedgerSame DEF HarnessGlobalExit, Busy, Doing
  <2> QED BY <2>2, <2>3
<1>16. CASE Environment
  BY <1>1, <1>16 DEF Environment, ClientConnects, ClientLeaves, HarnessUnchanged, Sends, CannotSend, ReadsRunId,
         CodeUnchanged, sock
<1>17. ASSUME NEW t \in TimerIds, Timeout(t) PROVE LedgerInv'
  BY <1>1, <1>17 DEF Timeout, sock
<1> QED BY <1>3, <1>4, <1>5, <1>6, <1>7, <1>8, <1>9, <1>10, <1>11, <1>12, <1>13, <1>14, <1>15, <1>16, <1>17
        DEF Next, Poll, Start, Listener, Shutdown

-----------------------------------------------------------------------------
(* The types of the variables.                                              *)
LEMMA NextCoreTypes ==
    ASSUME IInv, Next
    PROVE  phase' \in Phases /\ polling' \in BOOLEAN /\ registered' \in BOOLEAN /\ fatal' \in BOOLEAN
<1>0. phase \in Phases /\ polling \in BOOLEAN /\ registered \in BOOLEAN /\ fatal \in BOOLEAN
  BY DEF IInv, Types
<1>1. CASE Poll
  BY <1>0, <1>1 DEF Poll, Accept, PollHup, PollIn, HandleCommandStop, RunRefused, RunBegins, StopOngoingTest, Assert, Phases
<1>2. CASE Start
  BY <1>0, <1>2 DEF Start, StartTest, StartTestReturns, StartTestFails, Assert, Phases
<1>3. CASE Listener
  BY <1>0, <1>3 DEF Listener, Obsolete, HandleTestResult, ExtensionIgnored, HandleTimeoutExtension, Receives,
         StopOngoingTest, Assert
<1>4. CASE Shutdown
  BY <1>0, <1>4 DEF Shutdown, LeaveLoop, RetireAllTimers, HarnessGlobalExit, Deregister, DisableInputPolling,
         StopOngoingTest, Assert, Phases
<1>5. CASE Environment \/ \E t \in TimerIds : Timeout(t)
  BY <1>0, <1>5 DEF Environment, ClientConnects, ClientLeaves, HarnessUnchanged, Sends, CannotSend, ReadsRunId,
         CodeUnchanged, Timeout
<1> QED BY <1>1, <1>2, <1>3, <1>4, <1>5 DEF Next

LEMMA NextSocketTypes ==
    ASSUME IInv, Next
    PROVE  /\ conn' \in [active : 0 .. MaxClients, pollable : {"listening", "connection"}]
           /\ open' \subseteq {"listening", "connection"}
           /\ client' \in Clients
<1>0. /\ conn \in [active : 0 .. MaxClients, pollable : {"listening", "connection"}]
      /\ open \subseteq {"listening", "connection"}
      /\ client \in Clients
  BY DEF IInv, Types
<1>1. CASE Accept
  <2>1. client.waiting
    BY <1>1, Polling DEF Accept, IInv, SocketInv, Gone
  <2>2. client.count + 1 \in 0 .. MaxClients
    BY <1>0, <2>1, Bounds DEF IInv, SocketInv, Clients
  <2> QED BY <1>0, <1>1, <2>2 DEF Accept, Clients
<1>2. CASE PollHup
  BY <1>0, <1>2, Bounds DEF PollHup, Clients
<1>3. CASE HarnessGlobalExit
  BY <1>0, <1>3 DEF HarnessGlobalExit
<1>4. CASE ClientConnects \/ ClientLeaves
  BY <1>0, <1>4 DEF ClientConnects, ClientLeaves, HarnessUnchanged, Clients
<1>5. ASSUME \/ HandleCommandStop \/ RunRefused \/ Start \/ Listener \/ LeaveLoop \/ RetireAllTimers \/ Deregister
             \/ \E u \in TimerIds, args \in Requests : RunBegins(u, args)
             \/ \E r \in Runs : \/ Sends(r) \/ CannotSend(r)
                                \/ \E kind \in {"result", "extension"} : ReadsRunId(r, kind)
             \/ \E t \in TimerIds : Timeout(t)
      PROVE  UNCHANGED sock
  BY <1>5 DEF PollIn, HandleCommandStop, RunRefused, RunBegins, Start, StartTest, StartTestReturns, StartTestFails,
         Listener, Receives, Obsolete, HandleTestResult, ExtensionIgnored, HandleTimeoutExtension, LeaveLoop,
         RetireAllTimers, Deregister, Sends, CannotSend, ReadsRunId, CodeUnchanged, Timeout
<1>6. UNCHANGED sock => UNCHANGED <<conn, open, client>>
  BY DEF sock
<1> QED BY <1>0, <1>1, <1>2, <1>3, <1>4, <1>5, <1>6 DEF Next, Poll, Shutdown, Environment

LEMMA NextRunnerTypes ==
    ASSUME IInv, Next
    PROVE  /\ runner' \in [state : {"Idle", "Busy"}, timer : TimerIds \cup {NoTimer}, test : BOOLEAN]
           /\ run'.timer \in TimerIds \cup {NoTimer}
           /\ runId' \in 0 .. MaxRuns
<1>0. /\ runner \in [state : {"Idle", "Busy"}, timer : TimerIds \cup {NoTimer}, test : BOOLEAN]
      /\ run.timer \in TimerIds \cup {NoTimer}
      /\ runId \in 0 .. MaxRuns
      /\ runId < MaxRuns => runId + 1 \in 0 .. MaxRuns
      /\ Idle \in [state : {"Idle", "Busy"}, timer : TimerIds \cup {NoTimer}, test : BOOLEAN]
      /\ NoRun.timer = NoTimer
  BY Bounds DEF IInv, Types, Idle, NoRun
<1>1. runner' = runner \/ runner' = Idle \/ runner' = [state |-> "Busy", timer |-> run.timer, test |-> TRUE]
  BY DEF Next, Poll, Accept, PollHup, PollIn, HandleCommandStop, RunRefused, RunBegins, Start, StartTest,
         StartTestReturns, StartTestFails, Listener, Receives, Obsolete, HandleTestResult, ExtensionIgnored,
         HandleTimeoutExtension, Shutdown, LeaveLoop, RetireAllTimers, HarnessGlobalExit, Deregister, Environment,
         ClientConnects, ClientLeaves, HarnessUnchanged, ReadsRunId, Sends, CannotSend, CodeUnchanged, Timeout,
         StopOngoingTest
<1>2. ASSUME NEW u \in TimerIds, NEW args \in Requests, RunBegins(u, args)
      PROVE  run'.timer = u /\ runId' = runId + 1 /\ runId < MaxRuns
  BY <1>2 DEF RunBegins
<1>3. CASE RunRefused
  BY <1>0, <1>1, <1>3 DEF RunRefused
<1>4. ASSUME \/ Accept \/ PollHup \/ HandleCommandStop \/ Start \/ Listener \/ Shutdown \/ Environment
             \/ \E t \in TimerIds : Timeout(t)
      PROVE  runId' = runId /\ (run' = run \/ run' = NoRun)
  BY <1>4 DEF Accept, PollHup, PollIn, HandleCommandStop, Start, StartTest,
         StartTestReturns, StartTestFails, Listener, Receives, Obsolete, HandleTestResult, ExtensionIgnored,
         HandleTimeoutExtension, Shutdown, LeaveLoop, RetireAllTimers, HarnessGlobalExit, Deregister, Environment,
         ClientConnects, ClientLeaves, HarnessUnchanged, ReadsRunId, Sends, CannotSend, CodeUnchanged, Timeout
<1>5. run'.timer \in TimerIds \cup {NoTimer} /\ runId' \in 0 .. MaxRuns
  BY <1>0, <1>2, <1>3, <1>4 DEF Next, Poll, RunRefused
<1>6. runner' \in [state : {"Idle", "Busy"}, timer : TimerIds \cup {NoTimer}, test : BOOLEAN]
  <2>1. [state |-> "Busy", timer |-> run.timer, test |-> TRUE]
            \in [state : {"Idle", "Busy"}, timer : TimerIds \cup {NoTimer}, test : BOOLEAN]
    BY <1>0
  <2> QED BY <1>0, <1>1, <2>1, Zenon
<1> QED BY <1>5, <1>6

LEMMA NextTimersTypes ==
    ASSUME IInv, Next
    PROVE  timers' \in [TimerIds -> Timers]
<1>0. /\ timers \in [TimerIds -> Timers] /\ runId \in 0 .. MaxRuns
      /\ [state |-> "none", id |-> 0] \in Timers /\ [state |-> "retired", id |-> 0] \in Timers
  BY Bounds DEF IInv, Types, Timers
<1>1. ASSUME NEW u PROVE Freed(u) \in [TimerIds -> Timers]
  BY <1>0 DEF Freed
<1>2. ASSUME NEW u, NEW id \in 0 .. MaxRuns
      PROVE  [timers EXCEPT ![u] = [state |-> "armed", id |-> id]] \in [TimerIds -> Timers]
  BY <1>0 DEF Timers
<1>3. ASSUME NEW u \in TimerIds, NEW args \in Requests, RunBegins(u, args) PROVE timers' \in [TimerIds -> Timers]
  <2>1. runId + 1 \in 0 .. MaxRuns
    BY <1>0, <1>3, Bounds DEF RunBegins
  <2>2. timers' = [timers EXCEPT ![u] = [state |-> "armed", id |-> runId + 1]]
    BY <1>3 DEF RunBegins
  <2> QED BY <1>2, <2>1, <2>2
<1>4. ASSUME NEW succeeds \in BOOLEAN, HandleTimeoutExtension(succeeds) PROVE timers' \in [TimerIds -> Timers]
  <2>1. Rearmed(runner.timer) \in [TimerIds -> Timers]
    BY <1>0, <1>2 DEF Rearmed
  <2> QED BY <1>1, <1>4, <2>1 DEF HandleTimeoutExtension, StopOngoingTest
<1>5. ASSUME NEW t \in TimerIds, Timeout(t) PROVE timers' \in [TimerIds -> Timers]
  <2>1. timers' = [timers EXCEPT ![t].state = "idle"]
    BY <1>5 DEF Timeout
  <2>2. [timers[t] EXCEPT !.state = "idle"] \in Timers
    BY <1>0 DEF Timers
  <2> QED BY <1>0, <2>1, <2>2
<1>6. CASE RetireAllTimers
  BY <1>0, <1>6 DEF RetireAllTimers
<1>7. ASSUME \/ Accept \/ PollHup \/ HandleCommandStop \/ RunRefused \/ Start \/ Obsolete \/ HandleTestResult
             \/ ExtensionIgnored \/ LeaveLoop \/ HarnessGlobalExit \/ Deregister \/ Environment
      PROVE  timers' = timers \/ \E u : timers' = Freed(u)
  BY <1>7 DEF Accept, PollHup, PollIn, HandleCommandStop, RunRefused, Start, StartTest,
         StartTestReturns, StartTestFails, Obsolete, HandleTestResult, ExtensionIgnored,
         LeaveLoop, HarnessGlobalExit, Deregister, Environment,
         ClientConnects, ClientLeaves, HarnessUnchanged, ReadsRunId, Sends, CannotSend, CodeUnchanged, StopOngoingTest
<1> QED BY <1>0, <1>1, <1>3, <1>4, <1>5, <1>6, <1>7 DEF Next, Poll, Listener, Shutdown

LEMMA NextQueueType ==
    ASSUME IInv, Next
    PROVE  queue' \in Seq(Mails)
<1>0. queue \in Seq(Mails) /\ code \in [Runs -> Codes]
  BY DEF IInv, Types
<1>1. ASSUME NEW r \in Runs, Sends(r) PROVE queue' \in Seq(Mails)
  <2>1. PICK rep \in Reports : rep = code[r].report
    BY <1>0 DEF Codes
  <2>2. rep.kind # "none" /\ r \in 0 .. MaxRuns
    BY <1>1, <2>1, Bounds DEF Sends, IInv, CodeInv, Runs
  <2>3. PICK m : m = [kind |-> rep.kind, id |-> rep.id, of |-> r, late |-> rep.late]
    OBVIOUS
  <2>4. m \in Mails
    BY <2>2, <2>3 DEF Mails, Reports
  <2> QED BY <1>1, <2>1, <2>3, <2>4, QueueIs DEF Sends
<1>2. ASSUME NEW t \in TimerIds, Timeout(t) PROVE queue' \in Seq(Mails)
  <2>1. PICK m : m = [kind |-> "timeout", id |-> timers[t].id, of |-> timers[t].id, late |-> FALSE]
    OBVIOUS
  <2>2. m \in Mails
    BY <2>1 DEF Mails, IInv, Types, Timers
  <2> QED BY <1>2, <2>1, <2>2, QueueIs DEF Timeout
<1>3. CASE Listener
  <2>1. queue # << >> /\ queue' = Tail(queue)
    BY <1>3 DEF Listener, Obsolete, HandleTestResult, ExtensionIgnored, HandleTimeoutExtension, Receives
  <2> QED BY <2>1, QueueIs
<1>4. ASSUME \/ Poll \/ Start \/ Shutdown \/ ClientConnects \/ ClientLeaves
             \/ \E r \in Runs : \/ CannotSend(r)
                                \/ \E kind \in {"result", "extension"} : ReadsRunId(r, kind)
      PROVE  queue' = queue
  BY <1>4 DEF Poll, Accept, PollHup, PollIn, HandleCommandStop, RunRefused, RunBegins, Start, StartTest,
         StartTestReturns, StartTestFails, Shutdown, LeaveLoop, RetireAllTimers, HarnessGlobalExit, Deregister,
         ClientConnects, ClientLeaves, HarnessUnchanged, ReadsRunId, CannotSend
<1> QED BY <1>0, <1>1, <1>2, <1>3, <1>4 DEF Next, Environment

LEMMA NextCodeType ==
    ASSUME IInv, Next
    PROVE  code' \in [Runs -> Codes]
<1>0. code \in [Runs -> Codes] /\ runId \in 0 .. MaxRuns
  BY DEF IInv, Types
<1>1. ASSUME NEW r, NEW s \in {"active", "lingering"} PROVE [code EXCEPT ![r].state = s] \in [Runs -> Codes]
  <2>1. CASE r \in Runs
    <3>1. [code[r] EXCEPT !.state = s] \in Codes
      BY <1>0, <2>1 DEF Codes
    <3> QED BY <1>0, <2>1, <3>1
  <2>2. CASE r \notin Runs
    BY <1>0, <2>2
  <2> QED BY <2>1, <2>2
<1>2. ASSUME NEW r \in Runs, NEW kind \in {"result", "extension"}, ReadsRunId(r, kind) PROVE code' \in [Runs -> Codes]
  <2>1. PICK late \in BOOLEAN : late = (code[r].state = "lingering")
    BY Zenon
  <2>2. PICK rep : rep = [kind |-> kind, id |-> runId, late |-> late]
    OBVIOUS
  <2>3. rep \in Reports
    BY <1>0, <2>2 DEF Reports
  <2>4. code' = [code EXCEPT ![r].report = rep]
    BY <1>2, <2>1, <2>2, Zenon DEF ReadsRunId
  <2>5. [code[r] EXCEPT !.report = rep] \in Codes
    BY <1>0, <2>3 DEF Codes
  <2> QED BY <1>0, <2>4, <2>5
<1>3. ASSUME NEW r \in Runs, Sends(r) \/ CannotSend(r) PROVE code' \in [Runs -> Codes]
  <2>1. code' = [code EXCEPT ![r].report = NoReport, ![r].sent = @ + 1]
    BY <1>3 DEF Sends, CannotSend
  <2>2. NoReport \in Reports
    BY Bounds DEF NoReport, Reports
  <2>3. PICK c \in Codes : c = code[r]
    BY <1>0
  <2>4. c.sent + 1 \in Nat
    BY DEF Codes
  <2>5. [c EXCEPT !.report = NoReport] \in Codes
    BY <2>2 DEF Codes
  <2>6. [[c EXCEPT !.report = NoReport] EXCEPT !.sent = c.sent + 1] \in Codes
    BY <2>4, <2>5 DEF Codes
  <2>7. code' = [code EXCEPT ![r] = [[c EXCEPT !.report = NoReport] EXCEPT !.sent = c.sent + 1]]
    BY <1>0, <2>1, <2>3 DEF Codes
  <2> QED BY <1>0, <2>6, <2>7
<1>4. ASSUME \/ Poll \/ Start \/ Listener \/ Shutdown \/ ClientConnects \/ ClientLeaves
             \/ \E t \in TimerIds : Timeout(t)
      PROVE  \/ code' = code
             \/ \E s \in {"active", "lingering"} : code' = [code EXCEPT ![runId].state = s]
  BY <1>4 DEF Poll, Accept, PollHup, PollIn, HandleCommandStop, RunRefused, RunBegins, Start, StartTest,
         StartTestReturns, StartTestFails, Listener, Receives, Obsolete, HandleTestResult, ExtensionIgnored,
         HandleTimeoutExtension, Shutdown, LeaveLoop, RetireAllTimers, HarnessGlobalExit, Deregister,
         ClientConnects, ClientLeaves, HarnessUnchanged, Timeout, StopOngoingTest, Terminated
<1>5. ASSUME \/ Poll \/ Start \/ Listener \/ Shutdown \/ ClientConnects \/ ClientLeaves
             \/ \E t \in TimerIds : Timeout(t)
      PROVE  code' \in [Runs -> Codes]
  <2>1. CASE code' = code
    BY <1>0, <2>1
  <2>2. ASSUME NEW s \in {"active", "lingering"}, code' = [code EXCEPT ![runId].state = s]
        PROVE  code' \in [Runs -> Codes]
    BY <1>1, <2>2
  <2> QED BY <1>4, <1>5, <2>1, <2>2
<1> QED BY <1>2, <1>3, <1>5 DEF Next, Environment

LEMMA EntriesAre ==
    ASSUME IInv, NEW r, NEW v \in Verdicts
    PROVE  /\ [ledger EXCEPT ![r].verdict = v] \in [Runs -> Entries]
           /\ [ledger EXCEPT ![r].verdict = v, ![r].answers = WriteBack(@)] \in [Runs -> Entries]
           /\ [ledger EXCEPT ![r].asker = conn.active] \in [Runs -> Entries]
           /\ r \in Runs => [ledger EXCEPT ![r] = [asker |-> conn.active, answers |-> WriteBack(@.answers),
                                                   verdict |-> v]] \in [Runs -> Entries]
<1>0. ledger \in [Runs -> Entries] /\ conn.active \in 0 .. MaxClients
  BY DEF IInv, Types
<1>1. ASSUME NEW answers \in Seq(Nat) PROVE WriteBack(answers) \in Seq(Nat)
  BY <1>0, <1>1, Bounds DEF WriteBack
<1>2. CASE r \notin Runs
  BY <1>0, <1>2
<1>3. CASE r \in Runs
  <2>1. PICK e \in Entries : e = ledger[r]
    BY <1>0, <1>3
  <2>2. WriteBack(e.answers) \in Seq(Nat)
    BY <1>1 DEF Entries
  <2>3. /\ [e EXCEPT !.verdict = v] \in Entries /\ [e EXCEPT !.asker = conn.active] \in Entries
        /\ [asker |-> conn.active, answers |-> WriteBack(e.answers), verdict |-> v] \in Entries
    BY <1>0, <2>2 DEF Entries
  <2>4. [[e EXCEPT !.verdict = v] EXCEPT !.answers = WriteBack(e.answers)] \in Entries
    BY <2>2, <2>3 DEF Entries
  <2>5. [ledger EXCEPT ![r].verdict = v, ![r].answers = WriteBack(@)]
            = [ledger EXCEPT ![r] = [[e EXCEPT !.verdict = v] EXCEPT !.answers = WriteBack(e.answers)]]
    BY <1>0, <1>3, <2>1 DEF Entries
  <2> QED BY <1>0, <1>3, <2>1, <2>3, <2>4, <2>5
<1> QED BY <1>2, <1>3

LEMMA NextLedgerType ==
    ASSUME IInv, Next
    PROVE  ledger' \in [Runs -> Entries]
<1>0. ledger \in [Runs -> Entries] /\ runId \in 0 .. MaxRuns /\ runId + 1 \in Nat
  BY DEF IInv, Types
<1>1. ASSUME NEW how \in {"stopped", "hangup", "shutdown"}, ledger' = EndsSilently(runId, how)
      PROVE  ledger' \in [Runs -> Entries]
  <2>1. PICK v : v = [how |-> how, of |-> runId, late |-> FALSE]
    OBVIOUS
  <2>2. v \in Verdicts
    BY <1>0, <2>1 DEF Verdicts
  <2> QED BY <1>1, <2>1, <2>2, EntriesAre DEF EndsSilently
<1>2. ASSUME NEW how \in {"unstarted", "unextended", "result", "timeout"}, NEW of \in 0 .. MaxRuns,
             NEW late \in BOOLEAN, ledger' = Ends(runId, how, of, late)
      PROVE  ledger' \in [Runs -> Entries]
  <2>1. PICK v : v = [how |-> how, of |-> of, late |-> late]
    OBVIOUS
  <2>2. v \in Verdicts
    BY <2>1 DEF Verdicts
  <2> QED BY <1>2, <2>1, <2>2, EntriesAre DEF Ends
<1>3. CASE PollHup \/ HandleCommandStop \/ HarnessGlobalExit
  BY <1>0, <1>1, <1>3 DEF PollHup, HandleCommandStop, HarnessGlobalExit
<1>4. CASE RunRefused
  <2>1. runId + 1 \in 0 .. MaxRuns /\ runId + 1 \in Runs
    BY <1>0, <1>4, Bounds DEF RunRefused, Runs
  <2>2. PICK v : v = [how |-> "refused", of |-> runId + 1, late |-> FALSE]
    OBVIOUS
  <2>3. v \in Verdicts
    BY <2>1, <2>2 DEF Verdicts
  <2> QED BY <1>4, <2>1, <2>2, <2>3, EntriesAre DEF RunRefused
<1>5. ASSUME NEW u \in TimerIds, NEW args \in Requests, RunBegins(u, args) PROVE ledger' \in [Runs -> Entries]
  <2>1. PICK v : v \in Verdicts
    <3>1. [how |-> "none", of |-> 0, late |-> FALSE] \in Verdicts
      BY Bounds DEF Verdicts
    <3> QED BY <3>1
  <2> QED BY <1>5, <2>1, EntriesAre DEF RunBegins
<1>6. CASE StartTestFails
  BY <1>0, <1>2, <1>6 DEF StartTestFails
<1>7. CASE HandleTestResult
  <2>1. PICK m \in Mails : m = Head(queue)
    BY <1>7, QueueIs DEF HandleTestResult, Receives
  <2>2. ledger' = Ends(runId, m.kind, m.of, m.late) /\ m.kind \in {"result", "timeout"}
    BY <1>7, <2>1 DEF HandleTestResult, Receives
  <2>3. m.of \in 0 .. MaxRuns /\ m.late \in BOOLEAN
    BY DEF Mails
  <2> QED BY <1>2, <2>2, <2>3
<1>8. ASSUME NEW succeeds \in BOOLEAN, HandleTimeoutExtension(succeeds) PROVE ledger' \in [Runs -> Entries]
  BY <1>0, <1>2, <1>8 DEF HandleTimeoutExtension
<1>9. ASSUME \/ Accept \/ StartTest \/ StartTestReturns \/ Obsolete \/ ExtensionIgnored
             \/ LeaveLoop \/ RetireAllTimers \/ Deregister \/ Environment \/ \E t \in TimerIds : Timeout(t)
      PROVE  ledger' = ledger
  BY <1>9 DEF Accept, StartTest, StartTestReturns, Obsolete, ExtensionIgnored, LeaveLoop, RetireAllTimers, Deregister,
         Environment, ClientConnects, ClientLeaves, HarnessUnchanged, ReadsRunId, Sends, CannotSend, CodeUnchanged, Timeout
<1> QED BY <1>0, <1>3, <1>4, <1>5, <1>6, <1>7, <1>8, <1>9 DEF Next, Poll, Start, Listener, Shutdown

-----------------------------------------------------------------------------
LEMMA Initially ==
    ASSUME Init
    PROVE  IInv
<1>1. Types
  <2>1. NoReport \in Reports /\ NoVerdict \in Verdicts
    BY Bounds DEF NoReport, Reports, NoVerdict, Verdicts
  <2>2. code \in [Runs -> Codes] /\ ledger \in [Runs -> Entries]
    BY <2>1, Bounds DEF Init, Codes, Entries
  <2>3. timers \in [TimerIds -> Timers]
    BY Bounds DEF Init, Timers
  <2>4. phase \in Phases /\ polling \in BOOLEAN /\ registered \in BOOLEAN /\ fatal \in BOOLEAN
    BY DEF Init, Phases
  <2>5. /\ conn \in [active : 0 .. MaxClients, pollable : {"listening", "connection"}]
        /\ open \subseteq {"listening", "connection"}
        /\ client \in Clients
    BY Bounds DEF Init, Clients
  <2>6. /\ runner \in [state : {"Idle", "Busy"}, timer : TimerIds \cup {NoTimer}, test : BOOLEAN]
        /\ run.timer \in TimerIds \cup {NoTimer} /\ runId \in 0 .. MaxRuns /\ queue \in Seq(Mails)
    BY Bounds DEF Init, Idle, NoRun
  <2> QED BY <2>2, <2>3, <2>4, <2>5, <2>6 DEF Types
<1>2. PhaseInv /\ SocketInv /\ RunnerInv /\ ParamsComplete
  BY Bounds DEF Init, PhaseInv, SocketInv, RunnerInv, ParamsComplete, Gone, Busy, Idle
<1>3. \A t \in TimerIds : timers[t].state = "none"
  BY DEF Init
<1>4. TimersInv
  BY <1>3 DEF Init, TimersInv, Retired, InUse, Busy, Idle
<1>5. LiveInv
  <2>1. Cardinality(Armed) = 0
    BY <1>3, CountNone DEF Armed
  <2> QED BY <2>1 DEF Init, LiveInv
<1>6. /\ runId = 0 /\ ~ Doing
      /\ \A r \in Runs : ledger[r] = [asker |-> 0, verdict |-> NoVerdict, answers |-> << >>]
  BY DEF Init, Doing, Busy, Idle
<1>7. LedgerInv
  <2>1. \A r \in Runs : /\ ledger[r].asker = 0 /\ ledger[r].answers = << >> /\ ledger[r].verdict.how = "none"
                        /\ ~ (r <= runId)
    BY <1>6, Bounds DEF Runs, NoVerdict
  <2> QED BY <1>6, <2>1 DEF LedgerInv, VerdictsBelong, Silent
<1>8. CodeInv
  <2>1. Len(queue) = 0
    BY DEF Init
  <2>2. \A r \in Runs : code[r].state = "none" /\ code[r].report = NoReport
    BY DEF Init
  <2> QED BY <2>1, <2>2 DEF CodeInv
<1> QED BY <1>1, <1>2, <1>4, <1>5, <1>7, <1>8 DEF IInv

LEMMA Inductive ==
    ASSUME IInv, [Next]_vars
    PROVE  IInv'
<1>1. CASE Next
  <2>1. Types'
    BY <1>1, NextCoreTypes, NextSocketTypes, NextRunnerTypes, NextTimersTypes, NextQueueType, NextCodeType,
       NextLedgerType DEF Types
  <2> QED BY <1>1, <2>1, NextPhase, NextRunner, NextTimers, NextLive, NextLedger, NextCode, NextParams DEF IInv
<1>2. CASE UNCHANGED vars
  BY <1>2 DEF vars, sock, IInv, Types, PhaseInv, SocketInv, RunnerInv, TimersInv, LiveInv, LedgerInv, CodeInv,
         ParamsComplete, VerdictsBelong, Gone, Busy, Retired, InUse, Armed, Doing
<1> QED BY <1>1, <1>2

LEMMA Invariance == Spec => []IInv
<1>1. Init => IInv
  BY Initially
<1>2. IInv /\ [Next]_vars => IInv'
  BY Inductive
<1> QED BY <1>1, <1>2, PTL DEF Spec

(* NothingLeaks: the runner holds a timer and a test case exactly while it  *)
(* is busy, and no timer or message outlives a test, however it ended; no   *)
(* assertion fails, and no test case is used after it was deleted.          *)
THEOREM TestsLeaveNothingBehind == Spec => []NothingLeaks
<1>1. IInv => NothingLeaks
  <2> SUFFICES ASSUME IInv PROVE NothingLeaks
    OBVIOUS
  <2>1. TypeOK
    BY LiveIs DEF IInv, Types, TypeOK, Phases, Timers
  <2>2. ~ fatal
    BY DEF IInv, PhaseInv
  <2>3. runner.state = "Busy" => runner.test /\ registered /\ Exists(runner.timer)
    BY BusyHas DEF Busy
  <2>4. ASSUME NEW t \in TimerIds, timers[t].state \in {"idle", "armed"}
        PROVE  t \in {runner.timer, run.timer}
    BY <2>4 DEF IInv, TimersInv, InUse
  <2> QED BY <2>1, <2>2, <2>3, <2>4 DEF NothingLeaks, IInv, LiveInv, Armed
<1> QED BY <1>1, Invariance, PTL

(* VerdictsBelong: a test is ended by its own result or its own timeout;    *)
(* what an earlier run left in the queue is discarded as obsolete, unless   *)
(* code that outlived its run asked for the number of the current one.      *)
THEOREM NoStolenVerdicts == Spec => []VerdictsBelong
<1>1. IInv => VerdictsBelong
  BY DEF IInv, LedgerInv
<1> QED BY <1>1, Invariance, PTL

(* AnswersOnce: the client that asked for a run is told how it ended once,  *)
(* if it ended by itself, nobody else is, and nothing is written to a       *)
(* closed descriptor.                                                       *)
THEOREM ClientsAreAnsweredOnce == Spec => []AnswersOnce
<1>1. IInv => AnswersOnce
  <2> SUFFICES ASSUME IInv PROVE AnswersOnce
    OBVIOUS
  <2>1. \A r \in Runs : EntryOK(r)
    BY LedgerIs DEF IInv
  <2> QED BY <2>1 DEF EntryOK, AnswersOnce, Silent
<1> QED BY <1>1, Invariance, PTL

(* ParamsComplete: StartTest is called with every parameter of the test     *)
(* case assigned, and none of them twice.                                   *)
THEOREM TestsStartFullyParameterized == Spec => []ParamsComplete
<1>1. IInv => ParamsComplete
  BY DEF IInv
<1> QED BY <1>1, Invariance, PTL
=============================================================================
