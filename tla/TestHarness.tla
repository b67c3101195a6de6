----------------------------- MODULE TestHarness ----------------------------
(***************************************************************************)
(* src/test-harness: an application that runs test cases on request of a   *)
(* client connected to a Unix socket.  Everything the harness itself does  *)
(* happens on core 0: commands are read in an input poll callback          *)
(* (src/platform/components/input/input.c) and results are handled by the  *)
(* listener, a worker deployed on that core only.  The code of a test case *)
(* runs on any core; stopping a test does not wait for it.                 *)
(*                                                                         *)
(* Timers are those of module Timing: a one-shot timer whose message is    *)
(* with the listener, or dropped.                                          *)
(*                                                                         *)
(* ASSUMED of the client: every packet it sends holds a word (see PollIn). *)
(***************************************************************************)
EXTENDS Naturals, Sequences, FiniteSets

CONSTANTS Keys,        (* parameters of the test case                      *)
          TimerIds,    (* timers left to the harness                       *)
          NoTimer,     (* TIMER_ID_INVALID                                 *)
          MaxRuns,     (* bound: runs requested                            *)
          MaxReports,  (* bound: messages the code of one run sends        *)
          MaxClients   (* bound: connections accepted                      *)

ASSUME TestHarnessAssumption ==
    /\ IsFiniteSet(Keys) /\ NoTimer \notin TimerIds
    /\ {MaxRuns, MaxReports, MaxClients} \subseteq Nat

VARIABLES
    phase,       (* what the dispatcher of core 0 is doing                  *)
    polling,     (* s_pollingEnabled                                        *)
    conn,        (* s_activeConnection, as the number of the client, and    *)
                 (* s_pollableDescriptor                                    *)
    open,        (* descriptors that are open                               *)
    client,      (* the other end: a waiting client, the accepted one       *)
    runner,      (* s_currentState, s_timeoutTimer, s_currentTestCase       *)
    run,         (* local variables of HandleCommandRun                     *)
    runId,       (* the counter at s_testRunCounterPtr, in shared memory    *)
    timers,      (* state of the timers; an armed one has its message       *)
    queue,       (* messages the listener has not yet received              *)
    live,        (* messages that exist                                     *)
    code,        (* code of each run: state, messages sent, the one it is   *)
                 (* about to send                                           *)
    registered,  (* the test case is in s_casesDatabase                     *)
    ledger,      (* for each run: who asked, how it ended, who was answered *)
    fatal        (* an assertion has failed                                 *)

sock == <<conn, open, client>>
vars == <<phase, polling, sock, runner, run, runId, timers, queue, live, code,
          registered, ledger, fatal>>

Runs == 1 .. MaxRuns
NoReport == [kind |-> "none", id |-> 0, late |-> FALSE]
NoRun == [timer |-> NoTimer, args |-> << >>]
Idle == [state |-> "Idle", timer |-> NoTimer, test |-> FALSE]
NoVerdict == [how |-> "none", of |-> 0, late |-> FALSE]

Init ==
    /\ phase = "running" /\ polling = TRUE
    /\ conn = [active |-> 0, pollable |-> "listening"]
    /\ open = {"listening"}
    /\ client = [waiting |-> FALSE, count |-> 0, peer |-> "none"]
    /\ runner = Idle /\ run = NoRun /\ runId = 0
    /\ timers = [t \in TimerIds |-> [state |-> "none", id |-> 0]]
    /\ queue = << >> /\ live = 0
    /\ code = [r \in Runs |-> [state |-> "none", sent |-> 0, report |-> NoReport]]
    /\ registered = TRUE
    /\ ledger = [r \in Runs |-> [asker |-> 0, verdict |-> NoVerdict, answers |-> << >>]]
    /\ fatal = FALSE

Assert(condition) == fatal' = (fatal \/ ~condition)

(***************************************************************************)
(* The client                                                              *)
(***************************************************************************)
HarnessUnchanged == UNCHANGED <<phase, polling, conn, open, runner, run, runId, timers,
                                queue, live, code, registered, ledger, fatal>>

ClientConnects ==
    /\ ~client.waiting /\ client.count < MaxClients
    /\ "listening" \in open
    /\ client' = [client EXCEPT !.waiting = TRUE]
    /\ HarnessUnchanged

ClientLeaves ==
    /\ client.peer = "up"
    /\ client' = [client EXCEPT !.peer = "gone"]
    /\ HarnessUnchanged

(***************************************************************************)
(* Answers and stopping a test                                             *)
(***************************************************************************)

(* WriteBack: nothing when there is no connection.  A client that has left  *)
(* does not read it, and SIGPIPE is ignored.                                *)
WriteBack(answers) ==
    IF conn.active = 0 THEN answers
    ELSE Append(answers, IF "connection" \in open THEN conn.active ELSE 0)

(* An answer about a run, which ends it *)
Ends(r, how, of, late) ==
    [ledger EXCEPT ![r].verdict = [how |-> how, of |-> of, late |-> late],
                   ![r].answers = WriteBack(@)]
EndsSilently(r, how) == [ledger EXCEPT ![r].verdict = [how |-> how, of |-> r, late |-> FALSE]]

(* Disarming and destroying a timer: the message of an armed one goes.      *)
(* A retired timer accepts both calls and stays retired.                    *)
Exists(t) == t \in TimerIds /\ timers[t].state # "none"
Freed(t) == [timers EXCEPT ![t] = IF @.state = "retired" THEN @
                                  ELSE [state |-> "none", id |-> 0]]
HeldBy(t) == IF timers[t].state = "armed" THEN 1 ELSE 0

(* The workers of the test are terminated, which does not interrupt a       *)
(* worker body that is running on another core.                             *)
Terminated(r) == [code EXCEPT ![r].state = "lingering"]

(* A slip: the runner is left as it was. *)
BusyStopOngoingTest(messages) ==
    /\ Assert(runner.test /\ registered /\ Exists(runner.timer))
    /\ code' = Terminated(runId)
    /\ timers' = Freed(runner.timer)
    /\ live' = live - messages - HeldBy(runner.timer)
    /\ UNCHANGED runner
StopOngoingTest(messages) ==
    /\ Assert(runner.test /\ registered /\ Exists(runner.timer))
    /\ code' = Terminated(runId)
    /\ timers' = Freed(runner.timer)
    /\ live' = live - messages - HeldBy(runner.timer)
    /\ runner' = Idle

(***************************************************************************)
(* UdsInputPollCallback                                                    *)
(***************************************************************************)

(* Core 0 serves the listener and the poll callbacks by turns, during the   *)
(* shutdown too.  While it starts a test it is in the callback.             *)
Dispatching == phase \in {"running", "draining", "final"}
InPollCallback == Dispatching /\ polling

(* poll reports a client, or that the descriptor is not open.  accept may   *)
(* fail, and the client is waited for again: no change.                     *)
Accept ==
    /\ InPollCallback
    /\ conn.pollable = "listening" /\ (client.waiting \/ "listening" \notin open)
    /\ Assert(conn.active = 0 /\ "listening" \in open)
    /\ conn' = [active |-> client.count + 1, pollable |-> "connection"]
    /\ open' = open \cup {"connection"}
    /\ client' = [waiting |-> FALSE, count |-> client.count + 1, peer |-> "up"]
    /\ UNCHANGED <<phase, polling, runner, run, runId, timers, queue, live, code,
                   registered, ledger>>

(* POLLHUP is looked at before POLLIN: commands not yet read are lost. *)
PollHup ==
    /\ InPollCallback
    /\ conn.pollable = "connection" /\ client.peer = "gone"
    /\ conn' = [active |-> 0, pollable |-> "listening"]
    /\ open' = open \ {"connection"}
    /\ client' = [client EXCEPT !.peer = "none"]
    /\ IF runner.state = "Busy"
       THEN /\ StopOngoingTest(0)
            /\ ledger' = EndsSilently(runId, "hangup")
       ELSE UNCHANGED <<runner, timers, live, code, ledger, fatal>>
    /\ UNCHANGED <<phase, polling, run, runId, queue, registered>>

(* The client has sent a command.  That it is one is assumed: an empty      *)
(* packet fails the assertion on the result of read (ipc_socket.cc:168),    *)
(* and one of blanks only has no first word (test_runner.cc:94), which the  *)
(* comparison with the commands (test_runner.cc:187) does not look at.      *)
PollIn ==
    /\ InPollCallback
    /\ conn.pollable = "connection" /\ client.peer = "up"
    /\ UNCHANGED <<polling, sock, queue, registered>>

(* A command that is neither run nor stop, a run without a name, and a stop *)
(* while idle get an answer that is about no run, and change nothing.       *)
HandleCommandStop ==
    /\ PollIn /\ runner.state = "Busy"
    /\ StopOngoingTest(0)
    /\ ledger' = EndsSilently(runId, "stopped")
    /\ UNCHANGED <<phase, run, runId>>

(* Arguments of a command run: keys, and whether the value can be parsed.   *)
(* (A test case without parameters does not look at them, which is the      *)
(* empty request.)                                                          *)
Tokens == [key : Keys, good : BOOLEAN]
Requests == UNION {[1 .. n -> Tokens] : n \in 0 .. Cardinality(Keys) + 1}

(* ParamsParser::Parse takes each key out of the layout as it is assigned.  *)
(* A slip: the key stays in the layout, which is then not looked at. *)
KeepParse(args) == \A i \in 1 .. Len(args) : args[i].good
Parse(args) ==
    LET layout == [i \in 0 .. Len(args) |-> Keys \ {args[j].key : j \in 1 .. i}]
    IN  /\ \A i \in 1 .. Len(args) : args[i].key \in layout[i - 1] /\ args[i].good
        /\ layout[Len(args)] = {}

(* HandleCommandRun, which changes nothing while a test is running, gives   *)
(* up on a request: there is no such test case, the  *)
(* parameters cannot be parsed, or the timer, the message or arming the     *)
(* timer fails, after which what was obtained is given back.                *)
RunRefused ==
    /\ PollIn /\ runner.state = "Idle" /\ runId < MaxRuns
    /\ runId' = runId + 1
    /\ ledger' = [ledger EXCEPT ![runId + 1] =
                     [asker |-> conn.active, answers |-> WriteBack(@.answers),
                      verdict |-> [how |-> "refused", of |-> runId + 1, late |-> FALSE]]]
    /\ UNCHANGED <<phase, runner, run, timers, live, code, fatal>>

(* The request is in order: the timeout is ticking when StartTest is called *)
RunBegins(t, args) ==
    /\ PollIn /\ runner.state = "Idle" /\ runId < MaxRuns
    /\ registered /\ Parse(args)
    /\ timers[t].state = "none"
    /\ runId' = runId + 1
    /\ timers' = [timers EXCEPT ![t] = [state |-> "armed", id |-> runId + 1]]
    /\ live' = live + 1
    /\ phase' = "starting"
    /\ run' = [timer |-> t, args |-> args]
    /\ ledger' = [ledger EXCEPT ![runId + 1].asker = conn.active]
    /\ UNCHANGED <<runner, code, fatal>>

(* StartTest deploys the workers of the test, which run at once. *)
StartTest ==
    /\ phase = "starting" /\ code[runId].state = "none"
    /\ code' = [code EXCEPT ![runId].state = "active"]
    /\ UNCHANGED <<phase, polling, sock, runner, run, runId, timers, queue, live,
                   registered, ledger, fatal>>

StartTestReturns ==
    /\ phase = "starting" /\ code[runId].state = "active"
    /\ runner' = [state |-> "Busy", timer |-> run.timer, test |-> TRUE]
    /\ phase' = "running"
    /\ run' = NoRun
    /\ UNCHANGED <<polling, sock, runId, timers, queue, live, code, registered, ledger, fatal>>

(* StartTest fails, having terminated what it had started. *)
StartTestFails ==
    /\ phase = "starting"
    /\ Assert(Exists(run.timer))
    /\ timers' = Freed(run.timer)
    /\ live' = live - HeldBy(run.timer)
    /\ code' = Terminated(runId)
    /\ ledger' = Ends(runId, "unstarted", runId, FALSE)
    /\ phase' = "running"
    /\ run' = NoRun
    /\ UNCHANGED <<polling, sock, runner, runId, queue, registered>>

(***************************************************************************)
(* The code of a test, on other cores: ReportTestResult and ExtendTimeout  *)
(***************************************************************************)
CodeUnchanged == UNCHANGED <<phase, polling, sock, runner, run, runId, timers, registered,
                             ledger, fatal>>

(* The number of the current run is read first; it need not be the run      *)
(* that the code belongs to.                                                *)
ReadsRunId(r, kind) ==
    /\ code[r].state \in {"active", "lingering"}
    /\ code[r].report = NoReport /\ code[r].sent < MaxReports
    /\ code' = [code EXCEPT ![r].report =
                   [kind |-> kind, id |-> runId, late |-> code[r].state = "lingering"]]
    /\ CodeUnchanged /\ UNCHANGED <<queue, live>>

Sends(r) ==
    /\ code[r].report # NoReport
    /\ queue' = Append(queue, [kind |-> code[r].report.kind, id |-> code[r].report.id,
                               of |-> r, late |-> code[r].report.late])
    /\ live' = live + 1
    /\ code' = [code EXCEPT ![r].report = NoReport, ![r].sent = @ + 1]
    /\ CodeUnchanged

(* CreateMessage fails: the report is lost. *)
CannotSend(r) ==
    /\ code[r].report # NoReport
    /\ code' = [code EXCEPT ![r].report = NoReport, ![r].sent = @ + 1]
    /\ CodeUnchanged /\ UNCHANGED <<queue, live>>

(* The timing daemon passes the message of an expired timer to the listener *)
Timeout(t) ==
    /\ timers[t].state = "armed"
    /\ timers' = [timers EXCEPT ![t].state = "idle"]
    /\ queue' = Append(queue, [kind |-> "timeout", id |-> timers[t].id,
                               of |-> timers[t].id, late |-> FALSE])
    /\ UNCHANGED <<phase, polling, sock, runner, run, runId, live, code, registered,
                   ledger, fatal>>

(***************************************************************************)
(* ListenerBody                                                            *)
(***************************************************************************)

(* A slip: any report ends the test. *)
AnyCurrent(message) == runner.state = "Busy"
Current(message) == runner.state = "Busy" /\ message.id = runId

Receives(kinds) ==
    /\ Dispatching
    /\ queue # << >> /\ Head(queue).kind \in kinds
    /\ queue' = Tail(queue)
    /\ UNCHANGED <<phase, polling, sock, run, runId, registered>>

Obsolete ==
    /\ Receives({"result", "timeout", "extension"})
    /\ ~Current(Head(queue))
    /\ live' = live - 1
    /\ UNCHANGED <<runner, timers, code, ledger, fatal>>

HandleTestResult ==
    /\ Receives({"result", "timeout"})
    /\ Current(Head(queue))
    /\ ledger' = Ends(runId, Head(queue).kind, Head(queue).of, Head(queue).late)
    /\ StopOngoingTest(1)

(* The old message is destroyed with the disarmed timer, or is already in   *)
(* the queue; the timer is armed again with a new one.                      *)
(* A slip: it is only disarmed. *)
OnlyDisarmed(t) == [timers EXCEPT ![t] = [state |-> "idle", id |-> 0]]
Rearmed(t) == [timers EXCEPT ![t] = [state |-> "armed", id |-> runId]]

HandleTimeoutExtension(succeeds) ==
    /\ Receives({"extension"})
    /\ Current(Head(queue))
    /\ IF succeeds /\ timers[runner.timer].state # "retired"
       THEN /\ Assert(runner.test /\ Exists(runner.timer))
            /\ timers' = Rearmed(runner.timer)
            /\ live' = live - HeldBy(runner.timer)
            /\ UNCHANGED <<runner, code, ledger>>
       ELSE /\ ledger' = Ends(runId, "unextended", runId, FALSE)
            /\ StopOngoingTest(1)

(* No message for the extension: the timer goes on as it was. *)
ExtensionIgnored ==
    /\ Receives({"extension"})
    /\ Current(Head(queue))
    /\ live' = live - 1
    /\ UNCHANGED <<runner, timers, code, ledger, fatal>>

(***************************************************************************)
(* Shutdown, on core 0: DispatcherEntryPoint and RunMainDispatcher         *)
(***************************************************************************)

(* A slip: polling goes on while the applications exit. *)
StillPolling == TRUE
DisableInputPolling == FALSE

LeaveLoop ==
    /\ phase = "running"
    /\ phase' = "draining"
    /\ polling' = DisableInputPolling
    /\ UNCHANGED <<sock, runner, run, runId, timers, queue, live, code, registered,
                   ledger, fatal>>

RetireAllTimers ==
    /\ phase = "draining"
    /\ phase' = "exiting"
    /\ timers' = [t \in TimerIds |-> [state |-> "retired", id |-> 0]]
    /\ live' = live - Cardinality({t \in TimerIds : timers[t].state = "armed"})
    /\ UNCHANGED <<polling, sock, runner, run, runId, queue, code, registered, ledger, fatal>>

(* The descriptors are closed, and s_activeConnection keeps its value; then *)
(* the runner stops a test.  The listener is terminated, and may still be   *)
(* served what was sent to it.                                              *)
HarnessGlobalExit ==
    /\ phase = "exiting"
    /\ phase' = "deregistering"
    /\ open' = {}
    /\ IF runner.state = "Busy"
       THEN /\ StopOngoingTest(0)
            /\ ledger' = EndsSilently(runId, "shutdown")
       ELSE UNCHANGED <<runner, timers, live, code, ledger, fatal>>
    /\ UNCHANGED <<polling, conn, client, run, runId, queue, registered>>

(* The application with the test cases is loaded after the harness, so it   *)
(* exits after it.                                                          *)
Deregister ==
    /\ phase = "deregistering"
    /\ phase' = "final"
    /\ registered' = FALSE
    /\ UNCHANGED <<polling, sock, runner, run, runId, timers, queue, live, code, ledger, fatal>>

Poll == \/ Accept \/ PollHup \/ HandleCommandStop \/ RunRefused
        \/ \E t \in TimerIds, args \in Requests : RunBegins(t, args)
Start == StartTest \/ StartTestReturns \/ StartTestFails
Listener == \/ Obsolete \/ HandleTestResult \/ ExtensionIgnored
            \/ \E succeeds \in BOOLEAN : HandleTimeoutExtension(succeeds)
Shutdown == \/ LeaveLoop \/ RetireAllTimers \/ HarnessGlobalExit \/ Deregister
Environment ==
    \/ ClientConnects \/ ClientLeaves
    \/ \E r \in Runs :
          \/ Sends(r) \/ CannotSend(r)
          \/ \E kind \in {"result", "extension"} : ReadsRunId(r, kind)

Next == Poll \/ Start \/ Listener \/ Shutdown \/ Environment
            \/ \E t \in TimerIds : Timeout(t)

(* Core 0 goes on dispatching, polling and, once it has begun, shutting     *)
(* down; a poll callback returns; an armed timer expires.  Clients and test *)
(* code owe nothing, and nobody has to ask for a shutdown.                  *)
Fairness ==
    /\ WF_vars(Accept \/ PollHup) /\ WF_vars(Start) /\ WF_vars(Listener)
    /\ WF_vars(Shutdown /\ phase # "running")
    /\ \A t \in TimerIds : WF_vars(Timeout(t))

Spec == Init /\ [][Next]_vars /\ Fairness

-----------------------------------------------------------------------------
TypeOK ==
    /\ phase \in {"running", "starting", "draining", "exiting", "deregistering", "final"}
    /\ polling \in BOOLEAN /\ registered \in BOOLEAN /\ fatal \in BOOLEAN
    /\ conn \in [active : 0 .. MaxClients, pollable : {"listening", "connection"}]
    /\ open \subseteq {"listening", "connection"}
    /\ runner \in [state : {"Idle", "Busy"}, timer : TimerIds \cup {NoTimer}, test : BOOLEAN]
    /\ runId \in 0 .. MaxRuns /\ live \in Nat
    /\ timers \in [TimerIds -> [state : {"none", "idle", "armed", "retired"}, id : 0 .. MaxRuns]]

(* The runner holds a timer and a test case exactly while it is busy, and   *)
(* no timer or message outlives a test, whichever of result, timeout, stop, *)
(* hang-up, failed start or shutdown ended it; none of the assertions fails *)
(* and no test case is used after it was deleted.                           *)
NothingLeaks ==
    /\ TypeOK /\ ~fatal
    /\ runner.state = "Busy" => runner.test /\ registered /\ Exists(runner.timer)
    /\ \A t \in TimerIds : timers[t].state \in {"idle", "armed"} => t \in {runner.timer, run.timer}
    /\ live = Len(queue) + Cardinality({t \in TimerIds : timers[t].state = "armed"})

(* A test is ended by its own result or its own timeout, never by what an   *)
(* earlier run left in the queue.  The exception is code that went on       *)
(* running after its test was stopped and that asks for the number of the   *)
(* current run only then.                                                   *)
VerdictsBelong ==
    \A r \in Runs : ledger[r].verdict.how \in {"result", "timeout"}
        => ledger[r].verdict.of = r \/ ledger[r].verdict.late

(* A client that asks for a run is told how it ended exactly once, if the   *)
(* run ended by itself, and nobody else is; nothing is written to a closed  *)
(* descriptor, although the listener may run after the socket was closed.   *)
AnswersOnce ==
    \A r \in Runs :
        /\ ledger[r].answers = IF ledger[r].verdict.how \in {"none", "stopped", "hangup", "shutdown"}
                               THEN << >> ELSE <<ledger[r].asker>>
        /\ ledger[r].asker # 0 <=> r <= runId

(* StartTest is called with every parameter of the test case assigned, and  *)
(* none of them twice.                                                      *)
ParamsComplete ==
    phase = "starting" =>
        /\ Len(run.args) = Cardinality(Keys)
        /\ {run.args[i].key : i \in 1 .. Len(run.args)} = Keys

(* Every run that was asked for ends: a test whose report is lost times     *)
(* out, and one that is stopped, abandoned or overtaken by the shutdown     *)
(* does not keep the runner busy.                                           *)
EveryRunEnds ==
    \A r \in Runs : ledger[r].asker # 0 ~> ledger[r].verdict.how # "none"
=============================================================================
