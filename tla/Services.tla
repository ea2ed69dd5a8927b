------------------------------- MODULE Services -------------------------------
(* The test services of the verification (stages/lifecycle.ts): the bring-up *)
(* tries the candidates of a role one after the other on one port, waits for *)
(* an answer on it or the end of the process, and records what answered; the *)
(* tests of the roles run side by side; the teardown ends what is recorded   *)
(* (stages/verify/steps.ts, testBlock).                                      *)
(*                                                                           *)
(* A process is a started candidate: it is up, serves on its port, or is     *)
(* gone; it may ignore the request to end, but not the kill of the watchdog. *)
(* A port is named by the first process that may be started on it. A role is *)
(* recorded with the process whose start was under way when the port         *)
(* answered.                                                                 *)
EXTENDS Naturals, Sequences

CONSTANTS MaxCandidates,          \* candidates of a role
          MaxProcesses            \* bound on processes started

ASSUME ServicesAssumption == MaxCandidates \in Nat /\ MaxProcesses \in Nat

VARIABLES block,                  \* the test block: where it is
          process, started,       \* the processes started; their number
          local, services,        \* what the bring-up found; state.services
          tests,                  \* the tests of the roles
          taken,                  \* another program took a picked port
          lost,                   \* processes no record names any more
          cancelled, exited       \* the run is aborted; the program has ended

servicesVars == <<block, process, started, local, services, tests, taken, lost, cancelled, exited>>

Roles == {"api", "ui"}
Processes == 1..MaxProcesses
Resting == [pc |-> "off", todo |-> <<>>, candidate |-> 0, port |-> 0, current |-> 0]
NotStarted == [at |-> "none", told |-> FALSE, watched |-> FALSE, port |-> 0]
Nothing == [r \in Roles |-> 0]

ServicesTypeOK ==
  /\ block \in [pc : {"off", "pick", "ladder", "poll", "test", "down"}, todo : {<<>>, <<"api">>, <<"ui">>, <<"api", "ui">>},
                candidate : 0..MaxCandidates, port : 0..(MaxProcesses + 1), current : 0..MaxProcesses]
  /\ process \in [Processes -> [at : {"none", "up", "serving", "gone"}, told : BOOLEAN, watched : BOOLEAN,
                                port : 0..(MaxProcesses + 1)]]
  /\ started \in 0..MaxProcesses /\ lost \subseteq Processes
  /\ local \in [Roles -> 0..MaxProcesses] /\ services \in [Roles -> 0..MaxProcesses]
  /\ tests \in [Roles -> {"none", "running", "ended"}]
  /\ taken \in BOOLEAN /\ cancelled \in BOOLEAN /\ exited \in BOOLEAN

ServicesInit ==
  /\ block = Resting /\ process = [k \in Processes |-> NotStarted] /\ started = 0
  /\ local = Nothing /\ services = Nothing /\ tests = [r \in Roles |-> "none"]
  /\ taken = FALSE /\ lost = {} /\ cancelled = FALSE /\ exited = FALSE

Runs(k) == process[k].at \in {"up", "serving"}
Role == Head(block.todo)
Step(pc) == block' = [block EXCEPT !.pc = pc]
NextRole == block' = [Resting EXCEPT !.pc = "pick", !.todo = Tail(block.todo)]
NextCandidate == block' = [block EXCEPT !.pc = "ladder", !.candidate = @ + 1, !.current = 0]

\* Mutant: the process is asked to end, and nobody looks again.
AskOnly(P) == [k \in Processes |-> IF k \in P /\ Runs(k) THEN [process[k] EXCEPT !.told = TRUE] ELSE process[k]]

\* The processes of P are told to end; a watchdog comes back after the grace.
\* One that is gone is left alone.
stopService(P) ==
  [k \in Processes |-> IF k \in P /\ Runs(k) THEN [process[k] EXCEPT !.told = TRUE, !.watched = TRUE] ELSE process[k]]

(***************************************************************************)
(* The bring-up.                                                           *)
(***************************************************************************)

\* An attempt forgets the records of the one before. The roles follow from the
\* project.
resetIntegrationAttemptState ==
  /\ block.pc = "off" /\ ~exited /\ ~cancelled /\ started < MaxProcesses
  /\ \E todo \in {<<>>, <<"api">>, <<"ui">>, <<"api", "ui">>} :
       block' = [Resting EXCEPT !.pc = "pick", !.todo = todo]
  /\ services' = Nothing /\ local' = Nothing /\ tests' = [r \in Roles |-> "none"]
  /\ UNCHANGED <<process, started, taken, lost, cancelled, exited>>

\* A free port for the role, which another program may take before it is used;
\* without one the bring-up fails before it has recorded anything.
pickFreePort ==
  /\ block.pc = "pick" /\ block.todo # <<>> /\ ~exited
  /\ \/ /\ block' = [block EXCEPT !.pc = "ladder", !.port = started + 1]
        /\ taken' \in BOOLEAN /\ UNCHANGED lost
     \/ /\ Step("down") /\ lost' = lost \cup {k \in Processes : k \in {local[r] : r \in Roles}}
        /\ UNCHANGED taken
  /\ UNCHANGED <<process, started, local, services, tests, cancelled, exited>>

\* startService: a command that is refused starts nothing; any other is
\* started in a process group of its own. An aborted run tries no more, and
\* after the last candidate the role is left out.
startService ==
  /\ block.pc = "ladder" /\ ~exited
  /\ \/ /\ cancelled \/ block.candidate = MaxCandidates
        /\ NextRole /\ UNCHANGED <<process, started>>
     \/ /\ ~cancelled /\ block.candidate < MaxCandidates
        /\ NextCandidate /\ UNCHANGED <<process, started>>
     \/ /\ ~cancelled /\ block.candidate < MaxCandidates /\ started < MaxProcesses
        /\ started' = started + 1
        /\ process' = [process EXCEPT ![started + 1] = [NotStarted EXCEPT !.at = "up", !.port = block.port]]
        /\ block' = [block EXCEPT !.pc = "poll", !.current = started + 1]
  /\ UNCHANGED <<local, services, tests, taken, lost, cancelled, exited>>

AnsweredBy == {k \in Processes : process[k].at = "serving" /\ process[k].port = block.port}

\* waitForReady: the port answers while the process is there.
PortAnswers ==
  /\ block.pc = "poll" /\ ~exited /\ ~cancelled /\ Runs(block.current)
  /\ AnsweredBy # {} \/ taken
  /\ local' = [local EXCEPT ![Role] = block.current] /\ NextRole
  /\ UNCHANGED <<process, started, services, tests, taken, lost, cancelled, exited>>

\* Mutant: a candidate that does not answer is left behind.
LeaveRunning == {}

Failed == {block.current}

\* The wait is over: the time is up, the process ended, or the run is aborted.
\* The candidate is told to end, and the next one has the same port.
NotReady ==
  /\ block.pc = "poll" /\ ~exited
  /\ process' = stopService(Failed) /\ NextCandidate
  /\ UNCHANGED <<started, local, services, tests, taken, lost, cancelled, exited>>

(***************************************************************************)
(* The tests and the teardown.                                             *)
(***************************************************************************)

\* bringupTask ends: now the services are recorded. A test without its service
\* is skipped; an aborted run starts none.
bringupTask ==
  /\ block.pc = "pick" /\ block.todo = <<>> /\ ~exited
  /\ services' = local
  /\ tests' = [r \in Roles |-> IF local[r] # 0 /\ ~cancelled THEN "running" ELSE "none"]
  /\ Step("test")
  /\ UNCHANGED <<process, started, local, taken, lost, cancelled, exited>>

TestEnds(r) ==
  /\ block.pc = "test" /\ tests[r] = "running" /\ ~exited
  /\ tests' = [tests EXCEPT ![r] = "ended"]
  /\ UNCHANGED <<block, process, started, local, services, taken, lost, cancelled, exited>>

TestsEnd ==
  /\ block.pc = "test" /\ ~exited /\ \A r \in Roles : tests[r] # "running"
  /\ Step("down")
  /\ UNCHANGED <<process, started, local, services, tests, taken, lost, cancelled, exited>>

\* The finally of the test block, whatever happened in it.
teardownNode ==
  /\ block.pc = "down" /\ ~exited
  /\ process' = stopService({services[r] : r \in Roles}) /\ block' = Resting
  /\ UNCHANGED <<started, local, services, tests, taken, lost, cancelled, exited>>

\* After the grace: what is still there is killed.
Watchdog(k) ==
  /\ process[k].watched /\ ~exited
  /\ process' = [process EXCEPT ![k].watched = FALSE, ![k].at = "gone"]
  /\ UNCHANGED <<block, started, local, services, tests, taken, lost, cancelled, exited>>

(***************************************************************************)
(* The processes, and what happens to the run.                             *)
(***************************************************************************)

\* Only one program can have the port.
Serve(k) ==
  /\ process[k].at = "up" /\ ~(taken /\ process[k].port = block.port)
  /\ \A j \in Processes : process[j].at = "serving" => process[j].port # process[k].port
  /\ process' = [process EXCEPT ![k].at = "serving"]
  /\ UNCHANGED <<block, started, local, services, tests, taken, lost, cancelled, exited>>

ProcessEnds(k) ==
  /\ Runs(k)
  /\ process' = [process EXCEPT ![k].at = "gone"]
  /\ UNCHANGED <<block, started, local, services, tests, taken, lost, cancelled, exited>>

Cancel ==
  /\ ~cancelled /\ cancelled' = TRUE
  /\ UNCHANGED <<block, process, started, local, services, tests, taken, lost, exited>>

\* The program ends; the timers of its watchdogs do not keep it.
Exit ==
  /\ ~exited /\ exited' = TRUE
  /\ UNCHANGED <<block, process, started, local, services, tests, taken, lost, cancelled>>

BlockStep ==
  \/ pickFreePort \/ startService \/ PortAnswers \/ NotReady \/ bringupTask
  \/ (\E r \in Roles : TestEnds(r)) \/ TestsEnd \/ teardownNode

ServicesNext ==
  \/ resetIntegrationAttemptState \/ BlockStep \/ Cancel \/ Exit
  \/ \E k \in Processes : Watchdog(k) \/ Serve(k) \/ ProcessEnds(k)

ServicesSpec == ServicesInit /\ [][ServicesNext]_servicesVars

\* A wait has its time limit, tests their agents' timeouts, and timers fire.
\* A process need not serve, and need not end.
ServicesFairness ==
  /\ WF_servicesVars(BlockStep)
  /\ \A k \in Processes : WF_servicesVars(Watchdog(k))

-----------------------------------------------------------------------------
\* A process that was started ends, a candidate that failed and one that
\* ignores the request included, unless the program ended before its watchdog,
\* or the bring-up failed while it was the only one to know of it
\* (lifecycle.ts, stopService and teardownNode).
ServicesGo ==
  \A k \in Processes : Runs(k) ~> ~Runs(k) \/ exited \/ k \in lost

\* A role is recorded as ready only because its own process answered, or a
\* candidate before it that had been told to end and still held the port, or
\* another program that took it (lifecycle.ts, tryStartService).
ReadyIsOwn ==
  [][\A r \in Roles : local'[r] \notin {0, local[r]} =>
       taken \/ \A k \in AnsweredBy : k = local'[r] \/ process[k].told]_servicesVars
===============================================================================
