------------------------------- MODULE MC_Session -------------------------------
(* Five small parts around the pipeline, each explored on its own: the state  *)
(* of a track and its set-up, an agent call in its backend, the judge, the    *)
(* test services, and the extension. They share no state. A behaviour picks a *)
(* part and takes its steps; the others stay at rest in an initial state, in  *)
(* which nothing is owed by their fairness.                                   *)
EXTENDS TrackSetup, AgentBackend, Judge, Services, ExtensionSession

VARIABLE part

Parts == {"setup", "backend", "judge", "services", "extension"}

sessionVars == <<setupVars, backendVars, judgeVars, servicesVars, extensionVars, part>>

\* The parts at rest need one initial state.
SessionInit ==
  /\ part \in Parts
  /\ SetupInit /\ (part # "setup" => wt = {})
  /\ BackendInit /\ JudgeInit /\ ServicesInit /\ ExtensionInit

SessionNext ==
  /\ UNCHANGED part
  /\ \/ part = "setup" /\ SetupNext /\ UNCHANGED <<backendVars, judgeVars, servicesVars, extensionVars>>
     \/ part = "backend" /\ BackendNext /\ UNCHANGED <<setupVars, judgeVars, servicesVars, extensionVars>>
     \/ part = "judge" /\ JudgeNext /\ UNCHANGED <<setupVars, backendVars, servicesVars, extensionVars>>
     \/ part = "services" /\ ServicesNext /\ UNCHANGED <<setupVars, backendVars, judgeVars, extensionVars>>
     \/ part = "extension" /\ ExtensionNext /\ UNCHANGED <<setupVars, backendVars, judgeVars, servicesVars>>

SessionSpec ==
  /\ SessionInit /\ [][SessionNext]_sessionVars
  /\ BackendFairness /\ ServicesFairness
=============================================================================
