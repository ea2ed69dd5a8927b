--------------------------- MODULE ExtensionSession ---------------------------
(* The extension around a run (extension.ts, extension/): which runs may     *)
(* start, when a reload has evaluated the module anew and the run of the old *)
(* evaluation goes on; what the user types while a run is active; and the    *)
(* background work of ended runs, which a shutdown of the session names.     *)
(*                                                                           *)
(* Evaluation k of the module has its own inFlight, activeRun and registry;  *)
(* the guard belongs to the process, and is named by the run whose token it  *)
(* holds. A spec is named by the run that made it. A note is a typed input   *)
(* that was accepted; what it says is left out, and so is input the          *)
(* extension lets pass. A pipeline is what the other modules model: here it  *)
(* starts agents, is restarted after a replan, or ends.                      *)
EXTENDS Naturals, FiniteSets, SequencesExt

CONSTANTS Execs, NoExec,
          MaxModules,             \* bound on evaluations of the module
          MaxNotes,               \* bound on inputs
          MaxQueued,              \* MAX_QUEUED_INPUTS
          MaxReplanRounds,        \* maxReplanRounds()
          MaxMisses               \* bound on reads and writes of the notes that fail

ASSUME ExtensionAssumption ==
  /\ NoExec \notin Execs /\ MaxModules \in Nat \ {0} /\ MaxNotes \in Nat
  /\ MaxQueued \in Nat \ {0} /\ MaxReplanRounds \in Nat /\ MaxMisses \in Nat

VARIABLES module, quit,           \* the evaluation in service; the process is gone
          inFlight, activeRun, pending,  \* the state of each evaluation
          guard,                  \* the run guard of the process
          exec,                   \* the calls of execute
          working,                \* background work that has not settled
          note,                   \* the notes accepted, in order
          notesFile,              \* .user-notes.json of each spec
          prompted,               \* the notes in the prompt of each run's last agent
          misses,
          latest, forced, named   \* history: the last run admitted; those the hatch let in; what the last shutdown named

extensionVars == <<module, quit, inFlight, activeRun, pending, guard, exec, working, note, notesFile,
                   prompted, misses, latest, forced, named>>

Modules == 1..MaxModules
Notes == 1..MaxNotes
Kinds == {"reflection", "post-mortem"}
Begun == {{"reflection"}, Kinds}
Work == Execs \X Kinds
Called == [at |-> "none", mod |-> 0, spec |-> NoExec, restarts |-> 0, queue |-> <<>>]

ExtensionTypeOK ==
  /\ module \in Modules /\ quit \in BOOLEAN /\ misses \in 0..MaxMisses
  /\ inFlight \in [Modules -> BOOLEAN] /\ activeRun \in [Modules -> Execs \cup {NoExec}]
  /\ pending \in [Modules -> SUBSET Work] /\ working \subseteq Work
  /\ guard \in Execs \cup {NoExec} /\ latest \in Execs \cup {NoExec} /\ forced \subseteq Execs
  /\ DOMAIN exec = Execs
  /\ \A e \in Execs : /\ exec[e].at \in {"none", "refused", "running", "asking", "ended"}
                      /\ exec[e].mod \in 0..MaxModules /\ exec[e].spec \in Execs \cup {NoExec}
                      /\ exec[e].restarts \in 0..MaxReplanRounds
                      /\ exec[e].queue \in Seq(Notes) /\ Len(exec[e].queue) <= MaxQueued
  /\ note \in Seq([by : Execs, due : SUBSET Execs, fate : {"queued", "stored", "crowded", "unsaved", "forgotten", "late"}])
  /\ Len(note) <= MaxNotes
  /\ notesFile \in [Execs -> SUBSET Notes] /\ prompted \in [Execs -> SUBSET Notes]
  /\ named \subseteq Execs \X (Kinds \cup {"run"})

ExtensionInit ==
  /\ module = 1 /\ quit = FALSE /\ misses = 0
  /\ inFlight = [k \in Modules |-> FALSE] /\ activeRun = [k \in Modules |-> NoExec]
  /\ pending = [k \in Modules |-> {}] /\ working = {}
  /\ guard = NoExec /\ latest = NoExec /\ forced = {} /\ named = {}
  /\ exec = [e \in Execs |-> Called] /\ note = <<>>
  /\ notesFile = [e \in Execs |-> {}] /\ prompted = [e \in Execs |-> {}]

Live(e) == exec[e].at \in {"running", "asking"}
Fates(S, f) == [n \in DOMAIN note |-> IF n \in S THEN [note[n] EXCEPT !.fate = f] ELSE note[n]]

(***************************************************************************)
(* Runs start and end.                                                     *)
(***************************************************************************)

\* Mutant: only the flag of the module is asked.
RefusedInModule(hatch) == inFlight[module]

\* Within an evaluation one run at a time; across them the guard, which the
\* escape hatch (SUPER_DEV_ALLOW_OVERLAP) ignores.
Refused(hatch) == inFlight[module] \/ (guard # NoExec /\ ~hatch)

\* A call of the tool: refused, or a run on a spec of its own or on one it
\* resumes.
Execute(e) ==
  /\ exec[e].at = "none" /\ ~quit
  /\ \E hatch \in BOOLEAN :
       \/ /\ Refused(hatch) /\ exec' = [exec EXCEPT ![e].at = "refused"]
          /\ UNCHANGED <<inFlight, activeRun, guard, latest, forced>>
       \/ /\ ~Refused(hatch)
          /\ inFlight' = [inFlight EXCEPT ![module] = TRUE]
          /\ activeRun' = [activeRun EXCEPT ![module] = e]
          /\ guard' = e /\ latest' = e
          /\ forced' = IF hatch /\ guard # NoExec THEN forced \cup {e} ELSE forced
          /\ \E spec \in {e} \cup ({exec[x].spec : x \in Execs} \ {NoExec}) :
               exec' = [exec EXCEPT ![e].at = "running", ![e].mod = module, ![e].spec = spec]
  /\ UNCHANGED <<module, quit, pending, working, note, notesFile, prompted, misses, named>>

\* A run releases the guard it holds, not another's.
releaseRunGuard(e) == guard' = IF guard = e THEN NoExec ELSE guard

\* Mutant: a single slot, which a later run's work overwrites.
SingleSlot(e, kinds) ==
  IF kinds = {} THEN pending ELSE [pending EXCEPT ![exec[e].mod] = {<<e, k>> : k \in kinds}]

\* Work that has begun is registered until it settles.
noteInFlightReflection(e, kinds) ==
  [pending EXCEPT ![exec[e].mod] = @ \cup {<<e, k>> : k \in kinds}]

\* The end of doRun, with the background work it has begun. What is still
\* queued goes with the run.
EndRun(e, kinds) ==
  /\ pending' = noteInFlightReflection(e, kinds)
  /\ working' = working \cup {<<e, k>> : k \in kinds}
  /\ inFlight' = [inFlight EXCEPT ![exec[e].mod] = FALSE]
  /\ releaseRunGuard(e)
  /\ activeRun' = [activeRun EXCEPT ![exec[e].mod] = NoExec]
  /\ note' = Fates(ToSet(exec[e].queue), "late")
  /\ exec' = [exec EXCEPT ![e].at = "ended", ![e].queue = <<>>]
  /\ UNCHANGED <<module, quit, notesFile, prompted, misses, latest, forced, named>>

\* The pipeline returns: a replan restarts it on its spec, a stagnation that
\* nobody was asked about yet asks the user, anything else ends the run. A
\* reflection is begun at every end, a post-mortem for a run that did
\* not succeed.
PipelineReturns(e) ==
  /\ exec[e].at = "running" /\ ~quit
  /\ \/ /\ exec[e].restarts < MaxReplanRounds
        /\ exec' = [exec EXCEPT ![e].restarts = @ + 1]
        /\ UNCHANGED <<module, quit, inFlight, activeRun, pending, guard, working, note, notesFile, prompted,
                       misses, latest, forced, named>>
     \/ /\ exec' = [exec EXCEPT ![e].at = "asking"]
        /\ UNCHANGED <<module, quit, inFlight, activeRun, pending, guard, working, note, notesFile, prompted,
                       misses, latest, forced, named>>
     \/ \E kinds \in Begun : EndRun(e, kinds)

\* The answer, or the end of the wait for it.
StagnationAnswered(e) ==
  /\ exec[e].at = "asking" /\ ~quit
  /\ \E kinds \in Begun : EndRun(e, kinds)

\* The launch or the pipeline throws: no background work is begun.
PipelineThrows(e) == exec[e].at = "running" /\ ~quit /\ EndRun(e, {})

(***************************************************************************)
(* Input while a run is active.                                            *)
(***************************************************************************)

\* An interactive line for the run of the evaluation in service; the oldest
\* is dropped when too many wait.
InputAccepted ==
  LET e == activeRun[module] IN
  /\ ~quit /\ e # NoExec /\ Len(note) < MaxNotes
  /\ LET queue == Append(exec[e].queue, Len(note) + 1)
         full == Len(queue) > MaxQueued
     IN /\ exec' = [exec EXCEPT ![e].queue = IF full THEN Tail(queue) ELSE queue]
        /\ note' = Append(Fates(IF full THEN {Head(queue)} ELSE {}, "crowded"),
                          [by |-> e, due |-> {}, fate |-> "queued"])
  /\ UNCHANGED <<module, quit, inFlight, activeRun, pending, guard, working, notesFile, prompted, misses,
                 latest, forced, named>>

\* Mutant: the prompt is assembled before the drained notes are in the file.
InjectedBefore(e, kept) == notesFile[exec[e].spec]

\* What userNotesForAgent finds after the append.
Injected(e, kept) == kept

\* An agent is started: the queue is drained into the file of the spec, whose
\* notes go into the prompt. A file that cannot be read counts as empty, and
\* is written with what was drained; a failed write loses what was drained.
StartAgent(e) ==
  /\ exec[e].at = "running" /\ ~quit
  /\ \E failed \in {"nothing", "read", "write"} :
       LET spec == exec[e].spec
           drained == ToSet(exec[e].queue)
           lose == IF failed = "read" /\ drained # {} THEN notesFile[spec] ELSE {}
           kept == IF failed = "write" THEN notesFile[spec] ELSE (notesFile[spec] \ lose) \cup drained
       IN /\ failed # "nothing" => misses < MaxMisses /\ drained # {}
          /\ misses' = IF failed = "nothing" THEN misses ELSE misses + 1
          /\ notesFile' = [notesFile EXCEPT ![spec] = kept]
          /\ prompted' = [prompted EXCEPT ![e] = Injected(e, kept)]
          /\ note' = [n \in DOMAIN note |->
               [note[n] EXCEPT !.fate = CASE n \in lose -> "forgotten"
                                          [] n \in drained -> IF failed = "write" THEN "unsaved" ELSE "stored"
                                          [] OTHER -> @,
                               !.due = IF note[n].by = e \/ (note[n].fate = "stored" /\ exec[note[n].by].spec = spec)
                                       THEN @ \cup {e} ELSE @]]
          /\ exec' = [exec EXCEPT ![e].queue = <<>>]
  /\ UNCHANGED <<module, quit, inFlight, activeRun, pending, guard, working, latest, forced, named>>

(***************************************************************************)
(* Background work, and the end of a session.                              *)
(***************************************************************************)

\* An entry leaves the registry when its work settles.
Unlisted(w) == [k \in Modules |-> pending[k] \ {w}]

Settle ==
  /\ ~quit
  /\ \E w \in working : working' = working \ {w} /\ pending' = Unlisted(w)
  /\ UNCHANGED <<module, quit, inFlight, activeRun, guard, exec, note, notesFile, prompted, misses, latest,
                 forced, named>>

\* session_shutdown, once for each evaluation: its run and its pending work
\* are named. A reload evaluates the module again; the process may also end.
SessionShutdown ==
  /\ ~quit
  /\ named' = pending[module]
                \cup (IF inFlight[module] /\ activeRun[module] # NoExec THEN {<<activeRun[module], "run">>} ELSE {})
  /\ pending' = [pending EXCEPT ![module] = {}]
  /\ \/ module < MaxModules /\ module' = module + 1 /\ UNCHANGED quit
     \/ quit' = TRUE /\ UNCHANGED module
  /\ UNCHANGED <<inFlight, activeRun, guard, exec, working, note, notesFile, prompted, misses, latest, forced>>

ExtensionNext ==
  \/ \E e \in Execs : \/ Execute(e) \/ PipelineReturns(e) \/ StagnationAnswered(e) \/ PipelineThrows(e)
                      \/ StartAgent(e)
  \/ InputAccepted \/ Settle \/ SessionShutdown

ExtensionSpec == ExtensionInit /\ [][ExtensionNext]_extensionVars

(***************************************************************************)
(* Properties.                                                             *)
(***************************************************************************)

\* While nobody has used the escape hatch one run is active in the process,
\* reloads or not; and the run admitted last is guarded to its end, whichever
\* other run ends before it (runGuardRefusal, releaseRunGuard).
GuardHolds ==
  /\ forced = {} => Cardinality({e \in Execs : Live(e)}) <= 1
  /\ latest # NoExec /\ Live(latest) => guard = latest

\* An accepted input is in the prompt of the next agent of its run and of every
\* later agent of that spec, also after a replan and in a resumed run, unless
\* the bound pushed it out or the file could not be read or written
\* (buildPromptAndGuards: drained, kept, injected).
NoteReachesAgents ==
  \A n \in DOMAIN note : note[n].fate \notin {"crowded", "unsaved", "forgotten"} =>
    \A e \in note[n].due : n \in prompted[e]

\* A shutdown names the run and the background work of its evaluation that are
\* under way, all of them and nothing that has settled (reportSessionShutdown).
ShutdownIsHonest ==
  [][(module' # module \/ quit' # quit) =>
       named' = {w \in working : exec[w[1]].mod = module}
                  \cup {<<e, "run">> : e \in {x \in Execs : Live(x) /\ exec[x].mod = module}}]_extensionVars
=============================================================================
