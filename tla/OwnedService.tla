---------------------------- MODULE OwnedService ----------------------------
(***************************************************************************)
(* The application under test and the processes around it: OwnedApp of      *)
(* framework/runtime/service.py, the runner that uses it under the          *)
(* workbench lock (scripts/run_local.py), pytest sessions that start an     *)
(* application of their own (framework/plugins/configuration.py), and what  *)
(* a test asks of the application before it begins (fixtures.py).           *)
(*                                                                          *)
(* An owner enters one "with OwnedApp" block, and its name stands for the   *)
(* instance identifier and the control token too.  All of them are          *)
(* configured for the same port.  Time is abstract: a deadline may pass     *)
(* whenever it is waited for.                                               *)
(***************************************************************************)
CONSTANTS
    None,
    Runners,   \* executions of scripts/run_local.py
    Sessions,  \* pytest sessions started by hand
    Stranger   \* any other program that may listen on the port

Owners == Runners \cup Sessions

ASSUME OwnersAssumption ==
    /\ Runners \cap Sessions = {}
    /\ Stranger \notin Owners /\ None \notin Owners \cup {Stranger}

VARIABLES
    pc,       \* where each owner is
    lock,     \* the runner that holds .local/workbench.lock
    port,     \* who listens on the port
    app,      \* the process of each owner's application
    suite,    \* the pytest process of each owner
    test,     \* the test in progress in that process
    outcome,  \* how the with block of each owner has fared so far
    record,   \* process.json of each attempt
    crashed,  \* some application has died of itself
    wiped,    \* some test has reset an application its run did not start
    strayed   \* ... has used one, before any application had crashed

vars == <<pc, lock, port, app, suite, test, outcome, record, crashed, wiped, strayed>>
history == <<crashed, wiped, strayed>>

Places == {"idle", "waiting", "inside", "stopping", "terminating", "killing", "leaving",
           "out", "dead"}

NoOutcome == [completed |-> FALSE, error |-> "none"]

Init ==
    /\ pc = [o \in Owners |-> "idle"]
    /\ lock = None /\ port \in {None, Stranger}
    /\ app = [o \in Owners |-> "none"]
    /\ suite = [o \in Owners |-> "none"]
    /\ test = [o \in Owners |-> "none"]
    /\ outcome = [o \in Owners |-> NoOutcome]
    /\ record = [o \in Owners |-> None]
    /\ crashed = FALSE /\ wiped = FALSE /\ strayed = FALSE

Go(o, from, to) == pc[o] = from /\ pc' = [pc EXCEPT ![o] = to]

(* An exception leaves the block by way of to; the runner expects OSError,  *)
(* RuntimeError and TimeoutExpired ("caught") and nothing else.             *)
Raise(o, from, to, error) ==
    /\ Go(o, from, to)
    /\ outcome' = [outcome EXCEPT ![o].error = error]

----------------------------------------------------------------------------
(* OwnedApp.__enter__() *)

(* A runner whose lock is taken is rejected and never gets here.  The probe *)
(* binds the port and lets go of it again; what happens to the port between *)
(* that and uvicorn's own bind is in Bind.  The log is opened outside the   *)
(* try block, the process is started inside it: neither failure leaves one. *)
Enter(o) ==
    /\ o \in Runners => lock = None
    /\ lock' = IF o \in Runners THEN o ELSE lock
    /\ \/ port = None /\ Go(o, "idle", "waiting")
          /\ app' = [app EXCEPT ![o] = "starting"] /\ UNCHANGED outcome
       \/ Raise(o, "idle", "leaving", "caught") /\ UNCHANGED app
    /\ UNCHANGED <<port, suite, test, record, history>>

Alive(o) == app[o] \in {"starting", "serving", "stopping"}

AnswersAsOwn(o) == port = o

(* Mutant: the application is left running when its start fails. *)
FailWithoutStop(o, error) == Raise(o, "waiting", "leaving", error)

FailToStart(o, error) == Raise(o, "waiting", "stopping", error)

(* One round of the readiness loop: the process has exited, somebody else   *)
(* answers, or the answer is this application's.  Strangers may answer with *)
(* an identity, with JSON that has none ("escaped": no attribute get) or    *)
(* with something the loop passes over.                                     *)
Ready(o) ==
    /\ AnswersAsOwn(o)
    /\ Go(o, "waiting", "inside")
    /\ suite' = IF o \in Sessions THEN [suite EXCEPT ![o] = "running"] ELSE suite
    /\ UNCHANGED <<lock, port, app, test, outcome, record, history>>

NotReady(o) ==
    /\ \/ ~ Alive(o) /\ FailToStart(o, "caught")
       \/ port # None /\ ~ AnswersAsOwn(o) /\ FailToStart(o, "caught")
       \/ port = Stranger /\ FailToStart(o, "escaped")
    /\ UNCHANGED <<lock, port, app, suite, test, record, history>>

Deadline(o) ==
    /\ FailToStart(o, "caught")
    /\ UNCHANGED <<lock, port, app, suite, test, record, history>>

----------------------------------------------------------------------------
(* The body of the block *)

(* The runner starts pytest; the log or the process may fail. *)
StartSuite(o) ==
    /\ o \in Runners /\ suite[o] = "none"
    /\ \/ suite' = [suite EXCEPT ![o] = "running"] /\ pc[o] = "inside" /\ UNCHANGED <<pc, outcome>>
       \/ Raise(o, "inside", "stopping", "caught") /\ UNCHANGED suite
    /\ UNCHANGED <<lock, port, app, test, record, history>>

SuiteEnds(o) ==
    /\ suite[o] = "running" /\ test[o] = "none"
    /\ suite' = [suite EXCEPT ![o] = "over"]
    /\ UNCHANGED <<pc, lock, port, app, test, outcome, record, history>>

SuiteReturns(o) ==
    /\ suite[o] = "over"
    /\ Go(o, "inside", "stopping")
    /\ outcome' = IF o \in Runners THEN [outcome EXCEPT ![o].completed = TRUE] ELSE outcome
    /\ UNCHANGED <<lock, port, app, suite, test, record, history>>

(* Mutant: a suite that runs out of time is not waited for. *)
LeaveSuite(o) == UNCHANGED <<suite, test>>

KillSuite(o) == suite' = [suite EXCEPT ![o] = "killed"] /\ test' = [test EXCEPT ![o] = "none"]

(* Mutant: --timeout is not handed to subprocess.run().                     *)
Unlimited(o) == FALSE

Limited(o) == o \in Runners

(* subprocess.run() kills pytest when --timeout passes. *)
Timeout(o) ==
    /\ Limited(o) /\ suite[o] = "running"
    /\ Raise(o, "inside", "stopping", "caught")
    /\ KillSuite(o)
    /\ UNCHANGED <<lock, port, app, record, history>>

(* Ctrl-C: the block is left by an exception nobody expects, stop() too.    *)
Interrupt(o) ==
    /\ \/ Raise(o, "waiting", "stopping", "escaped") /\ UNCHANGED <<suite, test>>
       \/ Raise(o, "inside", "stopping", "escaped") /\ KillSuite(o)
       \/ /\ \E from \in {"stopping", "terminating", "killing"} :
               Raise(o, from, "leaving", "escaped")
          /\ UNCHANGED <<suite, test>>
    /\ UNCHANGED <<lock, port, app, record, history>>

----------------------------------------------------------------------------
(* stop() *)

(* Mutant: whoever listens on the port is asked to stop. *)
Holder(o) == IF port \in Owners THEN port ELSE o

Child(o) == o

Terminate(o) ==
    /\ \/ ~ Alive(o) /\ Go(o, "stopping", "leaving") /\ UNCHANGED app
       \/ /\ Alive(o) /\ Go(o, "stopping", "terminating")
          /\ app' = [app EXCEPT ![Child(o)] = "stopping"]
    /\ UNCHANGED <<lock, port, suite, test, outcome, record, history>>

(* Either wait ends; the first that does not is followed by a kill, the     *)
(* second raises.                                                           *)
Stopped(o) ==
    /\ ~ Alive(o)
    /\ Go(o, "terminating", "leaving") \/ Go(o, "killing", "leaving")
    /\ UNCHANGED <<lock, port, app, suite, test, outcome, record, history>>

Kill(o) ==
    /\ Go(o, "terminating", "killing")
    /\ UNCHANGED <<lock, port, app, suite, test, outcome, record, history>>

GiveUp(o) ==
    /\ Raise(o, "killing", "leaving", IF outcome[o].error = "escaped" THEN "escaped" ELSE "caught")
    /\ UNCHANGED <<lock, port, app, suite, test, record, history>>

(* Mutant: the lock outlives its holder.                                    *)
KeepLock(o) == lock

Release(o) == IF lock = o THEN None ELSE lock

(* process.json is written, unless the exception was not expected, and the  *)
(* lock is released; a session has neither.                                 *)
Leave(o) ==
    /\ Go(o, "leaving", "out")
    /\ record' = IF o \in Runners /\ outcome[o].error # "escaped"
                 THEN [record EXCEPT ![o] = outcome[o]] ELSE record
    /\ lock' = Release(o)
    /\ UNCHANGED <<port, app, suite, test, outcome, history>>

(* The owner is killed.  Its application lives on, and so does the pytest   *)
(* process of a runner; a session is the pytest process.                    *)
Die(o) ==
    /\ pc[o] \notin {"idle", "out", "dead"}
    /\ pc' = [pc EXCEPT ![o] = "dead"]
    /\ lock' = Release(o)
    /\ IF o \in Sessions THEN KillSuite(o) ELSE UNCHANGED <<suite, test>>
    /\ outcome' = [outcome EXCEPT ![o] = NoOutcome]
    /\ UNCHANGED <<port, app, record, history>>

----------------------------------------------------------------------------
(* The tests of a suite, orphaned or not *)

(* clean_business_state: /health must name the own instance, ... *)
Identify(o) ==
    /\ suite[o] = "running" /\ test[o] = "none" /\ port = o
    /\ test' = [test EXCEPT ![o] = "identified"]
    /\ UNCHANGED <<pc, lock, port, app, suite, outcome, record, history>>

(* Mutant: an application does not compare the control token. *)
AcceptsAnyReset(target, o) == target \in Owners

AcceptsReset(target, o) == target = o

(* ... then its data is reset; a refusal is the end of the test. *)
Reset(o) ==
    /\ test[o] = "identified"
    /\ IF AcceptsReset(port, o)
       THEN /\ test' = [test EXCEPT ![o] = "clean"]
            /\ wiped' = (wiped \/ port # o)
       ELSE /\ test' = [test EXCEPT ![o] = "none"]
            /\ UNCHANGED wiped
    /\ UNCHANGED <<pc, lock, port, app, suite, outcome, record, crashed, strayed>>

(* A page or a client of the test asks whoever listens on the port. *)
Use(o) ==
    /\ test[o] = "clean" /\ port # None
    /\ strayed' = (strayed \/ (port # o /\ ~ crashed))
    /\ UNCHANGED <<pc, lock, port, app, suite, test, outcome, record, crashed, wiped>>

EndTest(o) ==
    /\ test[o] = "clean"
    /\ test' = [test EXCEPT ![o] = "none"]
    /\ UNCHANGED <<pc, lock, port, app, suite, outcome, record, history>>

----------------------------------------------------------------------------
(* The application processes and the port *)

Exits(o) ==
    /\ app' = [app EXCEPT ![o] = "exited"]
    /\ port' = IF port = o THEN None ELSE port
    /\ UNCHANGED <<pc, lock, suite, test, outcome, record, wiped, strayed>>

(* uvicorn binds the port, or exits because it is taken. *)
Bind(o) ==
    /\ app[o] = "starting"
    /\ \/ /\ port = None /\ port' = o
          /\ app' = [app EXCEPT ![o] = "serving"]
          /\ UNCHANGED <<pc, lock, suite, test, outcome, record, wiped, strayed>>
       \/ port # None /\ Exits(o)
    /\ UNCHANGED crashed

(* After a signal, sooner or later or never. *)
Obey(o) == app[o] = "stopping" /\ Exits(o) /\ UNCHANGED crashed

Crash(o) == app[o] \in {"starting", "serving"} /\ Exits(o) /\ crashed' = TRUE

StrangerMoves ==
    /\ \/ port = None /\ port' = Stranger
       \/ port = Stranger /\ port' = None
    /\ UNCHANGED <<pc, lock, app, suite, test, outcome, record, history>>

OwnerStep(o) ==
    \/ Ready(o) \/ NotReady(o) \/ Deadline(o) \/ StartSuite(o)
    \/ SuiteReturns(o) \/ Timeout(o) \/ Terminate(o) \/ Stopped(o) \/ Kill(o) \/ GiveUp(o)
    \/ Leave(o)

TestStep(o) == SuiteEnds(o) \/ Identify(o) \/ Reset(o) \/ Use(o) \/ EndTest(o)

Next ==
    \/ \E o \in Owners : \/ Enter(o) \/ OwnerStep(o) \/ Interrupt(o) \/ Die(o) \/ TestStep(o)
                         \/ Bind(o) \/ Obey(o) \/ Crash(o)
    \/ StrangerMoves

Spec == Init /\ [][Next]_vars

(* Only the owner's own steps and the clocks it waits on are fair: neither  *)
(* pytest nor the application has to make progress.                         *)
FairSpec == Spec /\ \A o \in Owners : WF_vars(OwnerStep(o))

----------------------------------------------------------------------------
(* Properties *)

(* Types; the workbench lock is held by a runner that is alive and inside,  *)
(* and a port that is taken by an application has a process.                *)
TypeOK ==
    /\ pc \in [Owners -> Places]
    /\ lock \in Runners \cup {None} /\ port \in Owners \cup {Stranger, None}
    /\ app \in [Owners -> {"none", "starting", "serving", "stopping", "exited"}]
    /\ suite \in [Owners -> {"none", "running", "over", "killed"}]
    /\ test \in [Owners -> {"none", "identified", "clean"}]
    /\ outcome \in [Owners -> [completed : BOOLEAN, error : {"none", "caught", "escaped"}]]
    /\ crashed \in BOOLEAN /\ wiped \in BOOLEAN /\ strayed \in BOOLEAN
    /\ \A o \in Runners : lock = o <=> pc[o] \notin {"idle", "out", "dead"}
    /\ \A o \in Owners : port = o => app[o] \in {"serving", "stopping"}
    /\ \A o \in Owners : record[o] # None => record[o] = outcome[o]

(* No test resets the data of an application its own run did not start,     *)
(* though the application it has just identified may die and another one    *)
(* take the port before the reset arrives (clean_business_state, reset()).  *)
NobodyElseIsReset == ~ wiped

(* As long as no application dies of itself, every test uses its own: a     *)
(* failed start, a suite that runs out of time, a killed runner with its    *)
(* orphans and the next owner on the same port never mix.                   *)
SuitesStayApart == ~ strayed

(* An owner that leaves its block leaves no application behind, whether it  *)
(* failed to start, was late, timed out or crashed: only one that ignores a *)
(* kill, and then the error says so, or a second Ctrl-C during stop().      *)
NothingLeftRunning ==
    \A o \in Owners : (pc[o] = "out" /\ Alive(o)) =>
        \/ outcome[o].error = "escaped"
        \/ outcome[o].error = "caught" /\ app[o] = "stopping"

(* Only its own owner stops an application that works (the module's         *)
(* docstring: "Never ... terminate an unrelated service").                  *)
OnlyOwnIsStopped ==
    \A o \in Owners : app[o] = "stopping" =>
        pc[o] \in {"terminating", "killing", "leaving", "out", "dead"}

(* A process.json describes a suite that is over, and says completed only   *)
(* of one that ended by itself, with an application that is stopped or has  *)
(* been told to, though stop() runs after completed is set and may fail.    *)
RecordIsFinal ==
    \A o \in Runners : record[o] # None =>
        /\ suite[o] # "running"
        /\ record[o].completed => suite[o] = "over" /\ app[o] \in {"stopping", "exited"}

(* A runner comes back from its block, though the application may never     *)
(* answer, pytest may hang and both may ignore every signal: each wait has  *)
(* its limit.  It may be killed before.                                     *)
RunnersLeave == \A o \in Runners : (pc[o] = "waiting") ~> (pc[o] \in {"out", "dead"})
=============================================================================
