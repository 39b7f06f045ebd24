--------------------------- MODULE RequestLedger ---------------------------
(***************************************************************************)
(* The logical-request ledger of the local runner: scripts/run_local.py    *)
(* execute(), over reserve(), finish() and invocation_result() of          *)
(* framework/ai/requests.py.                                               *)
(*                                                                         *)
(* A caller is one operating-system process running scripts.run_local.  It *)
(* takes the file lock .local/request-ledger.lock without waiting, turns a *)
(* logical request into a reservation, a cached answer or a refusal, lets  *)
(* _execute_once make one attempt for a reservation, and records the       *)
(* outcome.  Records and attempts are files: they survive a killed caller, *)
(* the lock does not, and a write that is cut short leaves a record nobody *)
(* can parse ("torn").  What happens inside an attempt is kept to the      *)
(* facts the ledger depends on: was the process completed, did the receipt *)
(* get written, what does the evidence say.                                *)
(***************************************************************************)
EXTENDS Integers, Sequences, FiniteSets

CONSTANTS
    Callers,         \* runner processes
    Runs,            \* run directories below reports/runs
    Generated,       \* the runs executed with a plan; the others are baselines
    Requests,        \* logical request identifiers
    Values,          \* fingerprints of inputs, sources, origin and selection
    None,            \* a JSON null, a missing field or nobody
    MaxInvocations   \* bound on the number of invocations explored

ASSUME LedgerAssumption ==
    /\ Generated \subseteq Runs
    /\ MaxInvocations \in Nat
    /\ None \notin Callers \cup {0, 1, 2}

VARIABLES
    lock,      \* holder of the ledger lock
    pc,        \* where each caller is in execute()
    call,      \* arguments of the call in progress
    work,      \* outcome a caller holds in its local variables
    ledger,    \* requests/<request>.json of every run
    attempts,  \* the attempt directories run.json lists, in order
    planned,   \* run.json records a plan hash
    inputs,    \* frozen and protected inputs are what the run recorded
    started,   \* invocation identifiers handed out
    reply      \* how each caller's last call ended

vars == <<lock, pc, call, work, ledger, attempts, planned, inputs, started, reply>>
disk == <<ledger, attempts, planned, inputs>>

----------------------------------------------------------------------------
(* Data *)

ExitCodes == {0, 1, 2}
Verdicts  == {"passed", "failed", "blocked", "invalid"}

(* "invalid" is a blocked gate with integrity errors of its own; "blocked" *)
(* is one without (a failed setup).  Mutant: a code of its own for it.     *)
ExitOfBlocked3(verdict) == CASE verdict = "passed" -> 0
                             [] verdict = "failed" -> 1
                             [] verdict = "blocked" -> 3
                             [] OTHER -> 2
ExitOf(verdict) == CASE verdict = "passed" -> 0
                     [] verdict = "failed" -> 1
                     [] OTHER -> 2

Terminal  == {"completed", "rejected", "interrupted"}
Uncertain == {"running", "interrupted"}
States    == Terminal \cup {"absent", "torn", "running"}

Parents == {None} \cup (Runs \X Requests)

Record == [state : States, value : Values \cup {None}, exit : ExitCodes \cup {None},
           attempt : Nat, invocation : Nat, parent : Parents]

NoRecord(state) ==
    [state |-> state, value |-> None, exit |-> None, attempt |-> 0,
     invocation |-> 0, parent |-> None]

(* The parent reference and the reason of a call matter to reserve() only   *)
(* and are chosen there.                                                    *)
Call == [run : Runs, request : Requests, value : Values, id : Nat]

Work == [state : Terminal \cup {None}, code : ExitCodes, attempt : Nat]
NoWork == [state |-> None, code |-> 2, attempt |-> 0]

Attempt == [request : Requests, invocation : Nat, completed : BOOLEAN,
            receipt : {"none", "valid", "changed"}, verdict : Verdicts]

Reply == [kind : {"busy", "refused", "cached", "done", "lost"}, code : ExitCodes,
          run : Runs, request : Requests]

ASSUME ReplyAssumption == None \notin Reply

Steps == {"idle", "called", "locked", "reserved", "cached", "recheck", "ready",
          "executing", "executed", "finishing", "finished"}

RecordOf(c) == ledger[call[c].run][call[c].request]

(* finalise() of the last of these attempts finds no integrity error.       *)
(* Mutant: only the receipt of the last attempt is checked.                 *)
SoundLastOnly(r, made) ==
    /\ inputs[r] /\ made # <<>>
    /\ made[Len(made)].receipt = "valid" /\ made[Len(made)].verdict # "invalid"

Sound(r, made) ==
    /\ inputs[r] /\ made # <<>>
    /\ \A i \in 1 .. Len(made) : made[i].receipt = "valid"
    /\ made[Len(made)].verdict # "invalid"

(* Mutant: a cached answer trusts whatever attempt there is. *)
EvidencePresent(r) == planned[r] /\ attempts[r] # <<>>

EvidenceHolds(r) == planned[r] /\ Sound(r, attempts[r])

----------------------------------------------------------------------------
Init ==
    /\ lock = None
    /\ pc = [c \in Callers |-> "idle"]
    /\ call = [c \in Callers |-> None]
    /\ work = [c \in Callers |-> NoWork]
    /\ ledger = [r \in Runs |-> [q \in Requests |-> NoRecord("absent")]]
    /\ attempts = [r \in Runs |-> <<>>]
    /\ planned = [r \in Runs |-> FALSE]
    /\ inputs = [r \in Runs |-> TRUE]
    /\ started = 0
    /\ reply = [c \in Callers |-> None]

Goto(c, step) == pc' = [pc EXCEPT ![c] = step]

(* The process leaves execute(): the lock goes back, if it holds it. *)
Leave(c, kind, code) ==
    /\ Goto(c, "idle")
    /\ lock' = IF lock = c THEN None ELSE lock
    /\ call' = [call EXCEPT ![c] = None]
    /\ work' = [work EXCEPT ![c] = NoWork]
    /\ reply' = [reply EXCEPT ![c] = [kind |-> kind, code |-> code,
                    run |-> call[c].run, request |-> call[c].request]]
    /\ UNCHANGED started

Stay == UNCHANGED <<lock, call, started, reply>>

(* A process enters execute() with a well-formed request for a 2.1 run. *)
Invoke(c) ==
    /\ pc[c] = "idle" /\ started < MaxInvocations
    /\ \E r \in Runs, q \in Requests, v \in Values :
         call' = [call EXCEPT ![c] =
                    [run |-> r, request |-> q, value |-> v, id |-> started + 1]]
    /\ started' = started + 1
    /\ reply' = [reply EXCEPT ![c] = None]
    /\ Goto(c, "called")
    /\ UNCHANGED <<lock, work, disk>>

Acquire(c) ==
    /\ pc[c] = "called" /\ lock = None
    /\ lock' = c
    /\ Goto(c, "locked")
    /\ UNCHANGED <<call, work, started, reply, disk>>

(* FileLock(timeout=0) raises Timeout: exit 2, nothing recorded. *)
Busy(c) ==
    /\ pc[c] = "called" /\ lock # None
    /\ Leave(c, "busy", 2)
    /\ UNCHANGED disk

----------------------------------------------------------------------------
(* reserve() *)

Siblings(c) == {ledger[call[c].run][q] : q \in Requests}

(* Mutant: any record will do as a parent. *)
ParentExists(p) == p # None => ledger[p[1]][p[2]].state # "absent"

ParentResolves(p) ==
    p # None => ledger[p[1]][p[2]].state \in Terminal

(* Mutants: a request that has a record is reserved again; an interrupted   *)
(* sibling does not stop a reservation.                                     *)
MayReserveAgain(c, parent, reason) ==
    /\ \A s \in Siblings(c) : s.state \notin Uncertain \cup {"torn"}
    /\ reason \/ \A s \in Siblings(c) : s.value # call[c].value
    /\ ParentResolves(parent)

MayReserveBesideInterrupted(c, parent, reason) ==
    /\ RecordOf(c).state = "absent"
    /\ \A s \in Siblings(c) : s.state \notin {"running", "torn"}
    /\ reason \/ \A s \in Siblings(c) : s.value # call[c].value
    /\ ParentResolves(parent)

MayReserve(c, parent, reason) ==
    /\ RecordOf(c).state = "absent"
    /\ \A s \in Siblings(c) : s.state \notin Uncertain \cup {"torn"}
    /\ reason \/ \A s \in Siblings(c) : s.value # call[c].value
    /\ ParentResolves(parent)

MayReplay(c) ==
    /\ RecordOf(c).state \in Terminal
    /\ RecordOf(c).value = call[c].value

Reserve(c) ==
    /\ pc[c] = "locked"
    /\ \E parent \in Parents, reason \in BOOLEAN :
         /\ MayReserve(c, parent, reason)
         /\ ledger' = [ledger EXCEPT ![call[c].run][call[c].request] =
                         [NoRecord("running") EXCEPT !.value = call[c].value,
                                                     !.invocation = call[c].id,
                                                     !.parent = parent]]
    /\ Goto(c, "reserved")
    /\ Stay /\ UNCHANGED <<work, attempts, planned, inputs>>

Replay(c) ==
    /\ pc[c] = "locked" /\ MayReplay(c)
    /\ work' = [work EXCEPT ![c].code =
                  IF RecordOf(c).state = "completed" THEN RecordOf(c).exit ELSE 2]
    /\ Goto(c, "cached")
    /\ Stay /\ UNCHANGED disk

(* Conflicting fingerprint, uncertain sibling, unexplained repeat, parent   *)
(* without a terminal record, unreadable record, or still "running".        *)
Refuse(c) ==
    /\ pc[c] = "locked" /\ ~ MayReplay(c)
    /\ \E parent \in Parents, reason \in BOOLEAN : ~ MayReserve(c, parent, reason)
    /\ Leave(c, "refused", 2)
    /\ UNCHANGED disk

(* invocations/<id>.json, written before the try block. *)
NoteInvocation(c) ==
    /\ pc[c] \in {"reserved", "cached"}
    /\ Goto(c, IF pc[c] = "reserved" THEN "ready" ELSE "recheck")
    /\ Stay /\ UNCHANGED <<work, disk>>

(* A replayed 0 or 1 is only returned if finalise() still finds the         *)
(* evidence of the run in order; otherwise the answer is 2.                 *)
AnswerCached(c) ==
    /\ pc[c] = "recheck"
    /\ Leave(c, "cached", IF work[c].code # 2 /\ EvidenceHolds(call[c].run)
                          THEN work[c].code ELSE 2)
    /\ UNCHANGED disk

----------------------------------------------------------------------------
(* _execute_once() as the ledger sees it *)

Conclude(c, state, code, attempt) ==
    work' = [work EXCEPT ![c] = [state |-> state, code |-> code, attempt |-> attempt]]

(* A preflight check fails before an attempt directory exists. *)
RejectPreflight(c) ==
    /\ pc[c] = "ready"
    /\ Conclude(c, "rejected", 2, 0)
    /\ Goto(c, "finishing")
    /\ Stay /\ UNCHANGED disk

(* The attempt directory is created and listed in run.json.  Without a      *)
(* frozen plan a later attempt stops on the missing plan hash.              *)
Launch(c) ==
    LET r == call[c].run IN
    /\ pc[c] = "ready" /\ inputs[r]
    /\ attempts[r] = <<>> \/ planned[r]
    /\ attempts' = [attempts EXCEPT ![r] = Append(@,
                      [request |-> call[c].request, invocation |-> call[c].id,
                       completed |-> FALSE, receipt |-> "none", verdict |-> "invalid"])]
    /\ planned' = [planned EXCEPT ![r] = @ \/ r \in Generated]
    /\ Goto(c, "executing")
    /\ Stay /\ UNCHANGED <<work, ledger, inputs>>

(* pytest ends or times out, or the application does not start; then        *)
(* process.json is written.  Only a completed process can have evidence     *)
(* without integrity errors.                                                *)
RunSuite(c) ==
    LET r == call[c].run
        n == Len(attempts[r]) IN
    /\ pc[c] = "executing"
    /\ \E done \in BOOLEAN, verdict \in Verdicts :
         /\ ~ done => verdict = "invalid"
         /\ attempts' = [attempts EXCEPT ![r][n] =
                           [@ EXCEPT !.completed = done, !.verdict = verdict]]
    /\ Goto(c, "executed")
    /\ Stay /\ UNCHANGED <<work, ledger, planned, inputs>>

(* Mutant: process.json is not consulted. *)
SealAsCompleted(c) ==
    LET r == call[c].run
        n == Len(attempts[r])
        sealed == [attempts[r] EXCEPT ![n].receipt = "valid"] IN
    /\ pc[c] = "executed"
    /\ attempts' = [attempts EXCEPT ![r] = sealed]
    /\ planned' = [planned EXCEPT ![r] = TRUE]
    /\ Conclude(c, "completed",
                IF Sound(r, sealed) THEN ExitOf(attempts[r][n].verdict) ELSE 2, n)
    /\ Goto(c, "finishing")
    /\ Stay /\ UNCHANGED <<ledger, inputs>>

(* Receipt and finalise(): the exit code is the gate of the whole run, so   *)
(* an earlier attempt without a valid receipt blocks it.  execute() then    *)
(* reads completed from process.json.                                       *)
Seal(c) ==
    LET r == call[c].run
        n == Len(attempts[r])
        a == attempts[r][n]
        sealed == [attempts[r] EXCEPT ![n].receipt = "valid"] IN
    /\ pc[c] = "executed"
    /\ attempts' = [attempts EXCEPT ![r] = sealed]
    /\ planned' = [planned EXCEPT ![r] = TRUE]
    /\ Conclude(c, IF a.completed THEN "completed" ELSE "interrupted",
                IF Sound(r, sealed) THEN ExitOf(a.verdict) ELSE 2, n)
    /\ Goto(c, "finishing")
    /\ Stay /\ UNCHANGED <<ledger, inputs>>

(* A baseline that collected nothing: blocked.json, exit 2, no receipt. *)
BlockBaseline(c) ==
    LET r == call[c].run
        n == Len(attempts[r])
        a == attempts[r][n] IN
    /\ pc[c] = "executed" /\ ~ planned[r] /\ a.verdict = "invalid"
    /\ Conclude(c, IF a.completed THEN "completed" ELSE "interrupted", 2, n)
    /\ Goto(c, "finishing")
    /\ Stay /\ UNCHANGED disk

(* An exception leaves _execute_once: "rejected" for the listed classes     *)
(* (an OSError after the suite ran included), "interrupted" otherwise.      *)
Raise(c) ==
    /\ pc[c] \in {"ready", "executing", "executed"}
    /\ \E state \in {"rejected", "interrupted"} : Conclude(c, state, 2, 0)
    /\ \/ UNCHANGED planned
       \/ pc[c] = "executed" /\ planned' = [planned EXCEPT ![call[c].run] = TRUE]
    /\ Goto(c, "finishing")
    /\ Stay /\ UNCHANGED <<ledger, attempts, inputs>>

----------------------------------------------------------------------------
(* finish() and invocation_result() *)

(* Mutant: compares with the invocation started last. *)
MayFinishLatest(c) ==
    /\ RecordOf(c).state = "running"
    /\ RecordOf(c).value = call[c].value
    /\ RecordOf(c).invocation = started

MayFinish(c) ==
    /\ RecordOf(c).state = "running"
    /\ RecordOf(c).value = call[c].value
    /\ RecordOf(c).invocation = call[c].id

Finish(c) ==
    /\ pc[c] = "finishing" /\ MayFinish(c)
    /\ ledger' = [ledger EXCEPT ![call[c].run][call[c].request] =
                    [@ EXCEPT !.state = work[c].state, !.exit = work[c].code,
                              !.attempt = work[c].attempt]]
    /\ Goto(c, "finished")
    /\ Stay /\ UNCHANGED <<work, attempts, planned, inputs>>

Report(c) ==
    /\ pc[c] = "finished"
    /\ Leave(c, "done", work[c].code)
    /\ UNCHANGED disk

----------------------------------------------------------------------------
(* Faults and the world around the runner *)

(* The process is killed, or an error escapes execute(), anywhere after     *)
(* the call; a request record being written may be cut short.               *)
Die(c) ==
    /\ pc[c] # "idle"
    /\ Leave(c, "lost", 2)
    /\ \/ UNCHANGED ledger
       \/ /\ \/ pc[c] = "locked" /\ MayReserve(c, None, TRUE)
             \/ pc[c] = "finishing" /\ MayFinish(c)
          /\ ledger' = [ledger EXCEPT ![call[c].run][call[c].request] = NoRecord("torn")]
    /\ UNCHANGED <<attempts, planned, inputs>>

(* Somebody edits or restores a frozen or protected input. *)
EditInputs(r) ==
    /\ inputs' = [inputs EXCEPT ![r] = ~ @]
    /\ UNCHANGED <<lock, pc, call, work, ledger, attempts, planned, started, reply>>

(* Somebody changes a file a receipt lists. *)
AlterEvidence(r) ==
    /\ \E i \in 1 .. Len(attempts[r]) :
         /\ attempts[r][i].receipt = "valid"
         /\ attempts' = [attempts EXCEPT ![r][i].receipt = "changed"]
    /\ UNCHANGED <<lock, pc, call, work, ledger, planned, inputs, started, reply>>

Execute(c) ==
    \/ Acquire(c) \/ Busy(c)
    \/ Reserve(c) \/ Replay(c) \/ Refuse(c) \/ NoteInvocation(c) \/ AnswerCached(c)
    \/ RejectPreflight(c) \/ Launch(c) \/ RunSuite(c) \/ Seal(c) \/ BlockBaseline(c)
    \/ Raise(c) \/ Finish(c) \/ Report(c)

Next ==
    \/ \E c \in Callers : Invoke(c) \/ Execute(c) \/ Die(c)
    \/ \E r \in Runs : EditInputs(r) \/ AlterEvidence(r)

Spec == Init /\ [][Next]_vars

(* A running process keeps running: every wait inside execute() has a       *)
(* deadline (the suite --timeout, the service start-up and stop timeouts).  *)
FairSpec == Spec /\ \A c \in Callers : WF_vars(Execute(c))

----------------------------------------------------------------------------
(* Properties *)

TypeOK ==
    /\ lock \in Callers \cup {None}
    /\ pc \in [Callers -> Steps]
    /\ call \in [Callers -> Call \cup {None}]
    /\ work \in [Callers -> Work]
    /\ ledger \in [Runs -> [Requests -> Record]]
    /\ attempts \in [Runs -> Seq(Attempt)]
    /\ planned \in [Runs -> BOOLEAN]
    /\ inputs \in [Runs -> BOOLEAN]
    /\ started \in Nat
    /\ reply \in [Callers -> Reply \cup {None}]

(* However often a request is repeated, raced or killed, its run holds at   *)
(* most one attempt for it (run_local.py execute(): one reservation, one    *)
(* _execute_once).                                                          *)
OneAttemptPerRequest ==
    \A r \in Runs : \A i, j \in 1 .. Len(attempts[r]) :
        attempts[r][i].request = attempts[r][j].request => i = j

(* A completed record names the attempt its own request and invocation made *)
(* and whose process did complete: never the attempt of another request.    *)
CompletedNamesOwnAttempt ==
    \A r \in Runs, q \in Requests :
        LET rec == ledger[r][q] IN
        rec.state = "completed" =>
            /\ rec.attempt \in 1 .. Len(attempts[r])
            /\ attempts[r][rec.attempt].request = q
            /\ attempts[r][rec.attempt].invocation = rec.invocation
            /\ attempts[r][rec.attempt].completed

(* An attempt that lost its receipt (a kill or an I/O error after launch)   *)
(* can never be hidden behind a later success: a request is recorded with   *)
(* exit 0 or 1 only if every attempt up to its own has been sealed.         *)
NoVerdictOverLostAttempt ==
    \A r \in Runs, q \in Requests :
        ledger[r][q].exit \in {0, 1} =>
            \A i \in 1 .. ledger[r][q].attempt : attempts[r][i].receipt # "none"

(* A recorded parent reference always leads to a decided request, however   *)
(* runs and requests are linked and whoever dies in between; so links never *)
(* form a cycle.                                                            *)
ParentIsDecided ==
    \A r \in Runs, q \in Requests :
        LET parent == ledger[r][q].parent IN
        parent # None => ledger[parent[1]][parent[2]].state \in Terminal

(* A new attempt is never started beside an uncertain one: no other request *)
(* of the run is running, interrupted or unreadable when an attempt is      *)
(* added.                                                                   *)
NoAttemptBesideUncertain ==
    [][\A r \in Runs : Len(attempts'[r]) > Len(attempts[r]) =>
         \A q \in Requests \ {attempts'[r][Len(attempts'[r])].request} :
             ledger[r][q].state \notin Uncertain \cup {"torn"}]_vars

(* Once a request is decided, its record never changes again, and a record  *)
(* that became unreadable is never repaired behind the reader's back.       *)
DecisionsAreFinal ==
    [][\A r \in Runs, q \in Requests :
         ledger[r][q].state \in Terminal \cup {"torn"} => ledger'[r][q] = ledger[r][q]]_vars

(* A cached success or failure is the recorded one, asked for with the      *)
(* recorded fingerprint, over evidence that still holds at that moment.     *)
CachedAnswerIsBacked ==
    [][\A c \in Callers :
         (/\ reply'[c] # reply[c] /\ reply'[c] # None
          /\ reply'[c].kind = "cached" /\ reply'[c].code # 2) =>
            /\ RecordOf(c).state = "completed"
            /\ RecordOf(c).exit = reply'[c].code
            /\ RecordOf(c).value = call[c].value
            /\ inputs[call[c].run]
            /\ \A i \in 1 .. Len(attempts[call[c].run]) :
                 attempts[call[c].run][i].receipt = "valid"]_vars

(* Every call returns: contention is answered, not queued, and a holder     *)
(* that dies does not keep the lock.                                        *)
EveryCallReturns == \A c \in Callers : pc[c] = "called" ~> pc[c] = "idle"

(* The promise of RequestPromise, read off the files: a record that is      *)
(* running may still be decided, one that is interrupted or unreadable is   *)
(* lost, and a request was executed if an attempt of its run names it.      *)
StatusOf(rec) == CASE rec.state = "absent" -> "new"
                   [] rec.state = "running" -> "open"
                   [] rec.state \in {"interrupted", "torn"} -> "lost"
                   [] OTHER -> "done"

ResultOf(rec) == IF rec.state \in {"completed", "rejected"} THEN rec.exit ELSE 2

Status == [r \in Runs |-> [q \in Requests |-> StatusOf(ledger[r][q])]]
Result == [r \in Runs |-> [q \in Requests |-> ResultOf(ledger[r][q])]]

Executed == [r \in Runs |-> {attempts[r][i].request : i \in 1 .. Len(attempts[r])}]

Told == [c \in Callers |->
           IF reply[c] = None THEN None
           ELSE [run |-> reply[c].run, request |-> reply[c].request, code |-> reply[c].code]]

Promise == INSTANCE RequestPromise WITH
    Clients <- Callers, status <- Status, result <- Result,
    executed <- Executed, answer <- Told

(* Every step of the ledger is a step the promise allows: requests are      *)
(* executed at most once, one at a time per run, nothing follows a lost     *)
(* one, and callers hear the decision or 2.                                 *)
KeepsPromise == Promise!Spec

(* docs/how-to/workflow-acceptance.md: an interrupted or uncertain          *)
(* execution continues in a new run whose first request refers to it.  So   *)
(* while nobody is executing, every request that has a record can be named  *)
(* as a parent.                                                             *)
UncertainCanBeLinked ==
    \A r \in Runs, q \in Requests :
        (lock = None /\ ledger[r][q].state # "absent") => ParentResolves(<<r, q>>)

(* docs/how-to/workflow-acceptance.md: uncertain execution requires a new   *)
(* linked run.  So no attempt follows one that was left without a receipt   *)
(* because its execution was cut short.                                     *)
NoAttemptAfterUncertainOne ==
    \A r \in Runs : \A i \in 1 .. Len(attempts[r]) - 1 : attempts[r][i].receipt # "none"
=============================================================================
