--------------------------- MODULE AttemptRunner ---------------------------
(***************************************************************************)
(* One generated run: what _execute_once() of scripts/run_local.py does     *)
(* between a reservation and its outcome, over repair_guard.py,             *)
(* integrity.py and runs.py, and the verdict finalise() gives on the files. *)
(*                                                                          *)
(* A file is its version.  An edit always makes a new version, so equal     *)
(* versions mean equal digests; plan.json and data.csv are always treated   *)
(* alike and are one file here.  Generated code has a frame (all that is    *)
(* frozen), its registered selectors and its registered timeouts.           *)
(* The metadata of run.json is changed in memory and written once; an       *)
(* exception before that leaves run.json alone and other files behind.      *)
(***************************************************************************)
EXTENDS Integers, Sequences

CONSTANTS
    None,
    RepairRounds,  \* accepted repairs of a run: 3 in the program
    MaxAttempts,   \* bound on the attempts of the run
    MaxEdits       \* bound on the edits of files

ASSUME RunnerAssumption ==
    RepairRounds \in Nat /\ MaxAttempts \in Nat \ {0} /\ MaxEdits \in Nat

VARIABLES
    pc,        \* where the runner is
    now,       \* version of each protected or frozen file
    code,      \* the generated code
    run,       \* run.json
    memory,    \* the metadata _execute_once() holds
    dirs,      \* attempt directories that exist
    rounds,    \* repair rounds that have a repair.json
    attempts,  \* what each listed attempt holds
    edits      \* edits so far

runner == <<pc, now, code, run, memory, dirs, rounds, attempts, edits>>

Files  == {"protected", "inputs", "bindings"}
Parts  == {"frame", "selectors", "timeouts"}
Kinds  == {"locator", "synchronisation"}

RunnerInit ==
    /\ pc = "idle"
    /\ now = [f \in Files |-> 0]
    /\ code = [part \in Parts |-> 0]
    /\ run = [attempts |-> 0, repairs |-> 0, code |-> None, files |-> [f \in Files |-> 0]]
    /\ memory = None
    /\ dirs = 0 /\ rounds = {}
    /\ attempts = <<>>
    /\ edits = 0

Step(from, to) == pc = from /\ pc' = to

(* A request that reserved an execution; a lost one is followed by no other *)
(* (RequestLedger).                                                         *)
Start ==
    /\ Step("idle", "preflight")
    /\ memory' = run
    /\ UNCHANGED <<now, code, run, dirs, rounds, attempts, edits>>

(* ValueError, OSError, ...: the request is rejected, wherever it happens.  *)
Reject ==
    /\ pc \notin {"idle", "lost"}
    /\ pc' = "idle" /\ memory' = None
    /\ UNCHANGED <<now, code, run, dirs, rounds, attempts, edits>>

(* Killed, or an exception the runner does not list. *)
Lose ==
    /\ pc \notin {"idle", "lost"}
    /\ pc' = "lost" /\ memory' = None
    /\ UNCHANGED <<now, code, run, dirs, rounds, attempts, edits>>

----------------------------------------------------------------------------
(* Before the attempt *)

(* The first attempt freezes what it finds, over an earlier freeze that     *)
(* never reached run.json.                                                  *)
Freeze ==
    /\ memory # None /\ memory.attempts = 0
    /\ now["protected"] = memory.files["protected"]
    /\ Step("preflight", "guarded")
    /\ memory' = [memory EXCEPT !.code = code,
                    !.files = [f \in Files |-> IF f = "protected" THEN @[f] ELSE now[f]]]
    /\ UNCHANGED <<now, code, run, dirs, rounds, attempts, edits>>

(* Mutant: the protected files are not compared again. *)
FrozenInputsOnly(m) == now["inputs"] = m.files["inputs"]

FrozenInputsHold(m) == \A f \in {"protected", "inputs"} : now[f] = m.files[f]

(* validate_repair(): the signature of the category covers everything else. *)
Leaf(category) == IF category = "locator" THEN "selectors" ELSE "timeouts"

(* Mutants: any registered leaf may change; one round too many.             *)
WithinCategoryAny(old, new, category) == old["frame"] = new["frame"]

WithinCategory(old, new, category) ==
    \A part \in Parts \ {Leaf(category)} : new[part] = old[part]

BudgetLeftLate(m) == m.repairs <= RepairRounds

BudgetLeft(m) == m.repairs < RepairRounds

Unchanged ==
    /\ memory # None /\ memory.attempts > 0
    /\ FrozenInputsHold(memory) /\ code = memory.code
    /\ Step("preflight", "guarded")
    /\ UNCHANGED <<now, code, run, memory, dirs, rounds, attempts, edits>>

(* A documented, linked repair within the budget; repair.json is created    *)
(* exclusively.  The three readings of the generated code are one step.     *)
Repair ==
    /\ memory # None /\ memory.attempts > 0
    /\ FrozenInputsHold(memory) /\ code # memory.code
    /\ \E category \in Kinds : WithinCategory(memory.code, code, category)
    /\ BudgetLeft(memory)
    /\ memory.repairs + 1 \notin rounds
    /\ Step("preflight", "guarded")
    /\ rounds' = rounds \cup {memory.repairs + 1}
    /\ memory' = [memory EXCEPT !.repairs = @ + 1, !.code = code]
    /\ UNCHANGED <<now, code, run, dirs, attempts, edits>>

(* Everything else leaves the preflight by Reject.  The attempt directory   *)
(* is created exclusively, then run.json is written.                        *)
(* Mutant: the directory is numbered after those on disk.                   *)
MakeNextDirectory ==
    /\ Step("guarded", "listing")
    /\ memory.attempts < MaxAttempts
    /\ dirs' = dirs + 1
    /\ memory' = [memory EXCEPT !.attempts = @ + 1]
    /\ UNCHANGED <<now, code, run, rounds, attempts, edits>>

MakeDirectory ==
    /\ Step("guarded", "listing")
    /\ memory.attempts < MaxAttempts
    /\ dirs < memory.attempts + 1
    /\ dirs' = memory.attempts + 1
    /\ memory' = [memory EXCEPT !.attempts = @ + 1]
    /\ UNCHANGED <<now, code, run, rounds, attempts, edits>>

NewAttempt == [protected |-> None, receipt |-> "none", passed |-> FALSE, contract |-> FALSE]

WriteRun ==
    /\ Step("listing", "listed")
    /\ run' = memory
    /\ attempts' = Append(attempts, NewAttempt)
    /\ UNCHANGED <<now, code, memory, dirs, rounds, edits>>

----------------------------------------------------------------------------
(* The attempt *)

Last == Len(attempts)

(* The sources are copied for the record, then pytest runs the originals:   *)
(* the copy decides nothing.  A session that timed out or never started is  *)
(* a blocked one; contract: contract_errors() finds nothing in the events,  *)
(* which decides nothing unless reconcile() says passed.                    *)
RunSuite ==
    /\ Step("listed", "ran")
    /\ \E passed \in BOOLEAN, contract \in BOOLEAN :
         /\ contract => passed
         /\ attempts' = [attempts EXCEPT ![Last] =
              [@ EXCEPT !.protected = now["protected"], !.passed = passed, !.contract = contract]]
    /\ UNCHANGED <<now, code, run, memory, dirs, rounds, edits>>

(* The receipt; finalise() and assess() that follow write no file that is   *)
(* read again.                                                              *)
Seal ==
    /\ Step("ran", "idle")
    /\ memory' = None
    /\ attempts' = [attempts EXCEPT ![Last].receipt = "valid"]
    /\ UNCHANGED <<now, code, run, dirs, rounds, edits>>

(* Mutant: finalise() checks the receipt of the last attempt only. *)
ReceiptOfLast == attempts[Last].receipt = "valid"

ReceiptsHold == \A i \in DOMAIN attempts : attempts[i].receipt = "valid"

(* Mutant: finalise() does not look at the protected files. *)
FrozenFilesHold == \A f \in Files \ {"protected"} : now[f] = run.files[f]

FilesHold == \A f \in Files : now[f] = run.files[f]

(* finalise(): whether the gate of the run passes as its files stand; every *)
(* integrity error blocks it (Reconcile).                                   *)
GatePasses == FilesHold /\ ReceiptsHold /\ attempts[Last].passed

----------------------------------------------------------------------------
(* Somebody edits a file. *)

EditFile(f) ==
    /\ edits < MaxEdits /\ edits' = edits + 1
    /\ now' = [now EXCEPT ![f] = @ + 1]
    /\ UNCHANGED <<pc, code, run, memory, dirs, rounds, attempts>>

EditCode(part) ==
    /\ edits < MaxEdits /\ edits' = edits + 1
    /\ code' = [code EXCEPT ![part] = @ + 1]
    /\ UNCHANGED <<pc, now, run, memory, dirs, rounds, attempts>>

AlterEvidence(i) ==
    /\ edits < MaxEdits /\ edits' = edits + 1
    /\ attempts[i].receipt = "valid"
    /\ \E passed \in BOOLEAN, contract \in BOOLEAN :
         /\ contract => passed
         /\ attempts' = [attempts EXCEPT ![i] =
              [@ EXCEPT !.receipt = "changed", !.passed = passed, !.contract = contract]]
    /\ UNCHANGED <<pc, now, code, run, memory, dirs, rounds>>

RunnerNext ==
    \/ Start \/ Reject \/ Lose \/ Freeze \/ Unchanged \/ Repair \/ MakeDirectory \/ WriteRun
    \/ RunSuite \/ Seal
    \/ \E f \in Files : EditFile(f)
    \/ \E part \in Parts : EditCode(part)
    \/ \E i \in DOMAIN attempts : AlterEvidence(i)

RunnerSpec == RunnerInit /\ [][RunnerNext]_runner

----------------------------------------------------------------------------
(* Properties *)

RunnerTypeOK ==
    /\ now \in [Files -> 0 .. MaxEdits] /\ code \in [Parts -> 0 .. MaxEdits]
    /\ run.attempts = Len(attempts) /\ dirs \in run.attempts .. run.attempts + 1
    /\ rounds \subseteq 1 .. RepairRounds

(* At most the allowed repairs are ever accepted, each of them follows an   *)
(* attempt of its own and has its record, however many requests are         *)
(* rejected between repair.json and run.json (require_repair_budget()).     *)
RepairsAreBounded ==
    /\ run.repairs <= RepairRounds
    /\ run.repairs > 0 => run.repairs < run.attempts
    /\ 1 .. run.repairs \subseteq rounds

(* A passed gate means that every attempt of the run, those of rejected and *)
(* repeated requests included, ran its suite over the protected files the   *)
(* run was prepared with: finalise() finds out afterwards.                  *)
PassedMeansUntouched ==
    (run.attempts > 0 /\ GatePasses) =>
        \A i \in DOMAIN attempts : attempts[i].protected = run.files["protected"]

(* Once an attempt is listed, an accepted repair changes the selectors or   *)
(* the timeouts of the recorded code, never both and never its frame.       *)
OnlyLeavesAreRepaired ==
    [][(run.attempts > 0 /\ run'.code # run.code) =>
         \E category \in Kinds :
           \A part \in Parts \ {Leaf(category)} : run'.code[part] = run.code[part]]_runner
=============================================================================
