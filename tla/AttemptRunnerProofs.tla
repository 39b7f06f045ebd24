------------------------ MODULE AttemptRunnerProofs ------------------------
(***************************************************************************)
(* Repairs, attempts and evidence of AttemptRunner for every number of      *)
(* repair rounds, attempts and edits.                                       *)
(***************************************************************************)
EXTENDS AttemptRunner, TLAPS

Versions == [Parts -> Nat]

Metadata == [attempts : Nat, repairs : Nat, code : Versions \cup {None},
             files : [Files -> Nat]]

(* The parts of the state the budget depends on. *)
BudgetTypeOK ==
    /\ pc \in {"idle", "preflight", "guarded", "listing", "listed", "ran", "lost"}
    /\ now \in [Files -> Nat] /\ code \in Versions
    /\ run \in Metadata
    /\ pc \in {"idle", "lost"} => memory = None
    /\ pc \notin {"idle", "lost"} => memory \in Metadata

(* Repairs of some metadata are within the budget, documented, and fewer    *)
(* than the attempts that will have been made with them.                    *)
WithinBudget(m, made) ==
    /\ m.repairs <= RepairRounds
    /\ m.repairs > 0 => m.repairs < made
    /\ 1 .. m.repairs \subseteq rounds

(* What _execute_once() holds compared with run.json at each of its steps.  *)
MemoryOK ==
    /\ pc \in {"preflight", "listed", "ran"} => memory = run
    /\ pc = "guarded" => /\ memory.attempts = run.attempts
                         /\ WithinBudget(memory, memory.attempts + 1)
    /\ pc = "listing" => WithinBudget(memory, memory.attempts)

BudgetInv == BudgetTypeOK /\ RepairsAreBounded /\ MemoryOK

LEMMA BudgetInit == RunnerInit => BudgetInv
<1> SUFFICES ASSUME RunnerInit PROVE BudgetInv
  OBVIOUS
<1>1. BudgetTypeOK
  BY DEF RunnerInit, BudgetTypeOK, Metadata, Versions
<1>2. RepairsAreBounded /\ MemoryOK
  BY RunnerAssumption DEF RunnerInit, RepairsAreBounded, MemoryOK
<1> QED
  BY <1>1, <1>2 DEF BudgetInv

(* Steps that touch neither run.json nor the repairs and keep what the      *)
(* runner holds, or drop it.                                                *)
LEMMA BudgetKept ==
    ASSUME BudgetInv, UNCHANGED <<run, rounds>>, now' \in [Files -> Nat], code' \in Versions,
           \/ UNCHANGED <<pc, memory>>
           \/ pc' \in {"idle", "lost"} /\ memory' = None
           \/ pc = "listed" /\ pc' = "ran" /\ UNCHANGED memory
           \/ pc = "idle" /\ pc' = "preflight" /\ memory' = run
    PROVE  BudgetInv'
<1> USE DEF BudgetInv, BudgetTypeOK
<1>1. BudgetTypeOK'
  OBVIOUS
<1>2. RepairsAreBounded'
  BY DEF RepairsAreBounded
<1>3. MemoryOK'
  BY DEF MemoryOK, WithinBudget
<1> QED
  BY <1>1, <1>2, <1>3

(* A preflight that accepts no repair goes on with the repairs of run.json. *)
LEMMA Guarded ==
    ASSUME BudgetTypeOK, RepairsAreBounded, UNCHANGED <<run, rounds>>, pc' = "guarded",
           memory'.attempts = run.attempts, memory'.repairs = run.repairs
    PROVE  MemoryOK'
<1>1. run.attempts \in Nat /\ run.repairs \in Nat
  BY DEF BudgetTypeOK, Metadata
<1>2. WithinBudget(memory, memory.attempts + 1)'
  BY <1>1 DEF WithinBudget, RepairsAreBounded
<1> QED
  BY <1>2 DEF MemoryOK

LEMMA BudgetNext == BudgetInv /\ [RunnerNext]_runner => BudgetInv'
<1> SUFFICES ASSUME BudgetInv, [RunnerNext]_runner PROVE BudgetInv'
  OBVIOUS
<1>0. BudgetTypeOK /\ RepairsAreBounded /\ MemoryOK
  BY DEF BudgetInv
<1>1. CASE Start
  BY <1>0, <1>1, BudgetKept DEF Start, Step, BudgetTypeOK
<1>2. CASE Reject \/ Lose
  BY <1>0, <1>2, BudgetKept DEF Reject, Lose, BudgetTypeOK
<1>3. CASE Freeze
  <2>1. memory = run /\ memory \in Metadata
    BY <1>0, <1>3 DEF Freeze, Step, MemoryOK, BudgetTypeOK
  <2>2. PICK files : /\ memory' = [memory EXCEPT !.code = code, !.files = files]
                     /\ files \in [Files -> Nat]
    BY <1>0, <1>3, <2>1 DEF Freeze, Metadata, BudgetTypeOK
  <2>3. /\ memory' \in Metadata
        /\ memory'.attempts = memory.attempts /\ memory'.repairs = memory.repairs
    BY <1>0, <2>1, <2>2 DEF Metadata, BudgetTypeOK
  <2>4. BudgetTypeOK' /\ RepairsAreBounded'
    BY <1>0, <1>3, <2>3 DEF Freeze, Step, BudgetTypeOK, RepairsAreBounded
  <2>5. MemoryOK'
    BY <1>0, <1>3, <2>1, <2>3, Guarded DEF Freeze, Step
  <2> QED
    BY <2>4, <2>5 DEF BudgetInv
<1>4. CASE Unchanged
  <2>1. memory = run /\ memory \in Metadata
    BY <1>0, <1>4 DEF Unchanged, Step, MemoryOK, BudgetTypeOK
  <2>2. BudgetTypeOK' /\ RepairsAreBounded'
    BY <1>0, <1>4 DEF Unchanged, Step, BudgetTypeOK, RepairsAreBounded
  <2>3. MemoryOK'
    BY <1>0, <1>4, <2>1, Guarded DEF Unchanged, Step
  <2> QED
    BY <2>2, <2>3 DEF BudgetInv
<1>5. CASE Repair
  <2>1. memory = run /\ memory \in Metadata /\ memory.attempts > 0
    BY <1>0, <1>5 DEF Repair, Step, MemoryOK, BudgetTypeOK
  <2>2. /\ memory' \in Metadata
        /\ memory'.attempts = memory.attempts /\ memory'.repairs = memory.repairs + 1
    <3>1. PICK n \in Nat : n = memory.repairs + 1
      BY <2>1 DEF Metadata
    <3>2. memory' = [memory EXCEPT !.repairs = n, !.code = code]
      BY <1>5, <3>1 DEF Repair
    <3>3. code \in Versions
      BY <1>0 DEF BudgetTypeOK
    <3>4. memory' \in Metadata /\ memory'.attempts = memory.attempts /\ memory'.repairs = n
      BY <2>1, <3>2, <3>3, Zenon DEF Metadata
    <3> QED
      BY <3>1, <3>4
  <2>3. 1 .. memory'.repairs \subseteq rounds' /\ rounds \subseteq rounds'
    BY <1>0, <1>5, <2>1, <2>2 DEF Repair, RepairsAreBounded, Metadata
  <2>4. memory'.repairs <= RepairRounds
    BY <1>5, <2>1, <2>2, RunnerAssumption DEF Repair, BudgetLeft, Metadata
  <2>5. memory'.repairs < memory'.attempts + 1
    BY <1>0, <2>1, <2>2 DEF RepairsAreBounded, Metadata
  <2>6. BudgetTypeOK'
    BY <1>0, <1>5, <2>2 DEF Repair, Step, BudgetTypeOK
  <2>7. RepairsAreBounded'
    BY <1>0, <1>5, <2>3 DEF Repair, RepairsAreBounded
  <2>8. MemoryOK'
    BY <1>5, <2>1, <2>2, <2>3, <2>4, <2>5 DEF Repair, Step, MemoryOK, WithinBudget
  <2> QED
    BY <2>6, <2>7, <2>8 DEF BudgetInv
<1>6. CASE MakeDirectory
  <2>1. /\ memory \in Metadata /\ memory.attempts = run.attempts
        /\ WithinBudget(memory, memory.attempts + 1)
    BY <1>0, <1>6 DEF MakeDirectory, Step, MemoryOK, BudgetTypeOK
  <2>2. /\ memory' \in Metadata
        /\ memory'.attempts = memory.attempts + 1 /\ memory'.repairs = memory.repairs
    BY <1>6, <2>1 DEF MakeDirectory, Metadata
  <2>3. BudgetTypeOK' /\ RepairsAreBounded'
    BY <1>0, <1>6, <2>2 DEF MakeDirectory, Step, BudgetTypeOK, RepairsAreBounded
  <2>4. MemoryOK'
    BY <1>6, <2>1, <2>2 DEF MakeDirectory, Step, MemoryOK, WithinBudget
  <2> QED
    BY <2>3, <2>4 DEF BudgetInv
<1>7. CASE WriteRun
  <2>1. memory \in Metadata /\ WithinBudget(memory, memory.attempts)
    BY <1>0, <1>7 DEF WriteRun, Step, MemoryOK, BudgetTypeOK
  <2>2. BudgetTypeOK' /\ RepairsAreBounded'
    BY <1>0, <1>7, <2>1 DEF WriteRun, Step, BudgetTypeOK, RepairsAreBounded, WithinBudget
  <2>3. MemoryOK'
    BY <1>7 DEF WriteRun, Step, MemoryOK
  <2> QED
    BY <2>2, <2>3 DEF BudgetInv
<1>8. CASE RunSuite \/ Seal
  BY <1>0, <1>8, BudgetKept DEF RunSuite, Seal, Step, BudgetTypeOK
<1>9. ASSUME NEW f \in Files, EditFile(f) PROVE BudgetInv'
  BY <1>0, <1>9, BudgetKept DEF EditFile, BudgetTypeOK
<1>10. ASSUME NEW part \in Parts, EditCode(part) PROVE BudgetInv'
  BY <1>0, <1>10, BudgetKept DEF EditCode, BudgetTypeOK, Versions
<1>11. ASSUME NEW i \in DOMAIN attempts, AlterEvidence(i) PROVE BudgetInv'
  BY <1>0, <1>11, BudgetKept DEF AlterEvidence, BudgetTypeOK
<1>12. CASE UNCHANGED runner
  BY <1>0, <1>12, BudgetKept DEF runner, BudgetTypeOK
<1> QED
  BY <1>1, <1>2, <1>3, <1>4, <1>5, <1>6, <1>7, <1>8, <1>9, <1>10, <1>11, <1>12 DEF RunnerNext

(* The accepted repairs of a run never exceed the budget, each follows an   *)
(* attempt and has its repair.json, for every budget and every number of    *)
(* rejected or killed requests in between (require_repair_budget() and the  *)
(* writes of _execute_once()).                                              *)
THEOREM RepairsStayBounded == RunnerSpec => []RepairsAreBounded
<1>1. BudgetInv => RepairsAreBounded
  BY DEF BudgetInv
<1> QED
  BY BudgetInit, BudgetNext, <1>1, PTL DEF RunnerSpec

----------------------------------------------------------------------------
(* What run.json will say of the code, from the preflight until it does.    *)

Repaired(old, new) == old = new \/ \E category \in Kinds : WithinCategory(old, new, category)

CodeOK ==
    (pc \in {"guarded", "listing"} /\ run.attempts > 0) => Repaired(run.code, memory.code)

LeafInv == BudgetInv /\ CodeOK

LEMMA LeafInit == RunnerInit => LeafInv
BY BudgetInit DEF LeafInv, CodeOK, RunnerInit

(* Steps other than those of the preflight and of the attempt directory.    *)
LEMMA CodeKept ==
    ASSUME CodeOK, UNCHANGED run, \/ UNCHANGED <<pc, memory>>
                                  \/ pc' \notin {"guarded", "listing"}
    PROVE  CodeOK'
BY DEF CodeOK, Repaired, WithinCategory

LEMMA LeafNext == LeafInv /\ [RunnerNext]_runner => LeafInv'
<1> SUFFICES ASSUME LeafInv, [RunnerNext]_runner PROVE CodeOK'
  BY BudgetNext DEF LeafInv
<1>0. BudgetTypeOK /\ MemoryOK /\ CodeOK
  BY DEF LeafInv, BudgetInv
<1>1. CASE Start \/ Reject \/ Lose \/ RunSuite \/ Seal
  BY <1>0, <1>1, CodeKept DEF Start, Reject, Lose, RunSuite, Seal, Step
<1>2. CASE Freeze
  <2>1. run' = run /\ run.attempts = 0
    BY <1>0, <1>2 DEF Freeze, Step, MemoryOK
  <2> QED
    BY <2>1 DEF CodeOK
<1>3. CASE Unchanged
  <2>1. UNCHANGED run /\ memory'.code = run.code
    BY <1>0, <1>3 DEF Unchanged, Step, MemoryOK
  <2> QED
    BY <2>1 DEF CodeOK, Repaired
<1>4. CASE Repair
  <2>1. /\ memory = run /\ memory \in Metadata /\ UNCHANGED run
        /\ \E category \in Kinds : WithinCategory(memory.code, code, category)
    BY <1>0, <1>4 DEF Repair, Step, MemoryOK, BudgetTypeOK
  <2>2. memory'.code = code
    <3>1. PICK n : n = memory.repairs + 1
      OBVIOUS
    <3>2. memory' = [memory EXCEPT !.repairs = n, !.code = code]
      BY <1>4, <3>1 DEF Repair
    <3> QED
      BY <2>1, <3>2, Zenon DEF Metadata
  <2> QED
    BY <2>1, <2>2 DEF CodeOK, Repaired
<1>5. CASE MakeDirectory
  <2>1. /\ pc = "guarded" /\ memory \in Metadata /\ UNCHANGED run
        /\ memory' = [memory EXCEPT !.attempts = @ + 1]
    BY <1>0, <1>5 DEF MakeDirectory, Step, BudgetTypeOK
  <2>2. memory'.code = memory.code
    BY <2>1 DEF Metadata
  <2> QED
    BY <1>0, <2>1, <2>2 DEF CodeOK
<1>6. CASE WriteRun
  BY <1>6 DEF WriteRun, Step, CodeOK
<1>7. ASSUME NEW f \in Files, EditFile(f) PROVE CodeOK'
  BY <1>0, <1>7, CodeKept DEF EditFile
<1>8. ASSUME NEW part \in Parts, EditCode(part) PROVE CodeOK'
  BY <1>0, <1>8, CodeKept DEF EditCode
<1>9. ASSUME NEW i \in DOMAIN attempts, AlterEvidence(i) PROVE CodeOK'
  BY <1>0, <1>9, CodeKept DEF AlterEvidence
<1>10. CASE UNCHANGED runner
  BY <1>0, <1>10, CodeKept DEF runner
<1> QED
  BY <1>1, <1>2, <1>3, <1>4, <1>5, <1>6, <1>7, <1>8, <1>9, <1>10 DEF RunnerNext

(* run.json is written by one step only. *)
LEMMA LeafStep ==
    ASSUME LeafInv, [RunnerNext]_runner, run.attempts > 0, run'.code # run.code
    PROVE  \E category \in Kinds :
             \A part \in Parts \ {Leaf(category)} : run'.code[part] = run.code[part]
<1>1. CASE WriteRun
  <2>1. run' = memory /\ Repaired(run.code, memory.code)
    BY <1>1 DEF WriteRun, Step, LeafInv, CodeOK
  <2> QED
    BY <2>1 DEF Repaired, WithinCategory
<1>2. CASE ~ WriteRun
  <2>1. UNCHANGED run
    BY <1>2 DEF RunnerNext, runner, Start, Reject, Lose, Freeze, Unchanged, Repair, MakeDirectory,
       RunSuite, Seal, EditFile, EditCode, AlterEvidence
  <2> QED
    BY <2>1
<1> QED
  BY <1>1, <1>2

(* Whatever is edited, rejected or killed while a repair is guarded and     *)
(* recorded, run.json goes on from its own code with one category changed   *)
(* (validate_repair(), _execute_once()).                                    *)
THEOREM RepairsStayInTheirCategory == RunnerSpec => OnlyLeavesAreRepaired
<1>1. LeafInv /\ [RunnerNext]_runner =>
        [(run.attempts > 0 /\ run'.code # run.code) =>
           \E category \in Kinds :
             \A part \in Parts \ {Leaf(category)} : run'.code[part] = run.code[part]]_runner
  BY LeafStep
<1> QED
  BY LeafInit, LeafNext, <1>1, PTL DEF RunnerSpec, OnlyLeavesAreRepaired

----------------------------------------------------------------------------
(* Attempts, their directories and their evidence. *)

Attempt == [protected : Nat \cup {None}, receipt : {"none", "valid", "changed"},
            passed : BOOLEAN, contract : BOOLEAN]

(* Versions count edits; repair.json files are within the budget. *)
CountsOK ==
    /\ edits \in 0 .. MaxEdits
    /\ \A f \in Files : now[f] <= edits
    /\ \A part \in Parts : code[part] <= edits
    /\ rounds \subseteq 1 .. RepairRounds

(* run.json, the directories and the protected hashes it started with.      *)
ListedOK ==
    /\ run.attempts = Len(attempts)
    /\ dirs \in run.attempts .. run.attempts + 1
    /\ pc = "listing" => memory.attempts = run.attempts + 1 /\ dirs = memory.attempts
    /\ run.files["protected"] = 0
    /\ pc \notin {"idle", "lost"} => memory.files["protected"] = 0

(* A receipt is written once, over an attempt that ran with a version of    *)
(* the protected files no newer than theirs.                                *)
EvidenceOK ==
    /\ attempts \in Seq(Attempt)
    /\ pc \in {"listed", "ran"} => Len(attempts) > 0 /\ attempts[Last].receipt = "none"
    /\ pc = "ran" => attempts[Last].protected \in 0 .. now["protected"]
    /\ \A i \in DOMAIN attempts :
         attempts[i].receipt # "none" => attempts[i].protected \in 0 .. now["protected"]

EvidenceInv == BudgetInv /\ CountsOK /\ ListedOK /\ EvidenceOK

LEMMA EvidenceInit == RunnerInit => EvidenceInv
<1> SUFFICES ASSUME RunnerInit PROVE EvidenceInv
  OBVIOUS
<1>1. CountsOK
  BY RunnerAssumption DEF RunnerInit, CountsOK
<1>2. ListedOK /\ EvidenceOK
  BY DEF RunnerInit, ListedOK, EvidenceOK, Files
<1> QED
  BY <1>1, <1>2, BudgetInit DEF EvidenceInv

LEMMA CountsNext == BudgetInv /\ CountsOK /\ [RunnerNext]_runner => CountsOK'
<1> SUFFICES ASSUME BudgetTypeOK, MemoryOK, CountsOK, [RunnerNext]_runner PROVE CountsOK'
  BY DEF BudgetInv
<1> USE RunnerAssumption DEF CountsOK
<1>1. CASE Repair
  <2>1. memory \in Metadata /\ memory.repairs < RepairRounds
    BY <1>1 DEF Repair, Step, BudgetLeft, BudgetTypeOK
  <2>2. memory.repairs \in Nat
    BY <2>1 DEF Metadata
  <2>3. UNCHANGED <<now, code, edits>> /\ rounds' = rounds \cup {memory.repairs + 1}
    BY <1>1 DEF Repair
  <2>4. memory.repairs + 1 \in 1 .. RepairRounds
    BY <2>1, <2>2
  <2>5. rounds' \subseteq 1 .. RepairRounds
    BY ONLY <2>3, <2>4, CountsOK DEF CountsOK
  <2> QED
    BY <2>3, <2>5
<1>2. ASSUME NEW f \in Files, EditFile(f) PROVE CountsOK'
  <2>1. edits \in Nat /\ edits' = edits + 1 /\ edits' \in 0 .. MaxEdits /\ UNCHANGED <<code, rounds>>
    BY <1>2 DEF EditFile
  <2>2. \A g \in Files : now'[g] <= edits'
    BY <1>2, <2>1 DEF EditFile, BudgetTypeOK
  <2>3. \A part \in Parts : code[part] \in Nat
    BY DEF BudgetTypeOK, Versions
  <2> QED
    BY <2>1, <2>2, <2>3
<1>3. ASSUME NEW part \in Parts, EditCode(part) PROVE CountsOK'
  BY <1>3 DEF EditCode, BudgetTypeOK, Versions
<1>4. ASSUME NEW i \in DOMAIN attempts, AlterEvidence(i) PROVE CountsOK'
  BY <1>4 DEF AlterEvidence, BudgetTypeOK, Versions
<1>5. CASE UNCHANGED <<now, code, rounds, edits>>
  BY <1>5
<1> QED
  BY <1>1, <1>2, <1>3, <1>4, <1>5 DEF RunnerNext, runner, Start, Reject, Lose, Freeze, Unchanged,
     MakeDirectory, WriteRun, RunSuite, Seal

(* The last attempt is replaced, and nothing else in the list. *)
LEMMA LastReplaced ==
    ASSUME attempts \in Seq(Attempt), Len(attempts) > 0, NEW new \in Attempt,
           attempts' = [attempts EXCEPT ![Last] = new]
    PROVE  /\ attempts' \in Seq(Attempt) /\ Len(attempts') = Len(attempts)
           /\ attempts'[Last] = new
           /\ \A i \in DOMAIN attempts : i # Last => attempts'[i] = attempts[i]
BY DEF Last

(* What the pytest run and the receipt do to the attempt. *)
LEMMA SuiteRan ==
    ASSUME BudgetInv, EvidenceOK, RunSuite
    PROVE  \E new \in Attempt :
             /\ new.receipt = "none" /\ new.protected = now["protected"]
             /\ attempts' = [attempts EXCEPT ![Last] = new]
<1>1. PICK passed \in BOOLEAN, contract \in BOOLEAN :
        attempts' = [attempts EXCEPT ![Last] =
          [@ EXCEPT !.protected = now["protected"], !.passed = passed, !.contract = contract]]
  BY DEF RunSuite
<1>2. PICK new : new = [attempts[Last] EXCEPT !.protected = now["protected"],
                          !.passed = passed, !.contract = contract]
  OBVIOUS
<1>3. attempts[Last] \in Attempt /\ attempts[Last].receipt = "none" /\ now["protected"] \in Nat
  BY DEF RunSuite, Step, EvidenceOK, BudgetInv, BudgetTypeOK, Last, Files
<1>4. new \in Attempt /\ new.receipt = "none" /\ new.protected = now["protected"]
  BY <1>2, <1>3 DEF Attempt
<1>5. attempts' = [attempts EXCEPT ![Last] = new]
  BY <1>1, <1>2, Zenon
<1> QED
  BY <1>4, <1>5

LEMMA Sealed ==
    ASSUME EvidenceOK, Seal
    PROVE  \E new \in Attempt :
             /\ new.receipt = "valid" /\ new.protected = attempts[Last].protected
             /\ attempts' = [attempts EXCEPT ![Last] = new]
<1>1. PICK new : new = [attempts[Last] EXCEPT !.receipt = "valid"]
  OBVIOUS
<1>2. attempts[Last] \in Attempt
  BY DEF Seal, Step, EvidenceOK, Last
<1>3. new \in Attempt /\ new.receipt = "valid" /\ new.protected = attempts[Last].protected
  BY <1>1, <1>2 DEF Attempt
<1>4. attempts' = [attempts EXCEPT ![Last] = new]
  BY <1>1, Zenon DEF Seal
<1> QED
  BY <1>3, <1>4

LEMMA Altered ==
    ASSUME EvidenceOK, NEW i \in DOMAIN attempts, AlterEvidence(i)
    PROVE  \E new \in Attempt :
             /\ new.receipt = "changed" /\ new.protected = attempts[i].protected
             /\ attempts[i].receipt = "valid"
             /\ attempts' = [attempts EXCEPT ![i] = new]
<1>1. PICK passed \in BOOLEAN, contract \in BOOLEAN :
        attempts' = [attempts EXCEPT ![i] =
          [@ EXCEPT !.receipt = "changed", !.passed = passed, !.contract = contract]]
  BY DEF AlterEvidence
<1>2. PICK new : new = [attempts[i] EXCEPT !.receipt = "changed", !.passed = passed,
                          !.contract = contract]
  OBVIOUS
<1>3. attempts[i] \in Attempt /\ attempts[i].receipt = "valid"
  BY DEF EvidenceOK, AlterEvidence
<1>4. new \in Attempt /\ new.receipt = "changed" /\ new.protected = attempts[i].protected
  BY <1>2, <1>3 DEF Attempt
<1>5. attempts' = [attempts EXCEPT ![i] = new]
  BY <1>1, <1>2, Zenon
<1> QED
  BY <1>3, <1>4, <1>5

LEMMA ListedNext == BudgetInv /\ ListedOK /\ EvidenceOK /\ [RunnerNext]_runner => ListedOK'
<1> SUFFICES ASSUME BudgetInv, ListedOK, EvidenceOK, [RunnerNext]_runner PROVE ListedOK'
  OBVIOUS
<1>0. BudgetTypeOK /\ MemoryOK /\ attempts \in Seq(Attempt)
  BY DEF BudgetInv, EvidenceOK
<1>1. CASE Freeze
  <2>1. memory = run /\ memory \in Metadata
    BY <1>0, <1>1 DEF Freeze, Step, MemoryOK, BudgetTypeOK
  <2>2. PICK files : /\ memory' = [memory EXCEPT !.code = code, !.files = files]
                     /\ files["protected"] = memory.files["protected"]
    BY <1>0, <1>1, <2>1 DEF Freeze, Metadata, BudgetTypeOK, Files
  <2>3. memory'.files["protected"] = 0
    BY <2>1, <2>2 DEF Metadata, ListedOK
  <2> QED
    BY <1>1, <2>3 DEF Freeze, Step, ListedOK
<1>2. CASE Repair
  <2>1. memory = run /\ memory \in Metadata
    BY <1>0, <1>2 DEF Repair, Step, MemoryOK, BudgetTypeOK
  <2>2. memory'.files = memory.files
    <3>1. PICK n : n = memory.repairs + 1
      OBVIOUS
    <3>2. memory' = [memory EXCEPT !.repairs = n, !.code = code]
      BY <1>2, <3>1 DEF Repair
    <3> QED
      BY <2>1, <3>2, Zenon DEF Metadata
  <2> QED
    BY <1>2, <2>1, <2>2 DEF Repair, Step, ListedOK
<1>3. CASE MakeDirectory
  <2>1. /\ memory \in Metadata /\ memory.attempts = run.attempts /\ memory.attempts \in Nat
        /\ memory' = [memory EXCEPT !.attempts = @ + 1] /\ memory.files["protected"] = 0
    BY <1>0, <1>3 DEF MakeDirectory, Step, MemoryOK, BudgetTypeOK, Metadata, ListedOK
  <2>2. memory'.attempts = run.attempts + 1 /\ memory'.files = memory.files
    BY <2>1 DEF Metadata
  <2>3. UNCHANGED <<run, attempts>> /\ pc' = "listing" /\ dirs' = run.attempts + 1
    BY <1>3, <2>1 DEF MakeDirectory, Step
  <2> QED
    BY <2>1, <2>2, <2>3 DEF ListedOK
<1>4. CASE WriteRun
  <2>1. /\ memory \in Metadata /\ memory.attempts = Len(attempts) + 1 /\ dirs = memory.attempts
        /\ memory.files["protected"] = 0
    BY <1>0, <1>4 DEF WriteRun, Step, BudgetTypeOK, ListedOK
  <2>2. Len(attempts') = Len(attempts) + 1
    BY <1>0, <1>4 DEF WriteRun
  <2>3. run' = memory /\ pc' = "listed" /\ UNCHANGED <<memory, dirs>>
    BY <1>4 DEF WriteRun, Step
  <2> QED
    BY <2>1, <2>2, <2>3 DEF ListedOK, Metadata
<1>5. CASE RunSuite
  <2>1. Len(attempts') = Len(attempts)
    BY <1>5, <1>0 DEF RunSuite
  <2> QED
    BY <1>5, <2>1 DEF RunSuite, Step, ListedOK
<1>6. CASE Seal
  <2>1. Len(attempts') = Len(attempts)
    BY <1>6, <1>0 DEF Seal
  <2> QED
    BY <1>6, <2>1 DEF Seal, Step, ListedOK
<1>7. ASSUME NEW i \in DOMAIN attempts, AlterEvidence(i) PROVE ListedOK'
  <2>1. Len(attempts') = Len(attempts)
    BY <1>7, <1>0 DEF AlterEvidence
  <2> QED
    BY <1>7, <2>1 DEF AlterEvidence, ListedOK
<1>8. CASE Start \/ Reject \/ Lose \/ Unchanged
  BY <1>8 DEF Start, Reject, Lose, Unchanged, Step, ListedOK
<1>9. CASE UNCHANGED runner \/ (\E f \in Files : EditFile(f)) \/ (\E part \in Parts : EditCode(part))
  BY <1>9 DEF runner, EditFile, EditCode, ListedOK
<1> QED
  BY <1>1, <1>2, <1>3, <1>4, <1>5, <1>6, <1>7, <1>8, <1>9 DEF RunnerNext

LEMMA EvidenceNext == BudgetInv /\ EvidenceOK /\ [RunnerNext]_runner => EvidenceOK'
<1> SUFFICES ASSUME BudgetInv, EvidenceOK, [RunnerNext]_runner PROVE EvidenceOK'
  OBVIOUS
<1>0. now \in [Files -> Nat] /\ now["protected"] \in Nat
  BY DEF BudgetInv, BudgetTypeOK, Files
<1>1. CASE WriteRun
  <2>1. NewAttempt \in Attempt /\ NewAttempt.receipt = "none"
    BY DEF NewAttempt, Attempt
  <2>2. attempts' = Append(attempts, NewAttempt) /\ pc' = "listed" /\ UNCHANGED now
    BY <1>1 DEF WriteRun, Step
  <2> QED
    BY <2>1, <2>2 DEF EvidenceOK, Last
<1>2. CASE RunSuite
  <2>1. PICK new \in Attempt : /\ new.receipt = "none" /\ new.protected = now["protected"]
                               /\ attempts' = [attempts EXCEPT ![Last] = new]
    BY <1>2, SuiteRan
  <2>2. pc = "listed" /\ pc' = "ran" /\ UNCHANGED now
    BY <1>2 DEF RunSuite, Step
  <2>3. /\ attempts' \in Seq(Attempt) /\ Len(attempts') = Len(attempts) /\ Last' = Last
        /\ attempts'[Last] = new
        /\ \A i \in DOMAIN attempts : i # Last => attempts'[i] = attempts[i]
    BY <2>1, <2>2, LastReplaced DEF EvidenceOK, Last
  <2> QED
    BY <1>0, <2>1, <2>2, <2>3 DEF EvidenceOK
<1>3. CASE Seal
  <2>1. PICK new \in Attempt :
          /\ new.receipt = "valid" /\ new.protected = attempts[Last].protected
          /\ attempts' = [attempts EXCEPT ![Last] = new]
    BY <1>3, Sealed
  <2>2. pc = "ran" /\ pc' = "idle" /\ UNCHANGED now
    BY <1>3 DEF Seal, Step
  <2>3. /\ attempts' \in Seq(Attempt) /\ Len(attempts') = Len(attempts)
        /\ attempts'[Last] = new
        /\ \A i \in DOMAIN attempts : i # Last => attempts'[i] = attempts[i]
    BY <2>1, <2>2, LastReplaced DEF EvidenceOK
  <2> QED
    BY <1>0, <2>1, <2>2, <2>3 DEF EvidenceOK
<1>4. ASSUME NEW k \in DOMAIN attempts, AlterEvidence(k) PROVE EvidenceOK'
  <2>1. PICK new \in Attempt :
          /\ new.receipt = "changed" /\ new.protected = attempts[k].protected
          /\ attempts[k].receipt = "valid"
          /\ attempts' = [attempts EXCEPT ![k] = new]
    BY <1>4, Altered
  <2>2. UNCHANGED <<pc, now>>
    BY <1>4 DEF AlterEvidence
  <2>3. /\ attempts' \in Seq(Attempt) /\ Len(attempts') = Len(attempts) /\ Last' = Last
        /\ attempts'[k] = new
        /\ \A i \in DOMAIN attempts : i # k => attempts'[i] = attempts[i]
    BY <2>1 DEF EvidenceOK, Last
  <2> QED
    BY <1>0, <2>1, <2>2, <2>3 DEF EvidenceOK
<1>5. ASSUME NEW f \in Files, EditFile(f) PROVE EvidenceOK'
  <2>1. now'["protected"] \in Nat /\ now["protected"] <= now'["protected"]
    BY <1>0, <1>5 DEF EditFile, Files
  <2>2. UNCHANGED <<pc, attempts>>
    BY <1>5 DEF EditFile
  <2> QED
    BY <1>0, <2>1, <2>2 DEF EvidenceOK, Last
<1>6. CASE UNCHANGED runner \/ \E part \in Parts : EditCode(part)
  BY <1>6 DEF runner, EditCode, EvidenceOK, Last
<1>7. CASE Start \/ Reject \/ Lose \/ Freeze \/ Unchanged \/ Repair \/ MakeDirectory
  BY <1>7 DEF Start, Reject, Lose, Freeze, Unchanged, Repair, MakeDirectory, Step, EvidenceOK, Last
<1> QED
  BY <1>1, <1>2, <1>3, <1>4, <1>5, <1>6, <1>7 DEF RunnerNext

LEMMA EvidenceStep == EvidenceInv /\ [RunnerNext]_runner => EvidenceInv'
  BY BudgetNext, CountsNext, ListedNext, EvidenceNext DEF EvidenceInv

LEMMA EvidenceHolds == RunnerSpec => []EvidenceInv
  BY EvidenceInit, EvidenceStep, PTL DEF RunnerSpec

(* Versions, the list of attempts, their directories and the repair files. *)
THEOREM RunnerTypesHold == RunnerSpec => []RunnerTypeOK
<1>1. EvidenceInv => RunnerTypeOK
  <2>1. ASSUME EvidenceInv PROVE now \in [Files -> 0 .. MaxEdits] /\ code \in [Parts -> 0 .. MaxEdits]
    BY <2>1, RunnerAssumption DEF EvidenceInv, BudgetInv, BudgetTypeOK, Versions, CountsOK
  <2> QED
    BY <2>1 DEF EvidenceInv, CountsOK, ListedOK, RunnerTypeOK
<1> QED
  BY <1>1, EvidenceHolds, PTL

(* However many attempts, repairs, lost runners and edits: a passed gate    *)
(* means that each attempt ran over the protected files of the run.         *)
THEOREM PassedIsUntouched == RunnerSpec => []PassedMeansUntouched
<1>1. ASSUME EvidenceInv, GatePasses, NEW i \in DOMAIN attempts
      PROVE  attempts[i].protected = run.files["protected"]
  <2>1. now["protected"] = 0 /\ run.files["protected"] = 0
    BY <1>1 DEF EvidenceInv, ListedOK, GatePasses, FilesHold, Files
  <2>2. attempts[i].protected \in 0 .. now["protected"]
    BY <1>1 DEF EvidenceInv, EvidenceOK, GatePasses, ReceiptsHold
  <2> QED
    BY <2>1, <2>2
<1>2. EvidenceInv => PassedMeansUntouched
  BY <1>1 DEF PassedMeansUntouched
<1> QED
  BY <1>2, EvidenceHolds, PTL
=============================================================================
