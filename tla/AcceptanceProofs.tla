-------------------------- MODULE AcceptanceProofs --------------------------
(***************************************************************************)
(* What accept_ai_run may call "verified", for every number of attempts,    *)
(* repairs, edits and reviews, and whatever the runner, the host and the    *)
(* maintainer do between finalise() and assess().                           *)
(*                                                                          *)
(* finalise() saw the run at one time, the review was written at an earlier *)
(* one and assess() compares them at a later one.  The argument is that the *)
(* number of attempts only grows: when the reviewed run.json is the one     *)
(* that lies there now, no attempt was listed in between.                   *)
(***************************************************************************)
EXTENDS Acceptance, AttemptRunnerProofs

Declarations == {None, "valid", "stale"}

BasisRecords ==
    [run : Metadata, files : [Files \ {"protected"} -> Nat], declaration : Declarations,
     sealed : BOOLEAN]

ReviewRecords ==
    [alignment : {"approved", "rejected"}, delegated : BOOLEAN, captures : Nat \cup {None},
     attempt : Nat, basis : BasisRecords]

FilesOK ==
    /\ route \in Routes /\ declaration \in Declarations
    /\ captures \in 0 .. edits \cup {None}
    /\ reviewing # None => reviewing \in 1 .. run.attempts

(* A review is of an attempt and a run.json that were there before it. *)
ReviewOK(r) ==
    /\ r.attempt \in 1 .. run.attempts
    /\ r.basis.run.attempts <= run.attempts
    /\ r.captures \in 0 .. MaxEdits \cup (IF r.delegated THEN {} ELSE {None})

ReviewsOK ==
    /\ reviews \in Seq(ReviewRecords)
    /\ \A i \in DOMAIN reviews : ReviewOK(reviews[i])

(* The attempt ran over the protected files of the run and was completed. *)
Sound(i) == attempts[i].protected = 0 /\ attempts[i].receipt # "none"

(* What accept_ai_run has learnt is of the time it began, and the review it *)
(* was given is older.                                                      *)
AcceptingOK ==
    accepting # None =>
      /\ accepting.attempt \in 1 .. run.attempts
      /\ accepting.review \in DOMAIN reviews \cup {None}
      /\ accepting.review # None => reviews[accepting.review].basis.run.attempts <= accepting.attempt
      /\ accepting.passed => \A i \in 1 .. accepting.attempt : Sound(i)

AcceptInv == EvidenceInv /\ FilesOK /\ ReviewsOK /\ AcceptingOK

LEMMA AcceptInit == Init => AcceptInv
<1> SUFFICES ASSUME Init PROVE AcceptInv
  OBVIOUS
<1>1. EvidenceInv
  BY EvidenceInit DEF Init
<1>2. FilesOK /\ ReviewsOK /\ AcceptingOK
  BY DEF Init, FilesOK, ReviewsOK, AcceptingOK, Declarations
<1> QED
  BY <1>1, <1>2 DEF AcceptInv

(* The list of attempts only grows, and a completed attempt stays so.       *)
LEMMA EvidenceStays ==
    ASSUME EvidenceInv, [RunnerNext]_runner
    PROVE  /\ run.attempts \in Nat /\ run'.attempts \in Nat /\ run.attempts <= run'.attempts
           /\ edits \in Nat /\ edits' \in Nat /\ edits <= edits'
           /\ \A i \in 1 .. run.attempts : Sound(i) => Sound(i)'
<1>0. /\ BudgetTypeOK /\ attempts \in Seq(Attempt) /\ run.attempts = Len(attempts)
      /\ edits \in Nat /\ run.attempts \in Nat
  BY RunnerAssumption
     DEF EvidenceInv, BudgetInv, BudgetTypeOK, CountsOK, ListedOK, EvidenceOK, Metadata
<1>1. CASE WriteRun
  <2>1. run' = memory /\ memory.attempts = run.attempts + 1 /\ edits' = edits
    BY <1>1 DEF WriteRun, Step, EvidenceInv, ListedOK
  <2>2. \A i \in DOMAIN attempts : attempts'[i] = attempts[i]
    BY <1>0, <1>1 DEF WriteRun
  <2> QED
    BY <1>0, <2>1, <2>2 DEF Sound
<1>2. CASE RunSuite
  <2>1. PICK new \in Attempt : attempts' = [attempts EXCEPT ![Last] = new]
    BY <1>2, SuiteRan DEF EvidenceInv
  <2>2. Len(attempts) > 0 /\ attempts[Last].receipt = "none" /\ UNCHANGED <<run, edits>>
    BY <1>2 DEF RunSuite, Step, EvidenceInv, EvidenceOK
  <2>3. \A i \in DOMAIN attempts : i # Last => attempts'[i] = attempts[i]
    BY <1>0, <2>1, <2>2, LastReplaced
  <2> QED
    BY <1>0, <2>2, <2>3 DEF Sound
<1>3. CASE Seal
  <2>1. PICK new \in Attempt : attempts' = [attempts EXCEPT ![Last] = new]
    BY <1>3, Sealed DEF EvidenceInv
  <2>2. Len(attempts) > 0 /\ attempts[Last].receipt = "none" /\ UNCHANGED <<run, edits>>
    BY <1>3 DEF Seal, Step, EvidenceInv, EvidenceOK
  <2>3. \A i \in DOMAIN attempts : i # Last => attempts'[i] = attempts[i]
    BY <1>0, <2>1, <2>2, LastReplaced
  <2> QED
    BY <1>0, <2>2, <2>3 DEF Sound
<1>4. ASSUME NEW k \in DOMAIN attempts, AlterEvidence(k)
      PROVE  /\ run' = run /\ edits' = edits + 1
             /\ \A i \in 1 .. run.attempts : Sound(i) => Sound(i)'
  <2>1. PICK new \in Attempt :
          /\ new.receipt = "changed" /\ new.protected = attempts[k].protected
          /\ attempts[k].receipt = "valid"
          /\ attempts' = [attempts EXCEPT ![k] = new]
    BY <1>4, Altered DEF EvidenceInv
  <2>2. /\ attempts'[k] = new
        /\ \A i \in DOMAIN attempts : i # k => attempts'[i] = attempts[i]
    BY <1>0, <2>1
  <2>3. run' = run /\ edits' = edits + 1
    BY <1>4 DEF AlterEvidence
  <2> QED
    BY <1>0, <2>1, <2>2, <2>3 DEF Sound
<1>5. ASSUME NEW f \in Files, EditFile(f)
      PROVE  run' = run /\ attempts' = attempts /\ edits' = edits + 1
  BY <1>5 DEF EditFile
<1>6. ASSUME NEW part \in Parts, EditCode(part)
      PROVE  run' = run /\ attempts' = attempts /\ edits' = edits + 1
  BY <1>6 DEF EditCode
<1>7. CASE \/ Start \/ Reject \/ Lose \/ Freeze \/ Unchanged \/ Repair \/ MakeDirectory
           \/ UNCHANGED runner
  <2>1. run' = run /\ attempts' = attempts /\ edits' = edits
    BY <1>7 DEF Start, Reject, Lose, Freeze, Unchanged, Repair, MakeDirectory, runner
  <2> QED
    BY <1>0, <2>1 DEF Sound
<1>8. CASE \/ \E f \in Files : EditFile(f)
           \/ \E part \in Parts : EditCode(part)
           \/ \E k \in DOMAIN attempts : AlterEvidence(k)
  BY <1>0, <1>4, <1>5, <1>6, <1>8 DEF Sound
<1> QED
  BY <1>1, <1>2, <1>3, <1>7, <1>8 DEF RunnerNext

(* Steps that leave the reviews and what is being accepted alone. *)
LEMMA ReviewsStay ==
    ASSUME AcceptInv, UNCHANGED <<reviews, accepting>>,
           run'.attempts \in Nat, run.attempts <= run'.attempts,
           \A i \in 1 .. run.attempts : Sound(i) => Sound(i)'
    PROVE  ReviewsOK' /\ AcceptingOK'
<1>0. run.attempts \in Nat
  BY DEF AcceptInv, EvidenceInv, BudgetInv, BudgetTypeOK, Metadata
<1>1. \A i \in DOMAIN reviews : reviews[i] \in ReviewRecords /\ ReviewOK(reviews[i])
  BY DEF AcceptInv, ReviewsOK
<1>2. \A i \in DOMAIN reviews : ReviewOK(reviews[i])'
  <2>1. \A i \in DOMAIN reviews : reviews[i].attempt \in Nat /\ reviews[i].basis.run.attempts \in Nat
    BY <1>1 DEF ReviewRecords, BasisRecords, Metadata
  <2> QED
    BY <1>0, <1>1, <2>1 DEF ReviewOK
<1>3. ReviewsOK'
  BY <1>2 DEF AcceptInv, ReviewsOK
<1>4. AcceptingOK'
  BY <1>0 DEF AcceptInv, AcceptingOK
<1> QED
  BY <1>3, <1>4

LEMMA AcceptRunner ==
    ASSUME AcceptInv, [RunnerNext]_runner, UNCHANGED review
    PROVE  AcceptInv'
<1>0. EvidenceInv /\ EvidenceInv'
  BY EvidenceStep DEF AcceptInv
<1>1. /\ run.attempts \in Nat /\ run'.attempts \in Nat /\ run.attempts <= run'.attempts
      /\ edits \in Nat /\ edits' \in Nat /\ edits <= edits'
      /\ \A i \in 1 .. run.attempts : Sound(i) => Sound(i)'
  BY <1>0, EvidenceStays
<1>2. FilesOK'
  BY <1>1 DEF AcceptInv, FilesOK, review, Declarations
<1>3. ReviewsOK' /\ AcceptingOK'
  BY <1>1, ReviewsStay DEF review
<1> QED
  BY <1>0, <1>2, <1>3 DEF AcceptInv

(* Steps of the maintainer, the host and the agent: the run stays.          *)
LEMMA RunStays ==
    ASSUME AcceptInv, UNCHANGED <<pc, now, code, run, memory, dirs, rounds, attempts>>,
           edits' = edits \/ (edits < MaxEdits /\ edits' = edits + 1)
    PROVE  /\ EvidenceInv' /\ edits' \in 0 .. MaxEdits /\ edits \in 0 .. edits'
           /\ run.attempts \in Nat /\ \A i : Sound(i)' = Sound(i)
<1>0. EvidenceInv /\ MaxEdits \in Nat
  BY RunnerAssumption DEF AcceptInv
<1>1. BudgetInv'
  BY <1>0 DEF EvidenceInv, BudgetInv, BudgetTypeOK, RepairsAreBounded, MemoryOK, WithinBudget
<1>2. edits' \in 0 .. MaxEdits /\ edits \in 0 .. edits'
  BY <1>0 DEF EvidenceInv, CountsOK
<1>3. CountsOK'
  <2>1. /\ \A f \in Files : now[f] \in Nat /\ now[f] <= edits
        /\ \A part \in Parts : code[part] \in Nat /\ code[part] <= edits
        /\ rounds \subseteq 1 .. RepairRounds
    BY <1>0 DEF EvidenceInv, CountsOK, BudgetInv, BudgetTypeOK, Versions
  <2> QED
    BY <1>2, <2>1 DEF CountsOK
<1>4. ListedOK' /\ EvidenceOK'
  BY <1>0 DEF EvidenceInv, ListedOK, EvidenceOK, Last
<1>5. run.attempts \in Nat /\ \A i : Sound(i)' = Sound(i)
  BY <1>0 DEF EvidenceInv, BudgetInv, BudgetTypeOK, Metadata, Sound
<1> QED
  BY <1>1, <1>2, <1>3, <1>4, <1>5 DEF EvidenceInv

LEMMA AcceptFiles ==
    ASSUME AcceptInv, EditCaptures \/ Declare
    PROVE  AcceptInv'
<1>1. /\ UNCHANGED <<pc, now, code, run, memory, dirs, rounds, attempts>>
      /\ UNCHANGED <<route, reviews, reviewing, accepting>>
      /\ edits' = edits \/ (edits < MaxEdits /\ edits' = edits + 1)
  BY DEF EditCaptures, Declare
<1>2. /\ EvidenceInv' /\ edits' \in 0 .. MaxEdits /\ edits \in 0 .. edits'
      /\ run.attempts \in Nat /\ \A i : Sound(i)' = Sound(i)
  BY <1>1, RunStays
<1>3. ReviewsOK' /\ AcceptingOK'
  BY <1>1, <1>2, ReviewsStay
<1>4. CASE EditCaptures
  <2>1. captures' \in 0 .. edits' \cup {None} /\ declaration' = declaration
    <3>1. CASE captures = None
      BY <1>2, <1>4, <3>1 DEF EditCaptures
    <3>2. CASE captures # None
      <4>1. captures \in 0 .. edits /\ captures' = captures + 1 /\ edits' = edits + 1
        BY <1>4, <3>2 DEF EditCaptures, AcceptInv, FilesOK
      <4> QED
        BY <1>2, <1>4, <4>1 DEF EditCaptures
    <3> QED
      BY <3>1, <3>2
  <2>2. FilesOK'
    BY <1>1, <2>1 DEF AcceptInv, FilesOK, Declarations
  <2> QED
    BY <1>2, <1>3, <2>2 DEF AcceptInv
<1>5. CASE Declare
  <2>1. declaration' \in Declarations /\ captures' = captures
    BY <1>5 DEF Declare, Declarations
  <2>2. FilesOK'
    BY <1>1, <1>2, <2>1 DEF AcceptInv, FilesOK, Declarations
  <2> QED
    BY <1>2, <1>3, <2>2 DEF AcceptInv
<1> QED
  BY <1>4, <1>5

(* The maintainer's steps only begin, record or end something. *)
LEMMA AcceptBegins ==
    ASSUME AcceptInv, BeginReview \/ EndAccept
    PROVE  AcceptInv'
<1>1. UNCHANGED runner /\ UNCHANGED <<route, captures, declaration, reviews>>
  BY DEF BeginReview, EndAccept
<1>2. /\ EvidenceInv' /\ run.attempts \in Nat /\ \A i : Sound(i)' = Sound(i)
      /\ edits \in 0 .. edits' /\ edits' = edits
  BY <1>1, RunStays DEF runner
<1>3. FilesOK'
  BY <1>1, <1>2 DEF BeginReview, EndAccept, runner, AcceptInv, FilesOK, Declarations
<1>4. ReviewsOK'
  BY <1>1 DEF runner, AcceptInv, ReviewsOK, ReviewOK
<1>5. AcceptingOK'
  BY <1>1, <1>2 DEF BeginReview, EndAccept, runner, AcceptInv, AcceptingOK
<1> QED
  BY <1>2, <1>3, <1>4, <1>5 DEF AcceptInv

(* A passed gate: every attempt listed so far is sound. *)
LEMMA GateIsSound ==
    ASSUME EvidenceInv, GatePasses
    PROVE  \A i \in 1 .. run.attempts : Sound(i)
<1>1. now["protected"] = 0 /\ DOMAIN attempts = 1 .. run.attempts
  BY DEF EvidenceInv, ListedOK, EvidenceOK, GatePasses, FilesHold, Files
<1>2. \A i \in DOMAIN attempts : attempts[i].protected \in 0 .. 0 /\ attempts[i].receipt = "valid"
  BY <1>1 DEF EvidenceInv, EvidenceOK, GatePasses, ReceiptsHold
<1> QED
  BY <1>1, <1>2 DEF Sound

LEMMA AcceptBegin ==
    ASSUME AcceptInv, BeginAccept
    PROVE  AcceptInv'
<1>1. UNCHANGED runner /\ UNCHANGED <<route, captures, declaration, reviews, reviewing>>
  BY DEF BeginAccept
<1>2. /\ EvidenceInv' /\ run.attempts \in Nat /\ \A i : Sound(i)' = Sound(i)
  BY <1>1, RunStays DEF runner
<1>3. FilesOK' /\ ReviewsOK'
  BY <1>1 DEF runner, AcceptInv, FilesOK, Declarations, ReviewsOK, ReviewOK
<1>4. PICK i \in DOMAIN reviews \cup {None} :
        accepting' = [passed |-> GatePasses, attempt |-> run.attempts, review |-> i]
  BY DEF BeginAccept
<1>5. run.attempts > 0
  BY DEF BeginAccept
<1>6. i # None => reviews[i].basis.run.attempts <= run.attempts
  BY <1>4 DEF AcceptInv, ReviewsOK, ReviewOK
<1>7. /\ accepting'.attempt = run.attempts /\ accepting'.review = i
      /\ accepting'.passed = GatePasses
  BY <1>4
<1>8. accepting'.passed => \A k \in 1 .. run.attempts : Sound(k)
  BY <1>7, GateIsSound DEF AcceptInv
<1>9. run' = run /\ reviews' = reviews
  BY <1>1 DEF runner
<1>10. AcceptingOK'
  BY <1>2, <1>5, <1>6, <1>7, <1>8, <1>9 DEF AcceptingOK
<1> QED
  BY <1>2, <1>3, <1>10 DEF AcceptInv

(* A new review is of the run as it lies there, at the attempt it began of. *)
LEMMA AcceptRecord ==
    ASSUME AcceptInv, RecordReview
    PROVE  AcceptInv'
<1>1. UNCHANGED runner /\ UNCHANGED <<route, captures, declaration, accepting>>
  BY DEF RecordReview
<1>2. /\ EvidenceInv' /\ run.attempts \in Nat /\ \A i : Sound(i)' = Sound(i)
  BY <1>1, RunStays DEF runner
<1>3. FilesOK'
  BY <1>1 DEF RecordReview, runner, AcceptInv, FilesOK, Declarations
<1>4. PICK alignment \in {"approved", "rejected"}, delegated \in BOOLEAN, listed \in BOOLEAN :
        /\ ListsCaptures(delegated, listed)
        /\ reviews' = Append(reviews,
             [alignment |-> alignment, delegated |-> delegated,
              captures |-> IF listed THEN captures ELSE None,
              attempt |-> reviewing, basis |-> Basis(reviewing)])
  BY DEF RecordReview
<1>5. PICK shown : shown = IF listed THEN captures ELSE None
  OBVIOUS
<1>6. shown \in 0 .. MaxEdits \cup (IF delegated THEN {} ELSE {None})
  <2>1. edits \in Nat /\ MaxEdits \in Nat /\ edits <= MaxEdits /\ captures \in 0 .. edits \cup {None}
    BY RunnerAssumption DEF AcceptInv, EvidenceInv, CountsOK, FilesOK
  <2>2. CASE listed
    BY <1>4, <1>5, <2>1, <2>2 DEF ListsCaptures
  <2>3. CASE ~ listed
    BY <1>4, <1>5, <2>3 DEF ListsCaptures
  <2> QED
    BY <2>2, <2>3
<1>7. reviewing \in 1 .. run.attempts
  BY DEF RecordReview, AcceptInv, FilesOK
<1>8. PICK basis : basis = Basis(reviewing)
  OBVIOUS
<1>9. basis \in BasisRecords /\ basis.run = run
  <2>1. run \in Metadata /\ declaration \in Declarations /\ now \in [Files -> Nat]
    BY DEF AcceptInv, EvidenceInv, BudgetInv, BudgetTypeOK, FilesOK
  <2>2. [f \in Files \ {"protected"} |-> now[f]] \in [Files \ {"protected"} -> Nat]
    BY <2>1
  <2> QED
    BY <1>8, <2>1, <2>2 DEF Basis, BasisRecords
<1>10. PICK new : new = [alignment |-> alignment, delegated |-> delegated, captures |-> shown,
                         attempt |-> reviewing, basis |-> basis]
  OBVIOUS
<1>11. new \in ReviewRecords
  BY <1>2, <1>6, <1>7, <1>9, <1>10, RunnerAssumption DEF ReviewRecords
<1>12. ReviewOK(new)
  BY <1>2, <1>6, <1>7, <1>9, <1>10 DEF ReviewOK
<1>13. reviews' = Append(reviews, new)
  BY <1>4, <1>5, <1>8, <1>10
<1>14. /\ reviews' \in Seq(ReviewRecords) /\ DOMAIN reviews \subseteq DOMAIN reviews'
       /\ \A i \in DOMAIN reviews : reviews'[i] = reviews[i]
       /\ \A i \in DOMAIN reviews' : i \in DOMAIN reviews \/ reviews'[i] = new
  BY <1>11, <1>13 DEF AcceptInv, ReviewsOK
<1>15. \A i \in DOMAIN reviews' : ReviewOK(reviews'[i])
  BY <1>12, <1>14 DEF AcceptInv, ReviewsOK
<1>16. ReviewsOK'
  BY <1>1, <1>14, <1>15 DEF ReviewsOK, ReviewOK, runner
<1>17. AcceptingOK'
  BY <1>1, <1>2, <1>14 DEF AcceptInv, AcceptingOK, runner
<1> QED
  BY <1>2, <1>3, <1>16, <1>17 DEF AcceptInv

LEMMA AcceptStep == AcceptInv /\ [Next]_vars => AcceptInv'
<1> SUFFICES ASSUME AcceptInv, [Next]_vars PROVE AcceptInv'
  OBVIOUS
<1>1. CASE UNCHANGED vars
  BY <1>1, AcceptRunner DEF vars
<1>2. CASE RunnerNext /\ UNCHANGED review
  BY <1>2, AcceptRunner
<1> QED
  BY <1>1, <1>2, AcceptBegins, AcceptRecord, AcceptBegin, AcceptFiles DEF Next

LEMMA AcceptHolds == Spec => []AcceptInv
  BY AcceptInit, AcceptStep, PTL DEF Spec

(* The files of a run and the reviews made of them keep their types.        *)
THEOREM AcceptanceTypes == Spec => []TypeOK
<1>1. EvidenceInv => RunnerTypeOK
  <2>1. ASSUME EvidenceInv PROVE now \in [Files -> 0 .. MaxEdits] /\ code \in [Parts -> 0 .. MaxEdits]
    BY <2>1, RunnerAssumption DEF EvidenceInv, BudgetInv, BudgetTypeOK, Versions, CountsOK
  <2> QED
    BY <2>1 DEF EvidenceInv, CountsOK, ListedOK, RunnerTypeOK
<1>2. AcceptInv => captures \in 0 .. MaxEdits \cup {None}
  BY RunnerAssumption DEF AcceptInv, FilesOK, EvidenceInv, CountsOK
<1>3. AcceptInv => TypeOK
  BY <1>1, <1>2 DEF AcceptInv, FilesOK, ReviewsOK, ReviewOK, AcceptingOK, TypeOK
<1> QED
  BY <1>3, AcceptHolds, PTL

(* What "verified" says of the review accept_ai_run was given. *)
LEMMA VerifiedReview ==
    ASSUME AcceptInv, Verifies
    PROVE  LET r == reviews[accepting.review] IN
           /\ accepting.review \in DOMAIN reviews /\ accepting.passed
           /\ ~ Rejects(r) /\ ~ Pends(r) /\ r \in ReviewRecords
           /\ accepting.attempt = run.attempts
<1> DEFINE r == reviews[accepting.review]
<1>1. accepting # None /\ Assessment = "verified"
  BY DEF Verifies
<1>2. accepting.review # None
  BY <1>1 DEF Assessment, Pends
<1>3. ~ Rejects(r) /\ ~ Pends(r)
  BY <1>1, <1>2 DEF Assessment
<1>4. accepting.review \in DOMAIN reviews /\ r \in ReviewRecords
  BY <1>1, <1>2 DEF AcceptInv, AcceptingOK, ReviewsOK
<1>5. r.basis.run.attempts <= accepting.attempt /\ accepting.attempt \in 1 .. run.attempts
  BY <1>1, <1>2 DEF AcceptInv, AcceptingOK
<1>6. r.basis = Basis(accepting.attempt)
  BY <1>3 DEF Rejects, ReviewHolds, Pends
<1>7. r.basis.run = run
  BY <1>6 DEF Basis
<1>8. run.attempts \in Nat
  BY DEF AcceptInv, EvidenceInv, BudgetInv, BudgetTypeOK, Metadata
<1>9. accepting.attempt = run.attempts
  BY <1>5, <1>7, <1>8
<1>10. accepting.passed
  BY <1>3 DEF Rejects
<1> QED
  BY <1>3, <1>4, <1>9, <1>10

(* acceptance.py assess(): an accepted run is the one the maintainer saw    *)
(* and approved, with its files, its last attempt and, where it was         *)
(* delegated, its captures.                                                 *)
THEOREM VerifiedIsReviewed == Spec => []VerifiedIsWhatWasReviewed
<1>1. ASSUME AcceptInv, Verifies
      PROVE  LET r == reviews[accepting.review] IN
             /\ r.alignment = "approved"
             /\ r.attempt = run.attempts /\ r.basis.run = run
             /\ \A f \in Files \ {"protected"} : r.basis.files[f] = now[f]
             /\ route = "trae_orchestrated" => r.captures = captures
  <2> DEFINE r == reviews[accepting.review]
  <2>1. /\ ~ Rejects(r) /\ ~ Pends(r) /\ r \in ReviewRecords
        /\ accepting.attempt = run.attempts
    BY <1>1, VerifiedReview
  <2>2. r # None
    BY <2>1 DEF Pends
  <2>3. /\ ReviewHolds(r, accepting.attempt) /\ r.alignment # "rejected"
        /\ route = "trae_orchestrated" /\ r.delegated => CapturesHold(r)
    BY <2>1, <2>2 DEF Rejects
  <2>4. r.alignment = "approved" /\ r.delegated \in BOOLEAN
    BY <2>1, <2>3 DEF ReviewRecords
  <2>5. route = "trae_orchestrated" => r.captures = captures
    BY <2>1, <2>3 DEF Pends, CapturesHold
  <2>6. r.attempt = run.attempts /\ r.basis = Basis(accepting.attempt)
    BY <2>1, <2>3 DEF ReviewHolds
  <2>7. r.basis.run = run /\ \A f \in Files \ {"protected"} : r.basis.files[f] = now[f]
    BY <2>6 DEF Basis
  <2> QED
    BY <2>4, <2>5, <2>6, <2>7
<1>2. AcceptInv => VerifiedIsWhatWasReviewed
  BY <1>1 DEF VerifiedIsWhatWasReviewed
<1> QED
  BY <1>2, AcceptHolds, PTL

(* acceptance.py assess() over what finalise() found: every attempt of an   *)
(* accepted run, the ones of other requests included, ran over the          *)
(* protected files of the run and was completed.                            *)
THEOREM VerifiedAttemptsPassed == Spec => []VerifiedAttemptPassed
<1>1. ASSUME AcceptInv, Verifies, NEW i \in DOMAIN attempts
      PROVE  attempts[i].protected = run.files["protected"] /\ attempts[i].receipt # "none"
  <2>1. accepting.passed /\ accepting.attempt = run.attempts /\ accepting # None
    BY <1>1, VerifiedReview DEF Verifies
  <2>2. i \in 1 .. run.attempts /\ run.files["protected"] = 0
    BY <1>1 DEF AcceptInv, EvidenceInv, ListedOK, EvidenceOK
  <2>3. Sound(i)
    BY <1>1, <2>1, <2>2 DEF AcceptInv, AcceptingOK
  <2> QED
    BY <2>2, <2>3 DEF Sound
<1>2. AcceptInv => VerifiedAttemptPassed
  BY <1>1 DEF VerifiedAttemptPassed
<1> QED
  BY <1>2, AcceptHolds, PTL
=============================================================================
