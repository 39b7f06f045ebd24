------------------------ MODULE StepKnowledgeProofs ------------------------
(***************************************************************************)
(* Stored step knowledge for every number of promoters, steps and attempts. *)
(***************************************************************************)
EXTENDS StepKnowledge, AttemptRunnerProofs

Marks == 0 .. Len(attempts)

(* What the promoters hold; only one of them merges, over the store as it   *)
(* still is.                                                                *)
PromotersOK ==
    /\ at \in [Promoters -> {"idle", "reading", "verified", "merging", "done"}]
    /\ seen \in [Promoters -> Nat]
    /\ copy \in [Promoters -> [Steps -> Nat]]
    /\ store \in [Steps -> Nat]
    /\ \A p \in Promoters : at[p] = "merging" => copy[p] = store
    /\ \A p, q \in Promoters : at[p] = "merging" /\ at[q] = "merging" => p = q

LEMMA PromotersInit == Init => PromotersOK
  BY DEF Init, PromotersOK, NoSteps

LEMMA PromotersNext == run.attempts \in Nat /\ PromotersOK /\ [Next]_vars => PromotersOK'
<1> SUFFICES ASSUME run.attempts \in Nat, PromotersOK, [Next]_vars PROVE PromotersOK'
  OBVIOUS
<1> USE DEF PromotersOK, Go
<1>1. CASE UNCHANGED knowledge
  BY <1>1 DEF knowledge
<1>2. ASSUME NEW p \in Promoters, Promote(p) PROVE PromotersOK'
  BY <1>2 DEF Promote
<1>3. ASSUME NEW p \in Promoters, Verify(p) PROVE PromotersOK'
  BY <1>3 DEF Verify
<1>4. ASSUME NEW p \in Promoters, OpenStore(p) PROVE PromotersOK'
  BY <1>4 DEF OpenStore, StoreIsFree
<1>5. ASSUME NEW p \in Promoters, ReplaceStore(p) PROVE PromotersOK'
  BY <1>5 DEF ReplaceStore, End, NoSteps
<1>6. ASSUME NEW p \in Promoters, Stop(p) PROVE PromotersOK'
  BY <1>6 DEF Stop, End, NoSteps
<1> QED
  BY <1>1, <1>2, <1>3, <1>4, <1>5, <1>6 DEF Next, vars

(* The runner goes its way, promoters or not. *)
LEMMA RunnerSteps == [Next]_vars => [RunnerNext]_runner
  BY DEF Next, vars, Promote, Verify, OpenStore, ReplaceStore, Stop

LEMMA RunnerAlongside == Spec => []EvidenceInv
<1>1. Init => EvidenceInv
  BY EvidenceInit DEF Init
<1>2. EvidenceInv /\ [Next]_vars => EvidenceInv'
  BY EvidenceStep, RunnerSteps
<1> QED
  BY <1>1, <1>2, PTL DEF Spec

LEMMA PromotersHold == Spec => []PromotersOK
<1>1. EvidenceInv => run.attempts \in Nat
  BY DEF EvidenceInv, BudgetInv, BudgetTypeOK, Metadata
<1> QED
  BY <1>1, RunnerAlongside, PromotersInit, PromotersNext, PTL DEF Spec

(* Promoters that overlap, fail or are killed lose nothing that is stored   *)
(* and replace nothing (FileLock and the replacement in                     *)
(* merge_verified_steps()).                                                 *)
THEOREM KnowledgeIsNeverLost == Spec => KnowledgeIsKept
<1>1. ASSUME PromotersOK, [Next]_vars
      PROVE  \A s \in Steps : store[s] > 0 => store'[s] = store[s]
  <2>1. CASE UNCHANGED store
    BY <2>1
  <2>2. ASSUME NEW p \in Promoters, ReplaceStore(p)
        PROVE  \A s \in Steps : store[s] > 0 => store'[s] = store[s]
    BY <1>1, <2>2 DEF ReplaceStore, PromotersOK
  <2> QED
    BY <1>1, <2>1, <2>2 DEF Next, vars, knowledge, Promote, Verify, OpenStore, Stop
<1>2. PromotersOK /\ [Next]_vars => [\A s \in Steps : store[s] > 0 => store'[s] = store[s]]_vars
  BY <1>1
<1> QED
  BY <1>2, PromotersHold, PTL DEF Spec, KnowledgeIsKept

----------------------------------------------------------------------------
(* Where stored steps come from *)

(* The attempts up to n have run over the protected files and are sealed:   *)
(* nothing changes that again.                                              *)
Settled(n) ==
    /\ n \in Marks
    /\ \A i \in 1 .. n : attempts[i].receipt # "none" /\ attempts[i].protected = 0

EarnedOK ==
    /\ \A p \in Promoters : at[p] \in {"verified", "merging"} => Settled(seen[p])
    /\ \A p \in Promoters : at[p] = "reading" => seen[p] \in Marks
    /\ \A p \in Promoters, s \in Steps : Settled(copy[p][s])
    /\ \A s \in Steps : Settled(store[s])

(* A settled prefix stays settled through every step of the runner. *)
LEMMA StaysSettled ==
    ASSUME EvidenceInv, [RunnerNext]_runner, NEW n \in Nat
    PROVE  /\ n \in Marks => n \in Marks'
           /\ Settled(n) => Settled(n)'
<1>0. attempts \in Seq(Attempt)
  BY DEF EvidenceInv, EvidenceOK
<1> SUFFICES /\ Len(attempts') >= Len(attempts)
             /\ \A i \in 1 .. Len(attempts) :
                  attempts[i].receipt # "none" =>
                    attempts'[i].receipt # "none" /\ attempts'[i].protected = attempts[i].protected
  BY <1>0 DEF Settled, Marks
<1>1. CASE WriteRun
  BY <1>0, <1>1 DEF WriteRun
<1>2. CASE RunSuite
  <2>1. PICK new \in Attempt : attempts' = [attempts EXCEPT ![Last] = new]
    BY <1>2, SuiteRan DEF EvidenceInv
  <2>2. Len(attempts) > 0 /\ attempts[Last].receipt = "none"
    BY <1>2 DEF RunSuite, Step, EvidenceInv, EvidenceOK
  <2> QED
    BY <1>0, <2>1, <2>2, LastReplaced
<1>3. CASE Seal
  <2>1. PICK new \in Attempt : attempts' = [attempts EXCEPT ![Last] = new]
    BY <1>3, Sealed DEF EvidenceInv
  <2>2. Len(attempts) > 0 /\ attempts[Last].receipt = "none"
    BY <1>3 DEF Seal, Step, EvidenceInv, EvidenceOK
  <2> QED
    BY <1>0, <2>1, <2>2, LastReplaced
<1>4. ASSUME NEW k \in DOMAIN attempts, AlterEvidence(k)
      PROVE  /\ Len(attempts') >= Len(attempts)
             /\ \A i \in 1 .. Len(attempts) :
                  attempts[i].receipt # "none" =>
                    attempts'[i].receipt # "none" /\ attempts'[i].protected = attempts[i].protected
  <2>1. PICK new \in Attempt :
          /\ new.receipt = "changed" /\ new.protected = attempts[k].protected
          /\ attempts' = [attempts EXCEPT ![k] = new]
    BY <1>4, Altered DEF EvidenceInv
  <2> QED
    BY <1>0, <2>1
<1>5. CASE UNCHANGED attempts
  BY <1>0, <1>5
<1> QED
  BY <1>1, <1>2, <1>3, <1>4, <1>5 DEF RunnerNext, runner, Start, Reject, Lose, Freeze, Unchanged,
     Repair, MakeDirectory, EditFile, EditCode

(* A passed gate settles the attempts it looked at. *)
LEMMA GateSettles ==
    ASSUME EvidenceInv, NEW n \in Marks, GateOf(n)
    PROVE  Settled(n)
<1>1. now["protected"] = 0
  BY DEF EvidenceInv, ListedOK, GateOf, FilesHold, Files
<1>2. attempts \in Seq(Attempt)
  BY DEF EvidenceInv, EvidenceOK
<1>3. ASSUME NEW i \in 1 .. n
      PROVE  attempts[i].receipt # "none" /\ attempts[i].protected = 0
  <2>1. i \in DOMAIN attempts /\ attempts[i].receipt = "valid"
    BY <1>2 DEF GateOf, Marks
  <2> QED
    BY <1>1, <2>1 DEF EvidenceInv, EvidenceOK
<1> QED
  BY <1>3 DEF Settled

LEMMA EarnedNext == EvidenceInv /\ PromotersOK /\ EarnedOK /\ [Next]_vars => EarnedOK'
<1> SUFFICES ASSUME EvidenceInv, PromotersOK, EarnedOK, [Next]_vars PROVE EarnedOK'
  OBVIOUS
<1>0. /\ \A n \in Nat : (n \in Marks => n \in Marks') /\ (Settled(n) => Settled(n)')
      /\ seen \in [Promoters -> Nat] /\ copy \in [Promoters -> [Steps -> Nat]]
      /\ store \in [Steps -> Nat]
      /\ at \in [Promoters -> {"idle", "reading", "verified", "merging", "done"}]
  <2>1. [RunnerNext]_runner
    BY RunnerSteps
  <2>2. ASSUME NEW n \in Nat PROVE (n \in Marks => n \in Marks') /\ (Settled(n) => Settled(n)')
    BY <2>1, StaysSettled
  <2> QED
    BY <2>2 DEF PromotersOK
<1>1. /\ attempts \in Seq(Attempt) /\ run.attempts = Len(attempts) /\ run.attempts \in Nat
      /\ Settled(0)'
  <2>1. attempts \in Seq(Attempt) /\ run.attempts = Len(attempts)
    BY DEF EvidenceInv, EvidenceOK, ListedOK
  <2>2. Settled(0)
    BY <2>1 DEF Settled, Marks
  <2> QED
    BY <1>0, <2>1, <2>2
<1> USE DEF EarnedOK, Go
<1>2. CASE UNCHANGED knowledge
  BY <1>0, <1>2 DEF knowledge
<1>3. ASSUME NEW p \in Promoters, Promote(p) PROVE EarnedOK'
  <2>1. run.attempts \in Marks'
    BY <1>0, <1>1 DEF Marks
  <2> QED
    BY <1>0, <1>3, <2>1 DEF Promote
<1>4. ASSUME NEW p \in Promoters, Verify(p) PROVE EarnedOK'
  <2>1. Settled(seen[p])
    BY <1>4, GateSettles DEF Verify
  <2> QED
    BY <1>0, <1>4, <2>1 DEF Verify
<1>5. ASSUME NEW p \in Promoters, OpenStore(p) PROVE EarnedOK'
  BY <1>0, <1>5 DEF OpenStore
<1>6. ASSUME NEW p \in Promoters, ReplaceStore(p) PROVE EarnedOK'
  BY <1>0, <1>1, <1>6 DEF ReplaceStore, End, NoSteps
<1>7. ASSUME NEW p \in Promoters, Stop(p) PROVE EarnedOK'
  BY <1>0, <1>1, <1>7 DEF Stop, End, NoSteps
<1> QED
  BY <1>2, <1>3, <1>4, <1>5, <1>6, <1>7 DEF Next, vars

(* A stored step always stems from attempts that ran over the protected     *)
(* files, whatever the runner does between the gate and the store.          *)
THEOREM KnowledgeStaysEarned == Spec => []KnowledgeIsEarned
<1>1. Init => EarnedOK
  BY DEF Init, RunnerInit, EarnedOK, NoSteps, Settled, Marks
<1>2. EvidenceInv /\ EarnedOK => KnowledgeIsEarned
  BY DEF EvidenceInv, ListedOK, EarnedOK, Settled, KnowledgeIsEarned, Untouched
<1> QED
  BY <1>1, <1>2, EarnedNext, RunnerAlongside, PromotersHold, PTL DEF Spec
=============================================================================
