---------------------------- MODULE SessionProofs ----------------------------
(***************************************************************************)
(* What a passed gate of reconcile() and a contract without errors rest on, *)
(* for every plan and every evidence, well-formed or not; and, from the     *)
(* start of pytest to the verdict, that no verdict of CheckedSession is     *)
(* wrong about what the tests really did.                                   *)
(*                                                                          *)
(* SessionInv says what the evidence is worth when one file may have been   *)
(* damaged: a pass or a failure in it is true unless that file says it.     *)
(* WholeInv says what is in the files of a session that nothing disturbed,  *)
(* FaithfulInv what a suite records that keeps to its contract; from them   *)
(* follows that neither reconcile() nor contract_errors() raises an alarm.  *)
(***************************************************************************)
EXTENDS CheckedSession, FiniteSetTheorems, SequenceTheorems, WellFoundedInduction, TLAPS

(* An integrity error is one of the named faults, and there is none exactly *)
(* when every fault is absent.                                              *)
LEMMA NoErrors ==
    ASSUME NEW frozen, NEW e, Errors(frozen, e) = {}
    PROVE  /\ ProcessCompleted(e)
           /\ SessionEvents(e) /\ SameInvocation(e) /\ SessionMatchesProcess(e)
           /\ CasesOf(Rows(e)) = Expected(frozen)
           /\ \A c \in Expected(frozen) : InSequence(e, c) /\ JUnitAgrees(e, c)
           /\ \A i \in DOMAIN Entries(e) : JUnitEntryOK(e, i)
           /\ \A c \in Expected(frozen) : Accepted(e, c) # {}
           /\ ~ Faults(frozen, e).nonzero_exit_without_failure
<1> DEFINE faults == Faults(frozen, e)
<1>1. \A name \in DOMAIN faults : ~ faults[name]
  BY DEF Errors
<1>2. /\ ~ faults.process_not_a_completed_acceptance_run
      /\ ~ faults.incomplete_session_events
      /\ ~ faults.request_invocation_identity_mismatch
      /\ ~ faults.process_session_mismatch
      /\ ~ faults.planned_and_collected_cases_differ
      /\ ~ faults.invalid_phase_sequence
      /\ ~ faults.junit_event_mismatch
      /\ ~ faults.invalid_or_duplicate_junit_mapping
      /\ ~ faults.invalid_or_missing_junit
      /\ ~ faults.junit_case_set_mismatch
      /\ ~ faults.nonzero_exit_without_failure
  BY <1>1 DEF Faults
<1> QED
  BY <1>2 DEF Faults

(* A passed gate leaves no case blocked, failed or missing.                 *)
LEMMA PassedManifest ==
    ASSUME NEW frozen, NEW e, Manifest(frozen, e).gate = "passed"
    PROVE  /\ Errors(frozen, e) = {}
           /\ \A c \in DOMAIN frozen : StatusOf(frozen, e, c) \notin {"blocked", "failed"}
           /\ \A c \in DOMAIN frozen : frozen[c] # "required"
<1> DEFINE errors == Errors(frozen, e)
           result(c) == IF StatusOf(frozen, e, c) = "passed" /\ errors # {} THEN "blocked"
                        ELSE StatusOf(frozen, e, c)
<1>1. Manifest(frozen, e).gate =
        IF errors # {} \/ \E c \in DOMAIN frozen : result(c) = "blocked" THEN "blocked"
        ELSE IF \E c \in DOMAIN frozen : result(c) = "failed" \/ frozen[c] = "required"
        THEN "failed" ELSE "passed"
  BY DEF Manifest
<1> HIDE DEF errors
<1>2. /\ errors = {}
      /\ ~ \E c \in DOMAIN frozen : result(c) = "blocked"
      /\ ~ \E c \in DOMAIN frozen : result(c) = "failed" \/ frozen[c] = "required"
  BY <1>1
<1> QED
  BY <1>2 DEF errors

(* reconcile.py: the gate passes only if the process ran to its end with    *)
(* exit code 0, under the invocation its own events name, and both pytest's *)
(* events and JUnit say of every automation candidate of the plan that it   *)
(* passed; whatever else the files contain, and however they were damaged.  *)
THEOREM PassedGateIsCorroborated ==
    ASSUME NEW frozen, NEW e, Manifest(frozen, e).gate = "passed"
    PROVE  /\ ProcessCompleted(e) /\ ExitCode(e) = 0
           /\ SessionEvents(e) /\ SameInvocation(e) /\ SessionMatchesProcess(e)
           /\ CasesOf(Rows(e)) = Expected(frozen)
           /\ \A c \in Expected(frozen) :
                /\ \A p \in Phases : Outcome(e, c, p) = "passed"
                /\ InSequence(e, c)
                /\ JUnit(e, c) = "passed"
<1>1. /\ Errors(frozen, e) = {}
      /\ \A c \in DOMAIN frozen : StatusOf(frozen, e, c) \notin {"blocked", "failed"}
  BY PassedManifest
<1>2. /\ ProcessCompleted(e)
      /\ SessionEvents(e) /\ SameInvocation(e) /\ SessionMatchesProcess(e)
      /\ CasesOf(Rows(e)) = Expected(frozen)
      /\ \A c \in Expected(frozen) : InSequence(e, c) /\ JUnitAgrees(e, c)
      /\ ~ Faults(frozen, e).nonzero_exit_without_failure
  BY <1>1, NoErrors
<1>3. ExitCode(e) = 0
  <2>1. ExitCode(e) \in {0, 1}
    BY <1>2 DEF ProcessCompleted, ExitCode
  <2>2. ~ (ExitCode(e) = 1 /\ \A c \in DOMAIN frozen :
                                StatusOf(frozen, e, c) \notin {"failed", "blocked"})
    BY <1>2 DEF Faults
  <2> QED
    BY <2>1, <2>2, <1>1
<1>4. ASSUME NEW c \in Expected(frozen)
      PROVE  /\ \A p \in Phases : Outcome(e, c, p) = "passed"
             /\ JUnit(e, c) = "passed"
  <2>1. c \in DOMAIN frozen /\ frozen[c] = "auto"
    BY DEF Expected
  <2>2. \A p \in Phases : Outcome(e, c, p) = "passed"
    BY <2>1, <1>1 DEF StatusOf
  <2>3. Raw(e, c) = "passed"
    BY <2>2 DEF Raw, Phases
  <2> QED
    BY <2>2, <2>3, <1>2 DEF JUnitAgrees
<1> QED
  BY <1>2, <1>3, <1>4

(* Exactly one row names each planned check.                                *)
LEMMA OneRowEach ==
    ASSUME NEW owner, NEW Event, NEW rows \in Seq(Event), NEW places \in SUBSET DOMAIN rows,
           OnceEach(owner, rows, places), NEW k \in DOMAIN owner
    PROVE  \E i \in places : {j \in places : rows[j].check = k} = {i}
<1> DEFINE same == {j \in places : rows[j].check = k}
<1>1. IsFiniteSet(DOMAIN rows)
  <2>1. DOMAIN rows = 1 .. Len(rows) /\ Len(rows) \in Nat
    OBVIOUS
  <2> QED
    BY <2>1, FS_Interval
<1>2. IsFiniteSet(same)
  BY <1>1, FS_Subset
<1>3. Cardinality(same) = 1
  BY DEF OnceEach
<1>4. PICK i : same = {i}
  BY <1>2, <1>3, FS_Singleton
<1> QED
  BY <1>4

(* What a contract without errors says of check k.                          *)
Evaluated(owner, events, mapping, k) ==
    \E i \in OfEvent(events, "check") :
      /\ {j \in OfEvent(events, "check") : events[j].check = k} = {i}
      /\ events[i].case = owner[k] /\ At(mapping, owner[k], events[i].node)
      /\ events[i].phase = "call" /\ events[i].outcome = "passed"

(* contract_errors() finds nothing only if each planned check left exactly  *)
(* one event and has exactly one call in the source, the event says it held *)
(* in the body of the test collected for its case, there is no event of     *)
(* another check, and each case read in its body what it declares.          *)
LEMMA AcceptedContract ==
    ASSUME NEW owner, NEW data, NEW Row, NEW bindings \in Seq(Row),
           NEW Event, NEW events \in Seq(Event), NEW mapping,
           ContractErrors(owner, data, bindings, events, mapping) = {}
    PROVE  /\ DOMAIN owner # {}
           /\ \A k \in DOMAIN owner :
                /\ \E i \in DOMAIN bindings : {j \in DOMAIN bindings : bindings[j].check = k} = {i}
                /\ Evaluated(owner, events, mapping, k)
           /\ \A i \in OfEvent(events, "check") : events[i].check \in DOMAIN owner
           /\ \A c \in DOMAIN data : ReadsOf(events, c) = data[c]
<1> DEFINE faults == ContractFaults(owner, data, bindings, events, mapping)
<1>1. DOMAIN owner # {} /\ \A name \in DOMAIN faults : ~ faults[name]
  BY DEF ContractErrors
<1>2. /\ ~ faults.source_check_binding_mismatch
      /\ ~ faults.missing_or_duplicate_check_events
      /\ ~ faults.invalid_check_event_mapping
      /\ ~ faults.unsuccessful_required_check
      /\ ~ faults.declared_observed_data_mismatch
  BY <1>1 DEF ContractFaults
<1>3. /\ OnceEach(owner, bindings, DOMAIN bindings)
      /\ OnceEach(owner, events, OfEvent(events, "check"))
      /\ \A i \in OfEvent(events, "check") :
           CheckInPlace(owner, events[i], mapping) /\ events[i].outcome = "passed"
      /\ \A c \in DOMAIN data : ReadsOf(events, c) = data[c]
  BY <1>2 DEF ContractFaults
<1>4. ASSUME NEW k \in DOMAIN owner
      PROVE  /\ \E i \in DOMAIN bindings : {j \in DOMAIN bindings : bindings[j].check = k} = {i}
             /\ Evaluated(owner, events, mapping, k)
  <2>1. \E i \in DOMAIN bindings : {j \in DOMAIN bindings : bindings[j].check = k} = {i}
    BY <1>3, OneRowEach
  <2>2. OfEvent(events, "check") \in SUBSET DOMAIN events
    BY DEF OfEvent
  <2>3. PICK i \in OfEvent(events, "check") : {j \in OfEvent(events, "check") : events[j].check = k} = {i}
    BY <2>2, <1>3, OneRowEach
  <2>4. events[i].check = k
    BY <2>3
  <2> QED
    BY <2>1, <2>3, <2>4, <1>3 DEF CheckInPlace, Evaluated
<1>5. \A i \in OfEvent(events, "check") : events[i].check \in DOMAIN owner
  BY <1>3 DEF OnceEach
<1> QED
  BY <1>1, <1>3, <1>4, <1>5

(* bindings.py with reconcile.py: if the gate of an attempt passes and its  *)
(* contract has no errors, each planned check of an automated case was      *)
(* evaluated exactly once and held, in the body of the collected test of    *)
(* its own case, and pytest's events and JUnit both say that test passed in *)
(* all its phases; whatever a test swallows, repeats, skips or evaluates in *)
(* a fixture.                                                               *)
THEOREM AcceptedChecksRan ==
    ASSUME NEW frozen, NEW e, NEW owner, NEW data, NEW Row, NEW bindings \in Seq(Row),
           NEW Event, NEW events \in Seq(Event),
           Manifest(frozen, e).gate = "passed",
           ContractErrors(owner, data, bindings, events, Mapping(e)) = {},
           \A k \in DOMAIN owner : owner[k] \in Expected(frozen)
    PROVE  \A k \in DOMAIN owner : \E i \in OfEvent(events, "check") :
             /\ {j \in OfEvent(events, "check") : events[j].check = k} = {i}
             /\ events[i].phase = "call" /\ events[i].outcome = "passed"
             /\ events[i].node = Mapping(e)[owner[k]]
             /\ \A p \in Phases : Outcome(e, owner[k], p) = "passed"
             /\ JUnit(e, owner[k]) = "passed"
<1> DEFINE mapping == Mapping(e)
<1>0. \A k \in DOMAIN owner : Evaluated(owner, events, mapping, k)
  BY AcceptedContract
<1> TAKE k \in DOMAIN owner
<1>1. PICK i \in OfEvent(events, "check") :
        /\ {j \in OfEvent(events, "check") : events[j].check = k} = {i}
        /\ At(Mapping(e), owner[k], events[i].node)
        /\ events[i].phase = "call" /\ events[i].outcome = "passed"
  BY <1>0 DEF Evaluated
<1>2. events[i].node = Mapping(e)[owner[k]]
  BY <1>1 DEF At
<1>3. /\ \A p \in Phases : Outcome(e, owner[k], p) = "passed"
      /\ JUnit(e, owner[k]) = "passed"
  BY PassedGateIsCorroborated
<1> QED
  BY <1>1, <1>2, <1>3

----------------------------------------------------------------------------
(* The inductive invariant *)

(* s is a sequence, whatever its elements are.                              *)
IsSeq(s) == s \in Seq(ToSet(s))

(* What the phases of one test can have done: each phase that is over lets  *)
(* the ones before it be over, a call takes a setup that passed, and only a *)
(* call can pass unexpectedly.                                              *)
PhasesOK(t) ==
    /\ t.setup \in {None, "passed", "failed", "skipped"}
    /\ t.teardown \in {None, "passed", "failed"}
    /\ t.call # None => t.setup = "passed"
    /\ t.teardown # None => t.setup # None /\ (t.setup = "passed" => t.call # None)

(* The phases of the item in progress that are over.                        *)
InProgress(t) ==
    /\ phase = "setup" => t.setup = None
    /\ phase = "call" => t.setup = "passed" /\ t.call = None
    /\ phase = "teardown" => /\ t.setup # None /\ t.teardown = None
                             /\ t.setup = "passed" => t.call # None

(* pytest runs the selected items one after the other, each of them once.   *)
ProgressInv ==
    /\ todo \in Seq(Nodes) /\ \A i, j \in 1 .. Len(todo) : todo[i] = todo[j] => i = j
    /\ done \in 0 .. Len(todo) /\ phase \in Phases
    /\ done = Len(todo) => phase = "setup"
    /\ stage \in {"boot", "collecting"} => todo = <<>>
    /\ truth \in [Nodes -> [Phases -> Outcomes \cup {None}]]
    /\ \A n \in Nodes : PhasesOK(truth[n])
    /\ \A i \in 1 .. done : truth[todo[i]].teardown # None
    /\ done < Len(todo) => InProgress(truth[Item])
    /\ \A i \in 1 .. Len(todo) : i > done + 1 => truth[todo[i]].setup = None
    /\ \A n \in Nodes \ ToSet(todo) : truth[n].setup = None

(* What every report in the events says, altered or not, and what it says   *)
(* unless the events were altered.                                          *)
ReportOK(r) ==
    /\ r.node \in Nodes /\ r.phase \in Phases /\ truth[r.node][r.phase] # None
    /\ r.outcome \in {"passed", "failed", Recorded(truth[r.node][r.phase])}

Genuine(r) == r.case = CaseOf(r.node) /\ r.outcome = Recorded(truth[r.node][r.phase])

EventsInv ==
    stage \in {"collecting", "running"} \/ ev.events # None =>
      /\ IsSeq(ev.events)
      /\ \A r \in ToSet(ev.events) :
           r.kind = "report" => ReportOK(r) /\ (damaged # "events" => Genuine(r))

(* What a JUnit element with its two properties says of a test that is over.*)
EntryOK(x) ==
    x.case # None =>
      /\ x.node \in Nodes /\ x.case = CaseOf(x.node) /\ truth[x.node].teardown # None
      /\ x.outcome = "passed" => TrulyPassed(x.node)
      /\ x.outcome = "failed" => truth[x.node].call = "failed"
      /\ x.outcome = "error" => "failed" \in {truth[x.node].setup, truth[x.node].teardown}

JUnitInv ==
    /\ IsSeq(elements) /\ \A x \in ToSet(elements) : EntryOK(x)
    /\ damaged # "junit" => /\ IsSeq(Entries(ev))
                            /\ \A x \in ToSet(Entries(ev)) : EntryOK(x)

VerdictInv == verdict # None => stage = "judged" /\ verdict = Manifest(plan, ev)

(* What every check or data event says: the contract it was evaluated under *)
(* stays the one of the plan.                                               *)
LogOK(x) ==
    /\ x.kind \in {"check", "data_read"}
    /\ x.node \in Nodes /\ x.case = CaseOf(x.node)
    /\ x.phase \in Phases /\ truth[x.node][x.phase] # None
    /\ x.kind = "check" => x.check \in Checks /\ x.outcome \in {"passed", "failed"}
    /\ x.kind = "data_read" => x.data \in Data

LogInv ==
    /\ contract # NoContract => plan # None /\ contract \in Contracts
    /\ contract = NoContract => log = <<>>
    /\ IsSeq(log) /\ \A x \in ToSet(log) : LogOK(x)
    /\ slips \in 0 .. MaxSlips

FlagsInv ==
    /\ stage \in Stages /\ generated \in BOOLEAN /\ stopped \in BOOLEAN
    /\ marker \in [Nodes -> Cases \cup {None}]
    /\ damaged \in Sources \cup {None}
    /\ damaged # None => stage \in {"ended", "judged"}
    /\ DOMAIN ev = Sources

SessionInv ==
    FlagsInv /\ ProgressInv /\ EventsInv /\ JUnitInv /\ VerdictInv /\ LogInv

----------------------------------------------------------------------------
(* Sequences, and what the community modules' operators make of them        *)

LEMMA SeqShape ==
    ASSUME NEW S, NEW s \in Seq(S)
    PROVE  IsSeq(s) /\ ToSet(s) \subseteq S
<1>1. s \in [1 .. Len(s) -> ToSet(s)] /\ Len(s) \in Nat
  BY DEF ToSet
<1> QED
  BY <1>1 DEF ToSet, IsSeq

LEMMA JoinedShape ==
    ASSUME NEW s, NEW t, IsSeq(s), IsSeq(t)
    PROVE  /\ IsSeq(s \o t) /\ ToSet(s \o t) = ToSet(s) \cup ToSet(t)
           /\ Len(s \o t) = Len(s) + Len(t)
           /\ \A i \in 1 .. Len(s) : (s \o t)[i] = s[i]
           /\ \A i \in 1 .. Len(t) : (s \o t)[Len(s) + i] = t[i]
<1> DEFINE S == ToSet(s) \cup ToSet(t)
<1>1. s \in Seq(S) /\ t \in Seq(S)
  BY DEF IsSeq
<1>2. /\ s \o t \in Seq(S)
      /\ Len(s \o t) = Len(s) + Len(t)
      /\ \A i \in 1 .. Len(s) + Len(t) :
           (s \o t)[i] = IF i <= Len(s) THEN s[i] ELSE t[i - Len(s)]
  BY <1>1, ConcatProperties
<1>3. /\ Len(s) \in Nat /\ DOMAIN s = 1 .. Len(s)
      /\ Len(t) \in Nat /\ DOMAIN t = 1 .. Len(t)
      /\ DOMAIN (s \o t) = 1 .. Len(s) + Len(t)
  BY <1>1, <1>2
<1>4. IsSeq(s \o t)
  BY <1>2, SeqShape
<1>5. /\ \A i \in 1 .. Len(s) : (s \o t)[i] = s[i]
      /\ \A i \in 1 .. Len(t) : (s \o t)[Len(s) + i] = t[i]
  BY <1>2, <1>3
<1>6. ToSet(s \o t) \subseteq S
  BY <1>2, SeqShape
<1>7. ASSUME NEW x \in ToSet(s) PROVE x \in ToSet(s \o t)
  <2>1. PICK i \in 1 .. Len(s) : x = s[i]
    BY <1>3 DEF ToSet
  <2> QED
    BY <2>1, <1>3, <1>5 DEF ToSet
<1>8. ASSUME NEW x \in ToSet(t) PROVE x \in ToSet(s \o t)
  <2>1. PICK i \in 1 .. Len(t) : x = t[i]
    BY <1>3 DEF ToSet
  <2>2. Len(s) + i \in 1 .. Len(s) + Len(t)
    BY <1>3
  <2> QED
    BY <2>1, <2>2, <1>3, <1>5 DEF ToSet
<1> QED
  BY <1>2, <1>4, <1>5, <1>6, <1>7, <1>8

LEMMA AppendedShape ==
    ASSUME NEW s, IsSeq(s), NEW x
    PROVE  /\ IsSeq(Append(s, x)) /\ ToSet(Append(s, x)) = ToSet(s) \cup {x}
           /\ Len(Append(s, x)) = Len(s) + 1
           /\ \A i \in 1 .. Len(s) : Append(s, x)[i] = s[i]
           /\ Append(s, x)[Len(s) + 1] = x
<1> DEFINE S == ToSet(s) \cup {x}
<1>1. s \in Seq(S)
  BY DEF IsSeq
<1>2. /\ Append(s, x) \in Seq(S)
      /\ Len(Append(s, x)) = Len(s) + 1
      /\ \A i \in 1 .. Len(s) : Append(s, x)[i] = s[i]
      /\ Append(s, x)[Len(s) + 1] = x
  BY <1>1, AppendProperties
<1>3. /\ Len(s) \in Nat /\ DOMAIN s = 1 .. Len(s)
      /\ DOMAIN Append(s, x) = 1 .. Len(s) + 1
  BY <1>1, <1>2
<1>4. IsSeq(Append(s, x)) /\ ToSet(Append(s, x)) \subseteq S
  BY <1>2, SeqShape
<1>5. x \in ToSet(Append(s, x))
  BY <1>2, <1>3 DEF ToSet
<1>6. ASSUME NEW y \in ToSet(s) PROVE y \in ToSet(Append(s, x))
  <2>1. PICK i \in 1 .. Len(s) : y = s[i]
    BY <1>3 DEF ToSet
  <2> QED
    BY <2>1, <1>2, <1>3 DEF ToSet
<1> QED
  BY <1>2, <1>4, <1>5, <1>6

LEMMA SingleShape ==
    ASSUME NEW x
    PROVE  IsSeq(<<x>>) /\ ToSet(<<x>>) = {x} /\ Len(<<x>>) = 1 /\ <<x>>[1] = x
<1>1. <<x>> \in Seq({x}) /\ Len(<<x>>) = 1 /\ <<x>>[1] = x /\ DOMAIN <<x>> = 1 .. 1
  OBVIOUS
<1>2. IsSeq(<<x>>)
  BY <1>1, SeqShape
<1>3. x \in ToSet(<<x>>)
  BY <1>1 DEF ToSet
<1> QED
  BY <1>1, <1>2, <1>3, SeqShape

LEMMA NoShape ==
    IsSeq(<<>>) /\ ToSet(<<>>) = {} /\ Len(<<>>) = 0
<1>1. DOMAIN <<>> = {}
  OBVIOUS
<1>2. ToSet(<<>>) = {}
  BY <1>1 DEF ToSet
<1> QED
  BY <1>2 DEF IsSeq

LEMMA PartShape ==
    ASSUME NEW s, IsSeq(s), NEW m \in Int, NEW n \in Int, 1 <= m, n <= Len(s)
    PROVE  IsSeq(SubSeq(s, m, n)) /\ ToSet(SubSeq(s, m, n)) \subseteq ToSet(s)
<1>1. s \in Seq(ToSet(s)) /\ Len(s) \in Nat /\ DOMAIN s = 1 .. Len(s)
  BY DEF IsSeq
<1>2. SubSeq(s, m, n) \in Seq(ToSet(s))
  BY <1>1, SubSeqProperties
<1> QED
  BY <1>2, SeqShape

(* A line of a file that is lost, doubled or altered leaves the others.     *)
LEMMA RemovedShape ==
    ASSUME NEW s, IsSeq(s), NEW i \in DOMAIN s
    PROVE  IsSeq(RemoveAt(s, i)) /\ ToSet(RemoveAt(s, i)) \subseteq ToSet(s)
<1>1. Len(s) \in Nat /\ DOMAIN s = 1 .. Len(s)
  BY DEF IsSeq
<1>2. /\ IsSeq(SubSeq(s, 1, i - 1)) /\ ToSet(SubSeq(s, 1, i - 1)) \subseteq ToSet(s)
      /\ IsSeq(SubSeq(s, i + 1, Len(s))) /\ ToSet(SubSeq(s, i + 1, Len(s))) \subseteq ToSet(s)
  BY <1>1, PartShape
<1> QED
  BY <1>2, JoinedShape DEF RemoveAt

LEMMA DoubledShape ==
    ASSUME NEW s, IsSeq(s), NEW i \in DOMAIN s
    PROVE  IsSeq(InsertAt(s, i, s[i])) /\ ToSet(InsertAt(s, i, s[i])) \subseteq ToSet(s)
<1> DEFINE first == SubSeq(s, 1, i - 1)  rest == SubSeq(s, i, Len(s))
<1>1. Len(s) \in Nat /\ DOMAIN s = 1 .. Len(s)
  BY DEF IsSeq
<1>2. /\ IsSeq(first) /\ ToSet(first) \subseteq ToSet(s)
      /\ IsSeq(rest) /\ ToSet(rest) \subseteq ToSet(s)
  BY <1>1, PartShape
<1>3. s[i] \in ToSet(s)
  BY DEF ToSet
<1>4. IsSeq(<<s[i]>>) /\ ToSet(<<s[i]>>) \subseteq ToSet(s)
  BY <1>3, SingleShape
<1> HIDE DEF first, rest
<1>5. IsSeq(first \o <<s[i]>>) /\ ToSet(first \o <<s[i]>>) \subseteq ToSet(s)
  BY <1>2, <1>4, JoinedShape
<1>6. IsSeq((first \o <<s[i]>>) \o rest) /\ ToSet((first \o <<s[i]>>) \o rest) \subseteq ToSet(s)
  BY <1>2, <1>5, JoinedShape
<1> QED
  BY <1>6 DEF InsertAt, first, rest

LEMMA AlteredShape ==
    ASSUME NEW s, IsSeq(s), NEW i \in DOMAIN s, NEW x
    PROVE  /\ IsSeq([s EXCEPT ![i] = x]) /\ Len([s EXCEPT ![i] = x]) = Len(s)
           /\ ToSet([s EXCEPT ![i] = x]) \subseteq ToSet(s) \cup {x}
<1>1. s \in Seq(ToSet(s) \cup {x}) /\ Len(s) \in Nat /\ DOMAIN s = 1 .. Len(s)
  BY DEF IsSeq
<1>2. [s EXCEPT ![i] = x] \in Seq(ToSet(s) \cup {x}) /\ Len([s EXCEPT ![i] = x]) = Len(s)
  BY <1>1
<1> QED
  BY <1>2, SeqShape

(* SetToSeq lists a finite set.                                             *)
LEMMA ListedShape ==
    ASSUME NEW S, IsFiniteSet(S)
    PROVE  /\ IsSeq(SetToSeq(S)) /\ ToSet(SetToSeq(S)) = S
           /\ \A i, j \in DOMAIN SetToSeq(S) : SetToSeq(S)[i] = SetToSeq(S)[j] => i = j
<1> DEFINE D == 1 .. Cardinality(S)
           f == SetToSeq(S)
<1>1. Cardinality(S) \in Nat /\ ExistsBijection(D, S)
  BY FS_NatBijection, FS_CountingElements, FS_CardinalityType
<1>2. \E g \in [D -> S] : IsInjective(g)
  <2>1. PICK g \in Bijection(D, S) : TRUE
    BY <1>1 DEF ExistsBijection
  <2> QED
    BY <2>1 DEF Bijection, Injection
<1>3. f \in [D -> S] /\ IsInjective(f)
  BY <1>2 DEF SetToSeq
<1> HIDE DEF f
<1>4. f \in Seq(S) /\ DOMAIN f = D
  BY <1>1, <1>3
<1>5. \A y \in S : \E i \in D : f[i] = y
  <2>1. f \in Injection(D, S)
    BY <1>3 DEF Injection
  <2>2. IsFiniteSet(D) /\ Cardinality(D) = Cardinality(S)
    BY <1>1, FS_Interval
  <2>3. f \in Surjection(D, S)
    BY <2>1, <2>2, FS_SameCardinalityBij, FS_Bijection, FS_Injection
  <2> QED
    BY <2>3 DEF Surjection
<1>6. ToSet(f) = S
  BY <1>4, <1>5, <1>3 DEF ToSet
<1> QED
  BY <1>3, <1>4, <1>6, SeqShape DEF IsInjective, f

----------------------------------------------------------------------------
(* The invariant holds at the start of pytest                               *)

LEMMA StartsWell == Init => SessionInv
<1> SUFFICES ASSUME Init PROVE SessionInv
  OBVIOUS
<1> USE DEF Init, SessionInit
<1>1. FlagsInv
  BY DEF FlagsInv, Stages, Sources
<1>2. ProgressInv
  <2>1. \A n \in Nodes : truth[n] = NotRun
    OBVIOUS
  <2>2. NotRun \in [Phases -> Outcomes \cup {None}]
    BY DEF NotRun, Phases
  <2>3. truth \in [Nodes -> [Phases -> Outcomes \cup {None}]]
    BY <2>2
  <2>4. PhasesOK(NotRun) /\ NotRun.setup = None
    BY DEF PhasesOK, NotRun
  <2> QED
    BY <2>1, <2>3, <2>4 DEF ProgressInv, Phases
<1>3. EventsInv
  BY NoShape DEF EventsInv, Events
<1>4. JUnitInv
  BY NoShape DEF JUnitInv, Entries
<1>5. VerdictInv
  BY DEF VerdictInv
<1>6. LogInv
  <2>1. slips \in 0 .. MaxSlips /\ log = <<>>
    BY SlipsAssumption
  <2>2. contract # NoContract => generated /\ contract \in Contracts
    OBVIOUS
  <2>3. generated => plan # None
    BY NoneAssumption
  <2> QED
    BY <2>1, <2>2, <2>3, NoShape DEF LogInv
<1> QED
  BY <1>1, <1>2, <1>3, <1>4, <1>5, <1>6 DEF SessionInv

----------------------------------------------------------------------------
(* Every step preserves it                                                  *)

(* What no step changes, and what only two of them do.                      *)
LEMMA Frame ==
    ASSUME Next
    PROVE  /\ UNCHANGED <<marker, generated, contract>>
           /\ plan # None => plan' = plan
           /\ (\E outcome \in Outcomes : RunChecked(outcome)) \/ UNCHANGED <<log, slips>>
           /\ (\E outcome \in Outcomes : RunPhase(outcome)) \/ Collect \/ UNCHANGED progress
<1>1. CASE \E outcome \in Outcomes : RunChecked(outcome)
  BY <1>1 DEF RunChecked, RunPhase, suite
<1>2. CASE SessionStep /\ UNCHANGED <<contract, log, slips>>
  <2> USE DEF suite
  <2>1. CASE Start
    BY <1>2, <2>1 DEF Start
  <2>2. CASE Collect
    BY <1>2, <2>2 DEF Collect
  <2>3. CASE FinishSession
    BY <1>2, <2>3 DEF FinishSession
  <2>4. CASE Interrupt
    BY <1>2, <2>4 DEF Interrupt
  <2>5. CASE Exit
    BY <1>2, <2>5 DEF Exit, EndProcess
  <2>6. CASE Timeout
    BY <1>2, <2>6 DEF Timeout, EndProcess
  <2>7. CASE DerivePlan
    BY <1>2, <2>7 DEF DerivePlan
  <2>8. CASE Judge
    BY <1>2, <2>8 DEF Judge
  <2> QED
    BY <1>2, <2>1, <2>2, <2>3, <2>4, <2>5, <2>6, <2>7, <2>8 DEF SessionStep
<1>3. CASE (\E source \in Sources : Damage(source)) /\ UNCHANGED <<contract, log, slips>>
  BY <1>3 DEF Damage, suite
<1> QED
  BY <1>1, <1>2, <1>3 DEF Next

LEMMA FlagsStep ==
    ASSUME SessionInv, Next
    PROVE  FlagsInv' /\ VerdictInv'
<1> USE DEF SessionInv, FlagsInv, VerdictInv, Stages
<1>1. ASSUME NEW outcome \in Outcomes, RunPhase(outcome) PROVE FlagsInv' /\ VerdictInv'
  BY <1>1 DEF RunPhase, suite, Emit
<1>2. CASE SessionStep
  <2> USE DEF suite
  <2>1. CASE Start
    BY <2>1 DEF Start
  <2>2. CASE Collect
    BY <2>2 DEF Collect
  <2>3. CASE FinishSession
    BY <2>3 DEF FinishSession, WriteJUnit
  <2>4. CASE Interrupt
    BY <2>4 DEF Interrupt, WriteJUnit
  <2>5. CASE Exit
    BY <2>5 DEF Exit, EndProcess
  <2>6. CASE Timeout
    BY <2>6 DEF Timeout, EndProcess
  <2>7. CASE DerivePlan
    BY <2>7 DEF DerivePlan
  <2>8. CASE Judge
    BY <2>8 DEF Judge
  <2> QED
    BY <1>2, <2>1, <2>2, <2>3, <2>4, <2>5, <2>6, <2>7, <2>8 DEF SessionStep
<1>3. ASSUME NEW source \in Sources, Damage(source) PROVE FlagsInv' /\ VerdictInv'
  BY <1>3 DEF Damage, suite
<1> QED
  BY <1>1, <1>2, <1>3 DEF Next, RunChecked

(* The items of a session are different tests.                              *)
LEMMA ItemsShape ==
    ASSUME NEW items \in SetToAllKPermutations(Nodes)
    PROVE  /\ items \in Seq(Nodes)
           /\ \A i, j \in 1 .. Len(items) : items[i] = items[j] => i = j
<1>1. PICK S \in SUBSET Nodes : items \in SetToSeqs(S)
  BY DEF SetToAllKPermutations
<1>2. Cardinality(S) \in Nat
  BY SessionAssumption, FS_Subset, FS_CardinalityType
<1>3. /\ items \in [1 .. Cardinality(S) -> S]
      /\ \A i, j \in 1 .. Cardinality(S) : i # j => items[i] # items[j]
  BY <1>1 DEF SetToSeqs
<1> QED
  BY <1>2, <1>3

LEMMA CollectProgress ==
    ASSUME SessionInv, Collect
    PROVE  ProgressInv'
<1> USE DEF SessionInv, ProgressInv
<1>1. /\ stage = "collecting" /\ stage' \in {"running", "finished"}
      /\ UNCHANGED <<done, phase, truth>>
  BY DEF Collect
<1>2. \/ todo' = <<>>
      \/ todo' \in SetToAllKPermutations(Nodes)
  BY DEF Collect
<1>3. /\ todo' \in Seq(Nodes)
      /\ \A i, j \in 1 .. Len(todo') : todo'[i] = todo'[j] => i = j
  <2>1. CASE todo' = <<>>
    BY <2>1
  <2>2. CASE todo' \in SetToAllKPermutations(Nodes)
    BY <2>2, ItemsShape
  <2> QED
    BY <1>2, <2>1, <2>2
<1>4. todo = <<>> /\ done = 0 /\ phase = "setup"
  BY <1>1
<1>5. \A n \in Nodes : truth[n].setup = None
  BY <1>4, NoShape
<1>6. \A i \in 1 .. Len(todo') : todo'[i] \in Nodes
  BY <1>3
<1>7. done' < Len(todo') => InProgress(truth[Item])'
  <2>1. ASSUME done' < Len(todo') PROVE todo'[done' + 1] \in Nodes
    BY <2>1, <1>1, <1>3, <1>4
  <2> QED
    BY <2>1, <1>1, <1>4, <1>5 DEF InProgress, Item
<1> HIDE DEF SessionInv
<1>8. ProgressInv
  BY DEF SessionInv
<1> QED
  BY <1>1, <1>3, <1>4, <1>5, <1>6, <1>7, <1>8 DEF ToSet

(* A phase is over: nothing is known yet of it or of the ones after it.     *)
LEMMA PhaseProgress ==
    ASSUME SessionInv, NEW outcome \in Outcomes, RunPhase(outcome),
           NEW n, n = Item
    PROVE  /\ ProgressInv'
           /\ n \in Nodes /\ n = todo[done + 1] /\ done + 1 \in 1 .. Len(todo)
           /\ truth[n][phase] = None /\ truth[n].teardown = None
           /\ truth'[n] = [truth[n] EXCEPT ![phase] = outcome]
           /\ \A m \in Nodes \ {n} : truth'[m] = truth[m]
<1> USE DEF ProgressInv
<1>1. /\ ProgressInv
      /\ stage = "running" /\ done < Len(todo) /\ UNCHANGED <<stage, todo>>
      /\ phase = "setup" => outcome # "xpassed"
      /\ phase = "teardown" => outcome \in {"passed", "failed"}
      /\ truth' = [truth EXCEPT ![n][phase] = outcome]
      /\ phase' = CASE phase = "setup" /\ outcome = "passed" -> "call"
                    [] phase = "setup" /\ outcome # "passed" -> "teardown"
                    [] phase = "call" -> "teardown"
                    [] OTHER -> "setup"
      /\ done' = IF phase = "teardown" THEN done + 1 ELSE done
  BY DEF SessionInv, RunPhase, Over
<1>2. n \in Nodes /\ n = todo[done + 1] /\ done + 1 \in 1 .. Len(todo)
  BY <1>1 DEF Item
<1>3. phase \in {"setup", "call", "teardown"}
  BY <1>1 DEF Phases
<1>4. /\ truth[n] \in [Phases -> Outcomes \cup {None}]
      /\ PhasesOK(truth[n]) /\ InProgress(truth[n])
  BY <1>1, <1>2
<1>5. truth[n][phase] = None /\ truth[n].teardown = None
  BY <1>3, <1>4, NoneAssumption DEF PhasesOK, InProgress, Outcomes
<1>6. /\ truth'[n] = [truth[n] EXCEPT ![phase] = outcome]
      /\ \A m \in Nodes \ {n} : truth'[m] = truth[m]
      /\ truth' \in [Nodes -> [Phases -> Outcomes \cup {None}]]
  BY <1>1, <1>2, <1>4
<1> DEFINE t == truth'[n]
<1>7. t[phase] = outcome /\ \A p \in Phases \ {phase} : t[p] = truth[n][p]
  BY <1>1, <1>4, <1>6
<1> HIDE DEF t
<1>8. outcome # None
  BY NoneAssumption
<1>9. /\ PhasesOK(t)
      /\ phase = "teardown" => t.teardown # None
      /\ phase = "setup" => t.setup = outcome /\ t.call = None /\ t.teardown = None
      /\ phase = "call" => t.setup = "passed" /\ t.call = outcome /\ t.teardown = None
  <2> USE <1>1, <1>4, <1>5, <1>7, <1>8, NoneAssumption DEF PhasesOK, InProgress, Outcomes, Phases
  <2>1. CASE phase = "setup"
    BY <2>1
  <2>2. CASE phase = "call"
    BY <2>2
  <2>3. CASE phase = "teardown"
    BY <2>3
  <2> QED
    BY <1>3, <2>1, <2>2, <2>3
<1>10. \A m \in Nodes : PhasesOK(truth'[m])
  BY <1>1, <1>6, <1>9 DEF t
<1>11. \A i \in 1 .. Len(todo) : (todo[i] = n <=> i = done + 1) /\ todo[i] \in Nodes
  BY <1>1, <1>2
<1>12. CASE phase = "teardown"
  <2>1. done' = done + 1 /\ phase' = "setup" /\ done' \in 0 .. Len(todo)
    BY <1>1, <1>12
  <2>2. \A i \in 1 .. done' : truth'[todo[i]].teardown # None
    BY <1>1, <1>6, <1>9, <1>11, <1>12, <2>1 DEF t
  <2>3. \A i \in 1 .. Len(todo) : i > done' => truth'[todo[i]].setup = None
    BY <1>1, <1>6, <1>11, <2>1
  <2>4. done' < Len(todo') => InProgress(truth[Item])'
    BY <2>1, <2>3, <1>1 DEF InProgress, Item
  <2>5. \A m \in Nodes \ ToSet(todo) : truth'[m].setup = None
    BY <1>1, <1>2, <1>6 DEF ToSet
  <2>6. \A i \in 1 .. Len(todo) : i > done' + 1 => truth'[todo[i]].setup = None
    BY <1>1, <2>1, <2>3
  <2>7. stage' = "running" /\ todo' = todo /\ phase' \in Phases /\ ProgressInv
    BY <1>1, <2>1 DEF Phases
  <2>8. ProgressInv'
    BY <2>7, <1>6, <1>10, <2>1, <2>2, <2>4, <2>5, <2>6
  <2> QED
    BY <1>2, <1>5, <1>6, <2>8
<1>13. CASE phase # "teardown"
  <2>1. done' = done /\ phase' \in {"call", "teardown"}
    BY <1>1, <1>3, <1>13
  <2>2. \A i \in 1 .. done' : truth'[todo[i]].teardown # None
    BY <1>1, <1>6, <1>11, <2>1
  <2>3. \A i \in 1 .. Len(todo) : i > done' + 1 => truth'[todo[i]].setup = None
    BY <1>1, <1>6, <1>11, <2>1
  <2>4. InProgress(truth[Item])'
    <3>1. truth'[Item'] = t
      BY <1>1, <1>2, <2>1 DEF Item, t
    <3>2. phase' = "call" => t.setup = "passed" /\ t.call = None
      BY <1>1, <1>3, <1>9, <1>13
    <3>3. phase' = "teardown" => /\ t.setup # None /\ t.teardown = None
                                 /\ t.setup = "passed" => t.call # None
      BY <1>1, <1>3, <1>8, <1>9, <1>13, NoneAssumption DEF Outcomes
    <3> QED
      BY <2>1, <3>1, <3>2, <3>3 DEF InProgress
  <2>5. \A m \in Nodes \ ToSet(todo) : truth'[m].setup = None
    BY <1>1, <1>2, <1>6 DEF ToSet
  <2> QED
    BY <1>1, <1>2, <1>5, <1>6, <1>10, <2>1, <2>2, <2>3, <2>4, <2>5 DEF Phases
<1> QED
  BY <1>12, <1>13

LEMMA ProgressStep ==
    ASSUME SessionInv, Next
    PROVE  ProgressInv'
<1>1. ASSUME NEW outcome \in Outcomes, RunPhase(outcome) PROVE ProgressInv'
  BY <1>1, PhaseProgress
<1>2. CASE Collect
  BY <1>2, CollectProgress
<1>3. CASE UNCHANGED progress
  <2>1. stage' \in {"boot", "collecting"} => stage \in {"boot", "collecting"}
    BY DEF Next, RunChecked, RunPhase, SessionStep, Start, Collect, FinishSession, Interrupt,
           Exit, Timeout, EndProcess, DerivePlan, Judge, Damage
  <2>2. ProgressInv
    BY DEF SessionInv
  <2> QED
    BY <1>3, <2>1, <2>2 DEF progress, ProgressInv, InProgress, Item
<1> QED
  BY <1>1, <1>2, <1>3, Frame

(* What a phase did is never forgotten.                                     *)
LEMMA TruthIsKept ==
    ASSUME SessionInv, Next
    PROVE  /\ \A n \in Nodes, p \in Phases : truth[n][p] # None => truth'[n][p] = truth[n][p]
           /\ \A n \in Nodes : truth[n].teardown # None => truth'[n] = truth[n]
           /\ marker' = marker
<1>1. ASSUME NEW outcome \in Outcomes, RunPhase(outcome)
      PROVE  /\ \A n \in Nodes, p \in Phases : truth[n][p] # None => truth'[n][p] = truth[n][p]
             /\ \A n \in Nodes : truth[n].teardown # None => truth'[n] = truth[n]
  <2>1. PICK m : m = Item
    OBVIOUS
  <2>2. /\ m \in Nodes /\ truth[m][phase] = None /\ truth[m].teardown = None
        /\ truth'[m] = [truth[m] EXCEPT ![phase] = outcome]
        /\ \A n \in Nodes \ {m} : truth'[n] = truth[n]
    BY <1>1, <2>1, PhaseProgress
  <2>3. truth[m] \in [Phases -> Outcomes \cup {None}]
    BY <2>2 DEF SessionInv, ProgressInv
  <2> QED
    BY <2>2, <2>3
<1>2. CASE UNCHANGED truth
  BY <1>2, Frame
<1> QED
  BY <1>1, <1>2, Frame DEF Collect, progress

LEMMA ReportsAreKept ==
    ASSUME SessionInv, Next, NEW r, ReportOK(r)
    PROVE  ReportOK(r)' /\ (Genuine(r) => Genuine(r)')
BY TruthIsKept DEF ReportOK, Genuine, CaseOf

LEMMA EntriesAreKept ==
    ASSUME SessionInv, Next, NEW x, EntryOK(x)
    PROVE  EntryOK(x)'
BY TruthIsKept DEF EntryOK, CaseOf, TrulyPassed

(* One altered line of the events keeps the node and the phase of a report. *)
LEMMA AlteredReports ==
    ASSUME SessionInv, ev.events # None, NEW altered \in AlteredEvents
    PROVE  /\ IsSeq(altered)
           /\ \A r \in ToSet(altered) : r.kind = "report" => ReportOK(r)
<1> DEFINE lines == ev.events
           Fine(s) == IsSeq(s) /\ \A r \in ToSet(s) : r.kind = "report" => ReportOK(r)
<1>1. Events(ev) = lines /\ Fine(lines)
  BY DEF SessionInv, EventsInv, Events
<1>2. ASSUME NEW i \in DOMAIN lines PROVE Fine(RemoveAt(lines, i)) /\ Fine(InsertAt(lines, i, lines[i]))
  BY <1>1, RemovedShape, DoubledShape
<1>3. ASSUME NEW i \in DOMAIN lines, NEW x, x.kind = "report" => ReportOK(x)
      PROVE  Fine([lines EXCEPT ![i] = x])
  BY <1>1, <1>3, AlteredShape
<1>4. ASSUME NEW i \in OfKind(ev, "report")
      PROVE  i \in DOMAIN lines /\ lines[i].kind = "report" /\ ReportOK(lines[i])
  BY <1>1 DEF OfKind, ToSet
<1>5. ASSUME NEW i \in OfKind(ev, "report"), NEW o \in {"passed", "failed"}
      PROVE  Fine([lines EXCEPT ![i].outcome = o])
  <2>1. ReportOK([lines[i] EXCEPT !.outcome = o])
    BY <1>4 DEF ReportOK
  <2> QED
    BY <1>3, <1>4, <2>1
<1>6. ASSUME NEW i \in OfKind(ev, "report")
      PROVE  Fine([lines EXCEPT ![i].xfail = FALSE])
  <2>1. ReportOK([lines[i] EXCEPT !.xfail = FALSE])
    BY <1>4 DEF ReportOK
  <2> QED
    BY <1>3, <1>4, <2>1
<1>7. ASSUME NEW i \in OfKind(ev, "report"), NEW c \in Cases
      PROVE  Fine([lines EXCEPT ![i].case = c])
  <2>1. ReportOK([lines[i] EXCEPT !.case = c])
    BY <1>4 DEF ReportOK
  <2> QED
    BY <1>3, <1>4, <2>1
<1>8. ASSUME NEW i \in OfKind(ev, "finish"), NEW x \in {0, 1}
      PROVE  Fine([lines EXCEPT ![i].exit = x])
  <2>1. i \in DOMAIN lines /\ lines[i].kind = "finish"
    BY <1>1 DEF OfKind
  <2>2. [lines[i] EXCEPT !.exit = x].kind # "report"
    BY <2>1
  <2> QED
    BY <1>3, <2>1, <2>2
<1> HIDE DEF Fine
<1>9. Fine(altered)
  <2>1. \/ \E i \in DOMAIN lines : altered = RemoveAt(lines, i)
        \/ \E i \in DOMAIN lines : altered = InsertAt(lines, i, lines[i])
        \/ \E i \in OfKind(ev, "report"), o \in {"passed", "failed"} :
             altered = [lines EXCEPT ![i].outcome = o]
        \/ \E i \in OfKind(ev, "report") : altered = [lines EXCEPT ![i].xfail = FALSE]
        \/ \E i \in OfKind(ev, "report"), c \in Cases : altered = [lines EXCEPT ![i].case = c]
        \/ \E i \in OfKind(ev, "finish"), x \in {0, 1} : altered = [lines EXCEPT ![i].exit = x]
    BY SMT DEF AlteredEvents
  <2> QED
    BY <2>1, <1>2, <1>5, <1>6, <1>7, <1>8
<1> QED
  BY <1>9 DEF Fine

LEMMA EventsStep ==
    ASSUME SessionInv, Next
    PROVE  EventsInv'
<1> DEFINE Fine(lines) ==
        IsSeq(lines) /\ \A r \in ToSet(lines) :
          r.kind = "report" => ReportOK(r)' /\ (damaged' # "events" => Genuine(r)')
<1>0. DOMAIN ev = Sources /\ "events" \in Sources /\ FlagsInv
  BY DEF SessionInv, FlagsInv, Sources
<1>1. SUFFICES ASSUME stage' \in {"collecting", "running"} \/ ev'.events # None
               PROVE  Fine(ev'.events)
  BY DEF EventsInv
<1>2. ASSUME stage \in {"collecting", "running"} \/ ev.events # None, damaged' = damaged
      PROVE  Fine(ev.events)
  BY <1>2, ReportsAreKept DEF SessionInv, EventsInv
<1>3. ASSUME stage \in {"collecting", "running"}, damaged' = damaged,
             NEW x, ev'.events = Append(ev.events, x),
             x.kind = "report" => ReportOK(x)' /\ Genuine(x)'
      PROVE  Fine(ev'.events)
  BY <1>2, <1>3, AppendedShape
<1>4. \A code, collected : FinishEvent(code, collected).kind = "finish"
  BY DEF FinishEvent
<1>5. ASSUME NEW outcome \in Outcomes, RunPhase(outcome) PROVE Fine(ev'.events)
  <2>1. PICK n : n = Item
    OBVIOUS
  <2>2. PICK x : x = [kind |-> "report", case |-> CaseOf(n), node |-> n, phase |-> phase,
                      outcome |-> Recorded(outcome), xfail |-> outcome = "xpassed"]
    OBVIOUS
  <2>3. /\ stage = "running" /\ UNCHANGED <<damaged, marker>>
        /\ ev' = [ev EXCEPT !.events = Append(@, x)]
    BY <1>5, <2>1, <2>2 DEF RunPhase, Emit, suite
  <2>4. n \in Nodes /\ phase \in Phases /\ truth'[n][phase] = outcome
    <3>1. /\ n \in Nodes /\ truth'[n] = [truth[n] EXCEPT ![phase] = outcome]
      BY <1>5, <2>1, PhaseProgress
    <3>2. truth[n] \in [Phases -> Outcomes \cup {None}] /\ phase \in Phases
      BY <3>1 DEF SessionInv, ProgressInv
    <3> QED
      BY <3>1, <3>2
  <2>5. x.node = n /\ x.phase = phase /\ x.case = CaseOf(n) /\ x.outcome = Recorded(outcome)
    BY <2>2
  <2>6. ev'.events = Append(ev.events, x)
    BY <2>3, <1>0
  <2>7. outcome # None /\ Recorded(outcome) \in {"passed", "failed", Recorded(outcome)}
    BY NoneAssumption
  <2>8. ReportOK(x)' /\ Genuine(x)'
    BY <2>3, <2>4, <2>5, <2>7 DEF ReportOK, Genuine, CaseOf
  <2> QED
    BY <2>3, <2>6, <2>8, <1>3
<1>6. CASE Start
  <2> DEFINE x == [kind |-> "start", id |-> Id]
  <2>1. ev'.events = <<x>>
    BY <1>6, <1>0 DEF Start
  <2>2. x.kind # "report"
    OBVIOUS
  <2> HIDE DEF x
  <2> QED
    BY <2>1, <2>2, SingleShape
<1>7. CASE Collect
  <2>1. /\ stage = "collecting" /\ damaged' = damaged
        /\ \/ ev'.events = ev.events
           \/ ev'.events = Append(ev.events, FinishEvent(4, 0))
    BY <1>7, <1>0 DEF Collect
  <2> QED
    BY <2>1, <1>2, <1>3, <1>4
<1>8. ASSUME NEW partial, stage = "running", WriteJUnit(partial), damaged' = damaged
      PROVE  Fine(ev'.events)
  <2>1. \E code : ev'.events = Append(ev.events, FinishEvent(code, Len(todo)))
    BY <1>8, <1>0 DEF WriteJUnit
  <2> QED
    BY <1>8, <2>1, <1>3, <1>4
<1>9. CASE FinishSession \/ Interrupt
  BY <1>9, <1>8 DEF FinishSession, Interrupt
<1>10. CASE Exit \/ Timeout \/ DerivePlan \/ Judge
  <2>1. ev'.events = ev.events /\ damaged' = damaged /\ stage' \notin {"collecting", "running"}
    BY <1>10, <1>0 DEF Exit, Timeout, EndProcess, DerivePlan, Judge
  <2> QED
    BY <2>1, <1>1, <1>2
<1>11. ASSUME NEW source \in Sources, Damage(source) PROVE Fine(ev'.events)
  <2>1. /\ stage = "ended" /\ damaged = None /\ damaged' = source /\ UNCHANGED <<stage, truth, marker>>
        /\ source # "events" => ev'.events = ev.events
        /\ source = "events" => ev'.events = None \/ (ev.events # None /\ ev'.events \in AlteredEvents)
    BY <1>11, <1>0 DEF Damage, suite, progress
  <2>2. CASE source = "events"
    BY <2>1, <2>2, <1>1, AlteredReports DEF ReportOK
  <2>3. CASE source # "events"
    BY <2>1, <2>3, <1>1, NoneAssumption DEF SessionInv, EventsInv, ReportOK, Genuine, CaseOf, Sources
  <2> QED
    BY <2>2, <2>3
<1> QED
  BY <1>5, <1>6, <1>7, <1>9, <1>10, <1>11 DEF Next, RunChecked, SessionStep

LEMMA PairShape ==
    ASSUME NEW a, NEW b
    PROVE  IsSeq(<<a, b>>) /\ ToSet(<<a, b>>) = {a, b}
<1>1. PICK s : s = <<a>>
  OBVIOUS
<1>2. <<a, b>> = Append(s, b)
  BY <1>1
<1>3. ToSet(s) = {a} /\ IsSeq(s)
  BY <1>1, SingleShape
<1>4. IsSeq(Append(s, b)) /\ ToSet(Append(s, b)) = {a} \cup {b}
  BY <1>3, AppendedShape
<1> QED
  BY <1>2, <1>4

(* pytest's JUnit elements say of a test that is over what it did.          *)
LEMMA ElementsAreTrue ==
    ASSUME NEW n, NEW t \in [Phases -> Outcomes \cup {None}],
           PhasesOK(t), t.teardown # None
    PROVE  /\ IsSeq(JUnitOf(n, t))
           /\ \A x \in ToSet(JUnitOf(n, t)) :
                x.node = n /\ (x.case # None =>
                  /\ x.case = CaseOf(n)
                  /\ x.outcome = "passed" => /\ t.setup = "passed" /\ t.call \in {"passed", "xpassed"}
                                             /\ t.teardown = "passed"
                  /\ x.outcome = "failed" => t.call = "failed"
                  /\ x.outcome = "error" => "failed" \in {t.setup, t.teardown})
<1> DEFINE entry(case, outcome) == [case |-> case, node |-> n, outcome |-> outcome]
           Says(x) == x.node = n /\ (x.case # None =>
                  /\ x.case = CaseOf(n)
                  /\ x.outcome = "passed" => /\ t.setup = "passed" /\ t.call \in {"passed", "xpassed"}
                                             /\ t.teardown = "passed"
                  /\ x.outcome = "failed" => t.call = "failed"
                  /\ x.outcome = "error" => "failed" \in {t.setup, t.teardown})
           one(x) == IsSeq(<<x>>) /\ \A y \in ToSet(<<x>>) : Says(y)
<1>1. t.setup \in Outcomes \cup {None} /\ t.call \in Outcomes \cup {None}
  BY DEF Phases
<1>2. ASSUME NEW x, Says(x) PROVE one(x)
  BY <1>2, SingleShape
<1>3. CASE t.call = "failed" /\ t.teardown = "failed"
  <2>1. JUnitOf(n, t) = <<entry(None, "failed"), entry(CaseOf(n), "error")>>
    BY <1>3 DEF JUnitOf
  <2>2. Says(entry(None, "failed")) /\ Says(entry(CaseOf(n), "error"))
    BY <1>3
  <2> HIDE DEF entry, Says
  <2>3. PICK a, b : a = entry(None, "failed") /\ b = entry(CaseOf(n), "error")
    OBVIOUS
  <2>4. IsSeq(<<a, b>>) /\ ToSet(<<a, b>>) = {a, b}
    BY PairShape
  <2>5. IsSeq(JUnitOf(n, t)) /\ \A x \in ToSet(JUnitOf(n, t)) : Says(x)
    BY <2>1, <2>2, <2>3, <2>4
  <2> QED
    BY <2>5 DEF Says
<1>4. CASE ~ (t.call = "failed" /\ t.teardown = "failed")
  <2>1. \E outcome : /\ JUnitOf(n, t) = <<entry(CaseOf(n), outcome)>>
                     /\ Says(entry(CaseOf(n), outcome))
    <3>1. CASE t.setup = "failed" \/ t.teardown = "failed"
      <4>1. JUnitOf(n, t) = <<entry(CaseOf(n), "error")>>
        BY <3>1, <1>4 DEF JUnitOf
      <4> QED
        BY <4>1, <3>1
    <3>2. CASE ~ (t.setup = "failed" \/ t.teardown = "failed") /\ t.call = "failed"
      <4>1. JUnitOf(n, t) = <<entry(CaseOf(n), "failed")>>
        BY <3>2, <1>4 DEF JUnitOf
      <4> QED
        BY <4>1, <3>2
    <3>3. CASE /\ ~ (t.setup = "failed" \/ t.teardown = "failed") /\ t.call # "failed"
               /\ t.setup = "skipped" \/ t.call = "skipped"
      <4>1. JUnitOf(n, t) = <<entry(CaseOf(n), "skipped")>>
        BY <3>3, <1>4 DEF JUnitOf
      <4> QED
        BY <4>1, <3>3
    <3>4. CASE /\ ~ (t.setup = "failed" \/ t.teardown = "failed") /\ t.call # "failed"
               /\ ~ (t.setup = "skipped" \/ t.call = "skipped")
      <4>1. JUnitOf(n, t) = <<entry(CaseOf(n), "passed")>>
        BY <3>4, <1>4 DEF JUnitOf
      <4>2. t.setup = "passed" /\ t.call \in {"passed", "xpassed"} /\ t.teardown = "passed"
        BY <3>4, <1>1 DEF PhasesOK, Outcomes
      <4> QED
        BY <4>1, <4>2
    <3> QED
      BY <3>1, <3>2, <3>3, <3>4
  <2> HIDE DEF entry, Says
  <2>2. PICK x : JUnitOf(n, t) = <<x>> /\ Says(x)
    BY <2>1
  <2>3. IsSeq(JUnitOf(n, t)) /\ \A y \in ToSet(JUnitOf(n, t)) : Says(y)
    BY <2>2, <1>2
  <2> QED
    BY <2>3 DEF Says
<1> QED
  BY <1>3, <1>4

LEMMA JUnitStep ==
    ASSUME SessionInv, Next
    PROVE  JUnitInv'
<1> DEFINE Fine(s) == IsSeq(s) /\ \A x \in ToSet(s) : EntryOK(x)'
<1>1. JUnitInv /\ DOMAIN ev = Sources /\ "junit" \in Sources
  BY DEF SessionInv, FlagsInv, Sources
<1>2. Fine(elements)
  BY <1>1, EntriesAreKept DEF JUnitInv
<1>3. damaged # "junit" => Fine(Entries(ev))
  BY <1>1, EntriesAreKept DEF JUnitInv
<1>4. Fine(elements')
  <2>1. ASSUME NEW outcome \in Outcomes, RunPhase(outcome), phase = "teardown"
        PROVE  Fine(elements')
    <3>1. PICK n : n = Item
      OBVIOUS
    <3>2. PICK t : t = truth'[n]
      OBVIOUS
    <3>3. elements' = elements \o JUnitOf(n, t) /\ marker' = marker
      BY <2>1, <3>1, <3>2 DEF RunPhase, Over, suite
    <3>4. n \in Nodes /\ t = [truth[n] EXCEPT ![phase] = outcome] /\ ProgressInv'
      BY <2>1, <3>1, <3>2, PhaseProgress
    <3>5. /\ t \in [Phases -> Outcomes \cup {None}] /\ PhasesOK(t)
      <4>1. /\ truth' \in [Nodes -> [Phases -> Outcomes \cup {None}]]
            /\ \A m \in Nodes : PhasesOK(truth'[m])
        BY <3>4 DEF ProgressInv
      <4> QED
        BY <3>2, <3>4, <4>1
    <3>6. t.teardown # None
      <4>1. truth[n] \in [Phases -> Outcomes \cup {None}]
        BY <3>4 DEF SessionInv, ProgressInv
      <4> QED
        BY <4>1, <3>4, <2>1, NoneAssumption DEF Phases
    <3>7. ASSUME NEW x \in ToSet(JUnitOf(n, t)) PROVE EntryOK(x)'
      <4>1. x.node = n /\ (x.case # None =>
              /\ x.case = CaseOf(n)
              /\ x.outcome = "passed" => /\ t.setup = "passed" /\ t.call \in {"passed", "xpassed"}
                                         /\ t.teardown = "passed"
              /\ x.outcome = "failed" => t.call = "failed"
              /\ x.outcome = "error" => "failed" \in {t.setup, t.teardown})
        BY <3>5, <3>6, ElementsAreTrue
      <4> QED
        BY <4>1, <3>2, <3>3, <3>4, <3>6 DEF EntryOK, TrulyPassed, CaseOf
    <3>8. IsSeq(JUnitOf(n, t))
      BY <3>5, <3>6, ElementsAreTrue
    <3> QED
      BY <1>2, <3>3, <3>7, <3>8, JoinedShape
  <2>2. CASE elements' = elements
    BY <1>2, <2>2
  <2> QED
    BY <2>1, <2>2, Frame DEF RunPhase, Over, Collect, progress
<1>5. ASSUME damaged' # "junit" PROVE Fine(Entries(ev'))
  <2>1. CASE damaged' = damaged /\ ev'.junit = ev.junit
    BY <1>3, <1>5, <2>1 DEF Entries
  <2>2. ASSUME NEW outcome \in Outcomes, RunPhase(outcome) PROVE damaged' = damaged /\ ev'.junit = ev.junit
    BY <2>2, <1>1 DEF RunPhase, Emit, Sources
  <2>3. CASE Start \/ Exit \/ Timeout \/ DerivePlan \/ Judge
    <3>1. damaged' = damaged /\ ev'.junit = ev.junit
      BY <2>3, <1>1 DEF Start, Exit, Timeout, EndProcess, DerivePlan, Judge, Sources
    <3> QED
      BY <3>1, <2>1
  <2>4. CASE Collect
    <3>1. damaged' = damaged /\ (ev'.junit = ev.junit \/ ev'.junit.entries = <<>>)
      BY <2>4, <1>1 DEF Collect, Sources
    <3> QED
      BY <3>1, <2>1, NoShape DEF Entries
  <2>5. ASSUME NEW partial, WriteJUnit(partial), IsSeq(partial), \A x \in ToSet(partial) : x.case = None
        PROVE  Fine(Entries(ev'))
    <3>1. ev'.junit.entries = elements \o partial
      BY <2>5, <1>1 DEF WriteJUnit, Sources
    <3>2. Fine(elements \o partial)
      BY <2>5, <1>2, JoinedShape DEF EntryOK
    <3> QED
      BY <3>1, <3>2, NoShape DEF Entries
  <2>6. CASE FinishSession
    BY <2>6, <2>5, NoShape DEF FinishSession
  <2>7. CASE Interrupt
    <3>1. PICK x : x = [case |-> None, node |-> Item, outcome |-> "passed"]
      OBVIOUS
    <3>2. WriteJUnit(<<x>>) /\ x.case = None
      BY <2>7, <3>1 DEF Interrupt
    <3> QED
      BY <3>2, <2>5, SingleShape
  <2>8. ASSUME NEW source \in Sources, Damage(source) PROVE Fine(Entries(ev'))
    <3>1. damaged = None /\ damaged' = source /\ (source # "junit" => ev'.junit = ev.junit)
      BY <2>8, <1>1 DEF Damage
    <3> QED
      BY <3>1, <1>3, <1>5, NoneAssumption DEF Entries, Sources
  <2> QED
    BY <2>1, <2>2, <2>3, <2>4, <2>6, <2>7, <2>8 DEF Next, RunChecked, SessionStep
<1> QED
  BY <1>4, <1>5 DEF JUnitInv

LEMMA ImageIsFinite ==
    ASSUME NEW f, IsFiniteSet(DOMAIN f), f = [x \in DOMAIN f |-> f[x]]
    PROVE  IsFiniteSet({f[x] : x \in DOMAIN f})
<1>1. f \in Surjection(DOMAIN f, {f[x] : x \in DOMAIN f})
  BY DEF Surjection
<1> QED
  BY <1>1, FS_Surjection

(* What the contract of a session is made of.                               *)
LEMMA ContractShape ==
    ASSUME LogInv
    PROVE  /\ DOMAIN contract.owner \in {{}, Checks}
           /\ \A k \in DOMAIN contract.owner : contract.owner[k] \in Expected(plan)
           /\ \A c \in DOMAIN contract.data : contract.data[c] \subseteq Data
           /\ contract = NoContract => DOMAIN contract.owner = {} /\ DOMAIN contract.data = {}
           /\ contract # NoContract => /\ DOMAIN contract.owner = Checks
                                       /\ DOMAIN contract.data = DOMAIN plan
                                       /\ DOMAIN contract.bound = Checks
<1>1. CASE contract = NoContract
  <2>1. contract.owner = <<>> /\ contract.data = <<>>
    BY <1>1 DEF NoContract
  <2> QED
    BY <1>1, <2>1
<1>2. CASE contract # NoContract
  <2>1. contract \in Contracts
    BY <1>2 DEF LogInv
  <2>2. /\ contract.owner \in [Checks -> Expected(plan)]
        /\ contract.data \in [DOMAIN plan -> SUBSET Data]
        /\ contract.bound \in [Checks -> Nodes]
    BY <2>1 DEF Contracts, Owners
  <2> QED
    BY <1>2, <2>2
<1> QED
  BY <1>1, <1>2

(* The events a test owes its contract.                                     *)
DueChecks(n) ==
    {k \in DOMAIN contract.owner :
       contract.bound[k] = n /\ \A i \in OfEvent(log, "check") : log[i].check # k}

DueRows(n) == IF CaseOf(n) \in DOMAIN contract.data THEN contract.data[CaseOf(n)] ELSE {}

LEMMA DueShape ==
    ASSUME LogInv, NEW n
    PROVE  /\ IsSeq(Due(n))
           /\ ToSet(Due(n)) = {ReadEvent(d, n) : d \in DueRows(n)}
                                \cup {CheckEvent(k, n, "passed") : k \in DueChecks(n)}
           /\ DueRows(n) \subseteq Data /\ DueChecks(n) \subseteq Checks
           /\ contract = NoContract => Due(n) = <<>>
<1> DEFINE reads == {ReadEvent(d, n) : d \in DueRows(n)}
           checks == {CheckEvent(k, n, "passed") : k \in DueChecks(n)}
<1>1. /\ DueRows(n) \subseteq Data /\ DueChecks(n) \subseteq Checks
      /\ contract = NoContract => DueRows(n) = {} /\ DueChecks(n) = {}
  BY ContractShape DEF DueRows, DueChecks
<1>2. IsFiniteSet(DueRows(n)) /\ IsFiniteSet(DueChecks(n))
  BY <1>1, SlipsAssumption, FS_Subset
<1>3. IsFiniteSet(reads)
  <2>1. PICK f : f = [d \in DueRows(n) |-> ReadEvent(d, n)]
    OBVIOUS
  <2>2. reads = {f[d] : d \in DOMAIN f}
    BY <2>1
  <2> QED
    BY <1>2, <2>1, <2>2, ImageIsFinite
<1>4. IsFiniteSet(checks)
  <2>1. PICK f : f = [k \in DueChecks(n) |-> CheckEvent(k, n, "passed")]
    OBVIOUS
  <2>2. checks = {f[k] : k \in DOMAIN f}
    BY <2>1
  <2> QED
    BY <1>2, <2>1, <2>2, ImageIsFinite
<1>5. Due(n) = SetToSeq(reads) \o SetToSeq(checks)
  BY DEF Due, DueRows, DueChecks
<1>6. contract = NoContract => reads = {} /\ checks = {}
  BY <1>1
<1> HIDE DEF reads, checks
<1>7. /\ IsSeq(SetToSeq(reads)) /\ ToSet(SetToSeq(reads)) = reads
      /\ IsSeq(SetToSeq(checks)) /\ ToSet(SetToSeq(checks)) = checks
  BY <1>3, <1>4, ListedShape
<1>8. IsSeq(Due(n)) /\ ToSet(Due(n)) = reads \cup checks
  BY <1>5, <1>7, JoinedShape
<1>9. contract = NoContract => Due(n) = <<>>
  BY <1>6, <1>8 DEF IsSeq
<1> QED
  BY <1>1, <1>8, <1>9 DEF reads, checks

(* Whatever a test body or a fixture evaluates or reads is recorded with    *)
(* the test and the phase in progress.                                      *)
LEMMA PhaseEvents ==
    ASSUME SessionInv, NEW outcome \in Outcomes, RunPhase(outcome), NEW n, n = Item
    PROVE  \A x :
             /\ \A k \in DOMAIN contract.owner, o \in {"passed", "failed"} :
                  x = CheckEvent(k, n, o) => LogOK(x)'
             /\ \A d \in Data : x = ReadEvent(d, n) => LogOK(x)'
<1>1. /\ n \in Nodes /\ truth'[n] = [truth[n] EXCEPT ![phase] = outcome]
  BY PhaseProgress
<1>2. truth[n] \in [Phases -> Outcomes \cup {None}] /\ phase \in Phases
  BY <1>1 DEF SessionInv, ProgressInv
<1>3. truth'[n][phase] # None /\ marker' = marker
  BY <1>1, <1>2, NoneAssumption DEF RunPhase, suite
<1>4. \A k \in DOMAIN contract.owner : k \in Checks
  BY ContractShape DEF SessionInv
<1>5. CaseOf(n)' = CaseOf(n)
  BY <1>3 DEF CaseOf
<1>6. ASSUME NEW k \in DOMAIN contract.owner, NEW o \in {"passed", "failed"}, NEW x, x = CheckEvent(k, n, o)
      PROVE  LogOK(x)'
  <2>1. /\ x.kind = "check" /\ x.node = n /\ x.case = CaseOf(n) /\ x.phase = phase /\ x.check = k
        /\ x.outcome \in {"passed", "failed"}
    BY <1>6 DEF CheckEvent
  <2> QED
    BY <2>1, <1>1, <1>2, <1>3, <1>4, <1>5 DEF LogOK
<1>7. ASSUME NEW d \in Data, NEW x, x = ReadEvent(d, n) PROVE LogOK(x)'
  <2>1. /\ x.kind = "data_read" /\ x.node = n /\ x.case = CaseOf(n) /\ x.phase = phase /\ x.data = d
    BY <1>7 DEF ReadEvent
  <2> QED
    BY <2>1, <1>1, <1>2, <1>3, <1>5 DEF LogOK
<1> QED
  BY <1>6, <1>7

LEMMA LogIsKept ==
    ASSUME SessionInv, Next, NEW x, LogOK(x)
    PROVE  LogOK(x)'
BY TruthIsKept DEF LogOK, CaseOf

LEMMA LogStep ==
    ASSUME SessionInv, Next
    PROVE  LogInv'
<1> DEFINE Fine(s) == IsSeq(s) /\ \A x \in ToSet(s) : LogOK(x)'
<1>1. LogInv /\ contract' = contract
  BY Frame DEF SessionInv
<1>2. contract # NoContract => plan' = plan /\ plan # None /\ contract' \in Contracts'
  <2>1. contract # NoContract => plan' = plan /\ plan # None /\ marker' = marker /\ contract \in Contracts
    BY <1>1, Frame DEF LogInv
  <2> QED
    BY <2>1, <1>1 DEF Contracts, Owners
<1>3. Fine(log)
  BY <1>1, LogIsKept DEF LogInv
<1>4. ASSUME NEW outcome \in Outcomes, RunChecked(outcome)
      PROVE  /\ Fine(log') /\ slips' \in 0 .. MaxSlips
             /\ contract = NoContract => log' = <<>>
  <2>0. RunPhase(outcome)
    BY <1>4 DEF RunChecked
  <2>1. PICK n : n = Item
    OBVIOUS
  <2>2. PICK events \in Faithful(outcome) :
          \/ log' = log \o events /\ UNCHANGED slips
          \/ /\ contract # NoContract /\ slips < MaxSlips
             /\ \E slipped \in Slipped(events, n) : log' = log \o slipped
             /\ slips' = slips + 1
    BY <1>4, <2>1 DEF RunChecked
  <2>3. slips' \in 0 .. MaxSlips
    BY <2>2, <1>1, SlipsAssumption DEF LogInv
  <2>4. /\ IsSeq(Due(n)) /\ (contract = NoContract => Due(n) = <<>>)
        /\ ToSet(Due(n)) = {ReadEvent(d, n) : d \in DueRows(n)}
                             \cup {CheckEvent(k, n, "passed") : k \in DueChecks(n)}
        /\ DueRows(n) \subseteq Data
    BY <1>1, DueShape
  <2>5. Fine(Due(n))
    <3>1. DueChecks(n) \subseteq DOMAIN contract.owner
      BY DEF DueChecks
    <3>2. ASSUME NEW x \in ToSet(Due(n)) PROVE LogOK(x)'
      BY <2>0, <2>1, <2>4, <3>1, PhaseEvents
    <3> QED
      BY <2>4, <3>2
  <2>6. ASSUME NEW s, Fine(s), NEW i \in OfEvent(s, "check"), NEW o \in {"passed", "failed"},
               NEW x, x = [s[i] EXCEPT !.outcome = o]
        PROVE  i \in DOMAIN s /\ LogOK(x)'
    <3>1. i \in DOMAIN s /\ s[i] \in ToSet(s) /\ s[i].kind = "check"
      BY DEF OfEvent, ToSet
    <3>2. PICK y : y = s[i]
      OBVIOUS
    <3>3. LogOK(y)'
      BY <2>6, <3>1, <3>2
    <3> QED
      BY <2>6, <3>1, <3>2, <3>3 DEF LogOK
  <2>7. Fine(events) /\ (contract = NoContract => events = <<>>)
    <3>1. CASE events = Due(n)
      BY <3>1, <2>4, <2>5
    <3>2. CASE events = <<>>
      BY <3>2, NoShape
    <3>3. ASSUME NEW i \in OfEvent(Due(n), "check"),
                 events = <<[Due(n)[i] EXCEPT !.outcome = "failed"]>>
          PROVE  Fine(events) /\ (contract = NoContract => events = <<>>)
      <4>1. PICK x : x = [Due(n)[i] EXCEPT !.outcome = "failed"]
        OBVIOUS
      <4>2. i \in DOMAIN Due(n) /\ LogOK(x)'
        BY <4>1, <2>5, <2>6
      <4>3. contract # NoContract
        BY <4>2, <2>4
      <4> QED
        BY <3>3, <4>1, <4>2, <4>3, SingleShape
    <3> QED
      BY <2>1, <2>2, <3>1, <3>2, <3>3 DEF Faithful
  <2>8. ASSUME NEW slipped \in Slipped(events, n), contract # NoContract PROVE Fine(slipped)
    <3>1. CASE \E i \in DOMAIN events : slipped = RemoveAt(events, i)
      BY <3>1, <2>7, RemovedShape
    <3>2. CASE \E i \in OfEvent(events, "check") : slipped = [events EXCEPT ![i].outcome = "failed"]
      <4>1. PICK i \in OfEvent(events, "check") : slipped = [events EXCEPT ![i].outcome = "failed"]
        BY <3>2
      <4>2. PICK x : x = [events[i] EXCEPT !.outcome = "failed"]
        OBVIOUS
      <4>3. i \in DOMAIN events /\ LogOK(x)'
        BY <4>2, <2>6, <2>7
      <4>4. slipped = [events EXCEPT ![i] = x]
        BY <4>1, <4>2
      <4>5. IsSeq(events) /\ \A y \in ToSet(events) : LogOK(y)'
        BY <2>7
      <4>6. IsSeq(slipped) /\ ToSet(slipped) \subseteq ToSet(events) \cup {x}
        BY <4>3, <4>4, <4>5, AlteredShape
      <4> QED
        BY <4>3, <4>5, <4>6
    <3>3. CASE \E e \in Stray(n) : slipped = Append(events, e)
      <4>1. PICK e \in Stray(n) : slipped = Append(events, e)
        BY <3>3
      <4>2. LogOK(e)'
        BY <2>0, <2>1, PhaseEvents DEF Stray
      <4> QED
        BY <4>1, <4>2, <2>7, AppendedShape
    <3>4. \/ \E i \in DOMAIN events : slipped = RemoveAt(events, i)
          \/ \E i \in OfEvent(events, "check") : slipped = [events EXCEPT ![i].outcome = "failed"]
          \/ \E e \in Stray(n) : slipped = Append(events, e)
      BY DEF Slipped
    <3> QED
      BY <3>1, <3>2, <3>3, <3>4
  <2> HIDE DEF Fine
  <2>9. PICK s : log' = log \o s /\ Fine(s) /\ (contract = NoContract => s = <<>>)
    BY <2>2, <2>7, <2>8
  <2>10. Fine(log')
    BY <2>9, <1>3, JoinedShape DEF Fine
  <2>11. contract = NoContract => log' = <<>>
    BY <2>9, <1>1 DEF LogInv
  <2> QED
    BY <2>3, <2>10, <2>11
<1>5. (\E outcome \in Outcomes : RunChecked(outcome)) \/ UNCHANGED <<log, slips>>
  BY Frame
<1>6. Fine(log') /\ slips' \in 0 .. MaxSlips /\ (contract = NoContract => log' = <<>>)
  BY <1>1, <1>3, <1>4, <1>5 DEF LogInv
<1>7. contract' # NoContract => plan' # None /\ contract' \in Contracts'
  BY <1>1, <1>2
<1>8. contract' = NoContract => log' = <<>>
  BY <1>1, <1>6
<1>9. IsSeq(log') /\ (\A x \in ToSet(log') : LogOK(x)') /\ slips' \in 0 .. MaxSlips
  BY <1>6
<1> QED
  BY <1>7, <1>8, <1>9 DEF LogInv, NoContract

THEOREM SessionInvariant == Spec => []SessionInv
<1>1. Init => SessionInv
  BY StartsWell
<1>2. SessionInv /\ [Next]_vars => SessionInv'
  <2>1. ASSUME SessionInv, Next PROVE SessionInv'
    BY <2>1, FlagsStep, ProgressStep, EventsStep, JUnitStep, LogStep DEF SessionInv
  <2>2. ASSUME SessionInv, UNCHANGED vars PROVE SessionInv'
    <3> USE <2>2 DEF vars, session, suite, progress
    <3>1. FlagsInv' /\ VerdictInv'
      BY DEF SessionInv, FlagsInv, VerdictInv
    <3>2. ProgressInv'
      BY DEF SessionInv, ProgressInv, InProgress, Item
    <3>3. EventsInv'
      BY DEF SessionInv, EventsInv, ReportOK, Genuine, CaseOf
    <3>4. JUnitInv'
      BY DEF SessionInv, JUnitInv, EntryOK, CaseOf, TrulyPassed
    <3>5. LogInv'
      BY DEF SessionInv, LogInv, LogOK, CaseOf, Contracts, Owners
    <3> QED
      BY <3>1, <3>2, <3>3, <3>4, <3>5 DEF SessionInv
  <2> QED
    BY <2>1, <2>2
<1> QED
  BY <1>1, <1>2, PTL DEF Spec

(* Types; and the test and phase a recorded check or read names has been    *)
(* begun, checks are recorded only of suites with a contract, and no phase  *)
(* is left over when every item is.                                         *)
THEOREM SessionTypes == Spec => []TypeOK
<1>1. SessionInv => TypeOK
  <2> SUFFICES ASSUME SessionInv PROVE TypeOK
    OBVIOUS
  <2>1. verdict # None => verdict.gate \in {"passed", "failed", "blocked"}
    <3>1. ASSUME verdict # None PROVE verdict = Manifest(plan, ev)
      BY <3>1 DEF SessionInv, VerdictInv
    <3>2. Manifest(plan, ev).gate \in {"passed", "failed", "blocked"}
      BY DEF Manifest
    <3> QED
      BY <3>1, <3>2
  <2>2. SessionTypeOK
    BY <2>1 DEF SessionInv, FlagsInv, ProgressInv, SessionTypeOK
  <2>3. slips \in 0 .. MaxSlips /\ IsSeq(log) /\ (\A x \in ToSet(log) : LogOK(x))
    BY DEF SessionInv, LogInv
  <2>4. ASSUME NEW i \in DOMAIN log PROVE LogOK(log[i]) /\ contract # NoContract
    <3>1. log[i] \in ToSet(log) /\ log # <<>>
      BY DEF ToSet
    <3> QED
      BY <3>1, <2>3 DEF SessionInv, LogInv
  <2> QED
    BY <2>2, <2>3, <2>4 DEF TypeOK, LogOK
<1> QED
  BY <1>1, SessionInvariant, PTL

----------------------------------------------------------------------------
(* What a verdict says of the tests                                         *)

LEMMA Least ==
    ASSUME NEW S, S \subseteq Nat, S # {}
    PROVE  \E x \in S : \A y \in S : x <= y
<1>1. PICK x \in S : \A y \in S : <<y, x>> \notin OpToRel(<, Nat)
  BY NatLessThanWellFounded, WFMin
<1>2. \A y \in S : ~ (y < x)
  BY <1>1 DEF OpToRel
<1> QED
  BY <1>2

(* A set of places in a sequence has a first and a last one.                *)
LEMMA FirstAndLast ==
    ASSUME NEW s, IsSeq(s), NEW P \in SUBSET DOMAIN s, P # {}
    PROVE  Min(P) \in P /\ Max(P) \in P
<1>1. DOMAIN s = 1 .. Len(s) /\ Len(s) \in Nat
  BY DEF IsSeq
<1>2. P \subseteq Nat
  BY <1>1
<1>3. Min(P) \in P
  BY <1>2, Least DEF Min
<1>4. Max(P) \in P
  <2> DEFINE Q == {Len(s) - x : x \in P}
  <2>1. Q \subseteq Nat /\ Q # {}
    BY <1>1
  <2>2. PICK q \in Q : \A y \in Q : q <= y
    BY <2>1, Least
  <2>3. PICK x \in P : q = Len(s) - x
    OBVIOUS
  <2>4. ASSUME NEW y \in P PROVE x >= y
    <3>1. Len(s) - y \in Q /\ x \in Nat /\ y \in Nat
      BY <1>2
    <3>2. Len(s) - x <= Len(s) - y
      BY <3>1, <2>2, <2>3
    <3> QED
      BY <3>1, <3>2, <1>1
  <2> QED
    BY <2>4 DEF Max
<1> QED
  BY <1>3, <1>4

(* A case of the manifest that passed or failed.                            *)
LEMMA DecidedCase ==
    ASSUME NEW frozen, NEW e, NEW c \in DOMAIN frozen
    PROVE  /\ Manifest(frozen, e).results[c] = "passed" =>
                /\ Errors(frozen, e) = {} /\ c \in Expected(frozen)
                /\ \A p \in Phases : Outcome(e, c, p) = "passed"
                /\ JUnit(e, c) = "passed"
           /\ Manifest(frozen, e).results[c] = "failed" =>
                /\ c \in Expected(frozen) /\ Outcome(e, c, "setup") # "failed"
                /\ "failed" \in {Outcome(e, c, "call"), Outcome(e, c, "teardown")}
           /\ Manifest(frozen, e).gate = "failed" => Errors(frozen, e) = {}
<1> DEFINE status == StatusOf(frozen, e, c)
           errors == Errors(frozen, e)
<1>1. Manifest(frozen, e).results[c] = IF status = "passed" /\ errors # {} THEN "blocked" ELSE status
  BY DEF Manifest
<1>2. Manifest(frozen, e).gate = "failed" => errors = {}
  BY DEF Manifest
<1>3. status = "passed" => c \in Expected(frozen) /\ \A p \in Phases : Outcome(e, c, p) = "passed"
  BY DEF StatusOf, Expected
<1>4. status = "failed" => /\ c \in Expected(frozen) /\ Outcome(e, c, "setup") # "failed"
                           /\ "failed" \in {Outcome(e, c, "call"), Outcome(e, c, "teardown")}
  BY DEF StatusOf, Expected
<1>5. status = "passed" /\ errors = {} => JUnit(e, c) = "passed"
  <2> SUFFICES ASSUME status = "passed", errors = {} PROVE JUnit(e, c) = "passed"
    OBVIOUS
  <2>1. JUnitAgrees(e, c)
    BY <1>3, NoErrors
  <2>2. Raw(e, c) = "passed"
    BY <1>3 DEF Raw, Phases
  <2> QED
    BY <2>1, <2>2 DEF JUnitAgrees
<1> HIDE DEF status, errors
<1>6. Manifest(frozen, e).results[c] = "passed" => status = "passed" /\ errors = {}
  BY <1>1
<1>7. Manifest(frozen, e).results[c] = "failed" => status = "failed"
  BY <1>1
<1> QED
  BY <1>2, <1>3, <1>4, <1>5, <1>6, <1>7 DEF errors

(* The outcome of a phase was reported of the collected test of its case.   *)
LEMMA ReportedOutcome ==
    ASSUME NEW e, IsSeq(Events(e)), NEW c, NEW p, Reports(e, c, p) # {}
    PROVE  \E r \in ToSet(Events(e)) :
             /\ r.kind = "report" /\ r.phase = p /\ r.case = c
             /\ c \in DOMAIN Mapping(e) /\ r.node = Mapping(e)[c]
             /\ r.outcome = Outcome(e, c, p)
<1> DEFINE P == Reports(e, c, p)
           i == Max(P)
<1>1. P \in SUBSET DOMAIN Events(e)
  BY DEF Reports, OfKind
<1>2. i \in P
  BY <1>1, FirstAndLast
<1>3. Outcome(e, c, p) = Events(e)[i].outcome
  BY DEF Outcome
<1> HIDE DEF i
<1> QED
  BY <1>1, <1>2, <1>3 DEF Reports, OfKind, Mapped, ToSet

LEMMA JUnitOutcome ==
    ASSUME NEW e, IsSeq(Entries(e)), NEW c, Accepted(e, c) # {}
    PROVE  \E x \in ToSet(Entries(e)) :
             /\ x.case = c /\ c \in DOMAIN Mapping(e) /\ x.node = Mapping(e)[c]
             /\ x.outcome = JUnit(e, c)
<1> DEFINE P == Accepted(e, c)
           i == Min(P)
<1>1. P \in SUBSET DOMAIN Entries(e)
  BY DEF Accepted
<1>2. i \in P
  BY <1>1, FirstAndLast
<1>3. JUnit(e, c) = Entries(e)[i].outcome
  BY DEF JUnit
<1> HIDE DEF i
<1> QED
  BY <1>1, <1>2, <1>3 DEF Accepted, Mapped, ToSet

(* What the reports and the JUnit elements of this session say.             *)
LEMMA SessionReports ==
    ASSUME SessionInv, NEW c, NEW p \in Phases, Reports(ev, c, p) # {},
           NEW n, n = Mapping(ev)[c]
    PROVE  /\ n \in Nodes /\ truth[n][p] # None
           /\ Outcome(ev, c, p) \in {"passed", "failed", Recorded(truth[n][p])}
           /\ damaged # "events" => c = CaseOf(n) /\ Outcome(ev, c, p) = Recorded(truth[n][p])
<1>1. IsSeq(Events(ev))
  BY NoShape DEF SessionInv, EventsInv, Events
<1>2. PICK r \in ToSet(Events(ev)) :
             /\ r.kind = "report" /\ r.phase = p /\ r.case = c /\ r.node = n
             /\ r.outcome = Outcome(ev, c, p)
  BY <1>1, ReportedOutcome
<1>3. ev.events # None /\ r \in ToSet(ev.events)
  BY <1>2, NoShape DEF Events
<1>4. ReportOK(r) /\ (damaged # "events" => Genuine(r))
  BY <1>2, <1>3 DEF SessionInv, EventsInv
<1> QED
  BY <1>2, <1>4 DEF ReportOK, Genuine

LEMMA SessionElements ==
    ASSUME SessionInv, damaged # "junit", NEW c, c # None, Accepted(ev, c) # {},
           NEW n, n = Mapping(ev)[c]
    PROVE  /\ n \in Nodes /\ c = CaseOf(n)
           /\ JUnit(ev, c) = "passed" => TrulyPassed(n)
           /\ JUnit(ev, c) = "failed" => truth[n].call = "failed"
           /\ JUnit(ev, c) = "error" => "failed" \in {truth[n].setup, truth[n].teardown}
<1>1. IsSeq(Entries(ev)) /\ \A x \in ToSet(Entries(ev)) : EntryOK(x)
  BY DEF SessionInv, JUnitInv
<1>2. PICK x \in ToSet(Entries(ev)) : x.case = c /\ x.node = n /\ x.outcome = JUnit(ev, c)
  BY <1>1, JUnitOutcome
<1> QED
  BY <1>1, <1>2 DEF EntryOK

(* The test a case that passed was collected as: it really passed.          *)
LEMMA PassedCaseIsTrue ==
    ASSUME SessionInv, verdict # None, NEW c \in DOMAIN plan, verdict.results[c] = "passed",
           NEW n, n = Mapping(ev)[c]
    PROVE  n \in Nodes /\ CaseOf(n) = c /\ TrulyPassed(n)
<1>1. /\ Errors(plan, ev) = {} /\ c \in Expected(plan)
      /\ \A p \in Phases : Outcome(ev, c, p) = "passed"
      /\ JUnit(ev, c) = "passed"
  BY DecidedCase DEF SessionInv, VerdictInv
<1>2. None # "passed" /\ None # "xpassed" /\ None # "failed"
  BY NoneAssumption DEF Outcomes
<1>3. (\A p \in Phases : Reports(ev, c, p) # {}) /\ Accepted(ev, c) # {}
  BY <1>1, <1>2 DEF Outcome, JUnit
<1>4. CASE damaged # "events"
  <2>1. /\ n \in Nodes /\ c = CaseOf(n)
        /\ \A p \in Phases : Recorded(truth[n][p]) = "passed"
    BY <1>1, <1>3, <1>4, SessionReports DEF Phases
  <2>2. PhasesOK(truth[n])
    BY <2>1 DEF SessionInv, ProgressInv
  <2> QED
    BY <2>1, <2>2, <1>2 DEF Recorded, PhasesOK, TrulyPassed, Phases
<1>5. CASE damaged = "events"
  <2>1. c # None
    <3>1. PICK i \in Accepted(ev, c) : TRUE
      BY <1>3
    <3>2. i \in DOMAIN Entries(ev) /\ Entries(ev)[i].case = c
      BY DEF Accepted
    <3> QED
      BY <3>2, <1>1, NoErrors DEF JUnitEntryOK
  <2> QED
    BY <1>1, <1>3, <1>5, <2>1, SessionElements
<1> QED
  BY <1>4, <1>5

LEMMA PassedResults ==
    ASSUME NEW frozen, NEW e, Manifest(frozen, e).gate = "passed", NEW c \in Expected(frozen)
    PROVE  Manifest(frozen, e).results[c] = "passed"
<1>1. c \in DOMAIN frozen /\ frozen[c] = "auto"
  BY DEF Expected
<1>2. Errors(frozen, e) = {} /\ StatusOf(frozen, e, c) \notin {"blocked", "failed"}
  BY <1>1, PassedManifest
<1>3. Manifest(frozen, e).results[c] =
        IF StatusOf(frozen, e, c) = "passed" /\ Errors(frozen, e) # {}
        THEN "blocked" ELSE StatusOf(frozen, e, c)
  BY <1>1 DEF Manifest
<1>4. StatusOf(frozen, e, c) \in {"blocked", "failed", "passed"}
  BY <1>1 DEF StatusOf
<1> QED
  BY <1>2, <1>3, <1>4

(* plugins/execution.py, reconcile.py: no single file that is lost, delayed *)
(* or altered makes a test that did not pass all its phases a passed case,  *)
(* and a passed gate has every automation candidate pass.                   *)
THEOREM PassesAreEarned == Spec => []PassIsEarned
<1>1. SessionInv => PassIsEarned
  <2> SUFFICES ASSUME SessionInv, verdict # None PROVE PassIsEarned
    BY DEF PassIsEarned
  <2>1. ASSUME NEW c \in DOMAIN plan, verdict.results[c] = "passed"
        PROVE  \E n \in NodesWith(c) : TrulyPassed(n)
    <3>1. PICK n : n = Mapping(ev)[c]
      OBVIOUS
    <3>2. n \in Nodes /\ CaseOf(n) = c /\ TrulyPassed(n)
      BY <2>1, <3>1, PassedCaseIsTrue
    <3>3. truth[n] # NotRun
      BY <3>2, NoneAssumption DEF TrulyPassed, NotRun, Outcomes
    <3> QED
      BY <3>2, <3>3 DEF NodesWith
  <2>2. verdict.gate = "passed" => \A c \in Expected(plan) : verdict.results[c] = "passed"
    BY PassedResults DEF SessionInv, VerdictInv
  <2> QED
    BY <2>1, <2>2 DEF PassIsEarned
<1> QED
  BY <1>1, SessionInvariant, PTL

(* The test a case that failed was collected as, under a failed gate.       *)
LEMMA FailedCaseIsTrue ==
    ASSUME SessionInv, verdict # None, verdict.gate = "failed",
           NEW c \in DOMAIN plan, verdict.results[c] = "failed",
           NEW n, n = Mapping(ev)[c]
    PROVE  n \in Nodes /\ CaseOf(n) = c /\ TrulyFailed(n)
<1>1. /\ Errors(plan, ev) = {} /\ c \in Expected(plan) /\ Outcome(ev, c, "setup") # "failed"
      /\ "failed" \in {Outcome(ev, c, "call"), Outcome(ev, c, "teardown")}
  BY DecidedCase DEF SessionInv, VerdictInv
<1>2. None # "failed"
  BY NoneAssumption DEF Outcomes
<1>3. CASE damaged # "events"
  <2>1. ASSUME NEW p \in {"call", "teardown"}, Outcome(ev, c, p) = "failed"
        PROVE  n \in Nodes /\ CaseOf(n) = c /\ TrulyFailed(n)
    <3>1. Reports(ev, c, p) # {} /\ p \in Phases
      BY <2>1, <1>2 DEF Outcome, Phases
    <3>2. n \in Nodes /\ c = CaseOf(n) /\ Recorded(truth[n][p]) = "failed"
      BY <3>1, <2>1, <1>3, SessionReports
    <3>3. truth[n][p] = "failed"
      BY <3>2 DEF Recorded
    <3> QED
      BY <2>1, <3>2, <3>3 DEF TrulyFailed
  <2> QED
    BY <1>1, <2>1
<1>4. CASE damaged = "events"
  <2>1. InSequence(ev, c) /\ JUnit(ev, c) = Raw(ev, c) /\ \A i \in DOMAIN Entries(ev) : JUnitEntryOK(ev, i)
    BY <1>1, NoErrors DEF JUnitAgrees
  <2>2. Raw(ev, c) \in {"error", "failed"}
    BY <1>1 DEF Raw
  <2>3. Accepted(ev, c) # {}
    BY <1>1, NoErrors
  <2>4. c # None
    <3>1. PICK i \in Accepted(ev, c) : TRUE
      BY <2>3
    <3> QED
      BY <3>1, <2>1 DEF Accepted, JUnitEntryOK
  <2>5. /\ n \in Nodes /\ c = CaseOf(n)
        /\ truth[n].call = "failed" \/ "failed" \in {truth[n].setup, truth[n].teardown}
    BY <1>4, <2>1, <2>2, <2>3, <2>4, SessionElements
  <2>6. truth[n].setup # "failed"
    <3> SUFFICES ASSUME truth[n].setup = "failed" PROVE FALSE
      OBVIOUS
    <3>1. Reports(ev, c, "setup") # {}
      BY <2>1 DEF InSequence, PhasesOf, Phases
    <3>2. Outcome(ev, c, "setup") \in {"passed", "failed", Recorded("failed")}
      BY <3>1, SessionReports DEF Phases
    <3>3. Outcome(ev, c, "setup") = "passed"
      BY <3>2, <1>1 DEF Recorded
    <3>4. Reports(ev, c, "call") # {}
      BY <3>3, <2>1 DEF InSequence, PhasesOf, Phases
    <3>5. truth[n].call # None
      BY <3>4, SessionReports DEF Phases
    <3>6. PhasesOK(truth[n])
      BY <2>5 DEF SessionInv, ProgressInv
    <3> QED
      BY <3>5, <3>6 DEF PhasesOK
  <2> QED
    BY <2>5, <2>6 DEF TrulyFailed
<1> QED
  BY <1>3, <1>4

(* reconcile.py, exit_codes: a failed gate blames the product only for a    *)
(* collected test of the plan that really failed in its call or its         *)
(* teardown, or for a required case nobody automated; no lost or altered    *)
(* file, no timeout and no interrupt causes it.                             *)
THEOREM FailuresAreEarned == Spec => []FailIsEarned
<1>1. SessionInv => FailIsEarned
  <2> SUFFICES ASSUME SessionInv, verdict # None, verdict.gate = "failed", NEW c \in DOMAIN plan
               PROVE  IF verdict.results[c] = "failed" THEN \E n \in NodesWith(c) : TrulyFailed(n)
                      ELSE \/ \E d \in DOMAIN plan : verdict.results[d] = "failed"
                           \/ \E d \in DOMAIN plan : plan[d] = "required"
    BY DEF FailIsEarned
  <2>1. CASE verdict.results[c] = "failed"
    <3>1. PICK n : n = Mapping(ev)[c]
      OBVIOUS
    <3>2. n \in Nodes /\ CaseOf(n) = c /\ TrulyFailed(n)
      BY <2>1, <3>1, FailedCaseIsTrue
    <3>3. truth[n] # NotRun
      BY <3>2, NoneAssumption DEF TrulyFailed, NotRun, Outcomes
    <3> QED
      BY <2>1, <3>2, <3>3 DEF NodesWith
  <2>2. CASE verdict.results[c] # "failed"
    <3> DEFINE result(d) == LET status == StatusOf(plan, ev, d) IN
                            IF status = "passed" /\ Errors(plan, ev) # {} THEN "blocked" ELSE status
    <3>1. verdict = Manifest(plan, ev)
      BY DEF SessionInv, VerdictInv
    <3>2. /\ \A d \in DOMAIN plan : verdict.results[d] = result(d)
          /\ verdict.gate = IF Errors(plan, ev) # {} \/ \E d \in DOMAIN plan : result(d) = "blocked"
                            THEN "blocked"
                            ELSE IF \E d \in DOMAIN plan : result(d) = "failed" \/ plan[d] = "required"
                            THEN "failed" ELSE "passed"
      BY <3>1 DEF Manifest
    <3> HIDE DEF result
    <3> QED
      BY <2>2, <3>2
  <2> QED
    BY <2>1, <2>2
<1> QED
  BY <1>1, SessionInvariant, PTL

(* checks.py, bindings.py, content.py with reconcile.py: under a passed     *)
(* gate whose contract holds, each planned check was evaluated once and     *)
(* held, in the body of a test of its own case that really passed, nothing  *)
(* else was evaluated, and each test read exactly what its case declares;   *)
(* whatever tests, helpers and fixtures did, and whichever file was altered.*)
THEOREM ChecksStayEarned == Spec => []ChecksAreEarned
<1>1. SessionInv => ChecksAreEarned
  <2> SUFFICES ASSUME SessionInv, Passed, ContractHolds
               PROVE  /\ \A k \in Checks : \E n \in Nodes :
                           /\ CaseOf(n) = contract.owner[k] /\ TrulyPassed(n)
                           /\ \E i \in DOMAIN log :
                                /\ {j \in OfEvent(log, "check") : log[j].check = k} = {i}
                                /\ log[i].node = n /\ log[i].phase = "call" /\ log[i].outcome = "passed"
                      /\ \A c \in DOMAIN plan, d \in Data :
                           d \in contract.data[c] <=>
                             \E i \in OfEvent(log, "data_read") :
                               log[i].data = d /\ CaseOf(log[i].node) = c /\ TrulyPassed(log[i].node)
    BY DEF ChecksAreEarned
  <2>1. ContractErrors(contract.owner, contract.data, Bindings, log, Mapping(ev)) = {}
    BY DEF ContractHolds
  <2>2. /\ verdict # None /\ verdict = Manifest(plan, ev) /\ Manifest(plan, ev).gate = "passed"
    BY DEF SessionInv, VerdictInv, Passed
  <2>3. IsSeq(log) /\ (\A x \in ToSet(log) : LogOK(x)) /\ LogInv
    BY DEF SessionInv, LogInv
  <2>4. IsSeq(Bindings)
    <3>1. IsFiniteSet(DOMAIN contract.owner)
      BY <2>3, ContractShape, SlipsAssumption, FS_EmptySet
    <3>2. PICK f : f = [k \in DOMAIN contract.owner |->
                         [check |-> k, case |-> contract.owner[k], node |-> contract.bound[k]]]
      OBVIOUS
    <3>3. PICK S : S = {f[k] : k \in DOMAIN f}
      OBVIOUS
    <3>4. IsFiniteSet(S)
      BY <3>1, <3>2, <3>3, ImageIsFinite
    <3>5. Bindings = SetToSeq(S)
      BY <3>2, <3>3 DEF Bindings
    <3> QED
      BY <3>4, <3>5, ListedShape
  <2>5. /\ DOMAIN contract.owner # {}
        /\ \A k \in DOMAIN contract.owner : Evaluated(contract.owner, log, Mapping(ev), k)
        /\ \A c \in DOMAIN contract.data : ReadsOf(log, c) = contract.data[c]
    <3>1. Bindings \in Seq(ToSet(Bindings)) /\ log \in Seq(ToSet(log))
      BY <2>3, <2>4 DEF IsSeq
    <3>2. PICK owner, data, bindings, events, mapping :
            /\ owner = contract.owner /\ data = contract.data /\ bindings = Bindings
            /\ events = log /\ mapping = Mapping(ev)
      OBVIOUS
    <3>3. PICK Row, Event : bindings \in Seq(Row) /\ events \in Seq(Event)
      BY <3>1, <3>2
    <3>4. ContractErrors(owner, data, bindings, events, mapping) = {}
      BY <2>1, <3>2
    <3>5. /\ DOMAIN owner # {}
          /\ \A k \in DOMAIN owner : Evaluated(owner, events, mapping, k)
          /\ \A c \in DOMAIN data : ReadsOf(events, c) = data[c]
      BY <3>3, <3>4, AcceptedContract
    <3> QED
      BY <3>2, <3>5
  <2>6. ASSUME NEW i \in OfEvent(log, "data_read")
        PROVE  log[i].phase = "call" /\ At(Mapping(ev), log[i].case, log[i].node)
    <3>1. ~ ContractFaults(contract.owner, contract.data, Bindings, log, Mapping(ev)).invalid_data_event_mapping
      BY <2>1, <2>5 DEF ContractErrors, ContractFaults
    <3> QED
      BY <3>1 DEF ContractFaults
  <2>7. /\ DOMAIN contract.owner = Checks /\ DOMAIN contract.data = DOMAIN plan
        /\ \A k \in Checks : contract.owner[k] \in Expected(plan)
    BY <2>3, <2>5, ContractShape
  <2>8. ASSUME NEW c \in Expected(plan), NEW n, n = Mapping(ev)[c]
        PROVE  n \in Nodes /\ CaseOf(n) = c /\ TrulyPassed(n)
    <3>1. c \in DOMAIN plan /\ verdict.results[c] = "passed"
      BY <2>2, PassedResults DEF Expected
    <3> QED
      BY <2>2, <2>8, <3>1, PassedCaseIsTrue
  <2>9. ASSUME NEW k \in Checks
        PROVE  \E n \in Nodes :
                 /\ CaseOf(n) = contract.owner[k] /\ TrulyPassed(n)
                 /\ \E i \in DOMAIN log :
                      /\ {j \in OfEvent(log, "check") : log[j].check = k} = {i}
                      /\ log[i].node = n /\ log[i].phase = "call" /\ log[i].outcome = "passed"
    <3>1. PICK i \in OfEvent(log, "check") :
            /\ {j \in OfEvent(log, "check") : log[j].check = k} = {i}
            /\ At(Mapping(ev), contract.owner[k], log[i].node)
            /\ log[i].phase = "call" /\ log[i].outcome = "passed"
      BY <2>5, <2>7 DEF Evaluated
    <3>2. PICK n : n = Mapping(ev)[contract.owner[k]]
      OBVIOUS
    <3>3. log[i].node = n /\ i \in DOMAIN log
      BY <3>1, <3>2 DEF At, OfEvent
    <3> QED
      BY <3>1, <3>2, <3>3, <2>7, <2>8
  <2>10. ASSUME NEW c \in DOMAIN plan, NEW d \in Data
         PROVE  d \in contract.data[c] <=>
                  \E i \in OfEvent(log, "data_read") :
                    log[i].data = d /\ CaseOf(log[i].node) = c /\ TrulyPassed(log[i].node)
    <3>1. ReadsOf(log, c) = contract.data[c]
      BY <2>5, <2>7
    <3>2. ASSUME NEW i \in OfEvent(log, "data_read")
          PROVE  /\ log[i].case = CaseOf(log[i].node) /\ TrulyPassed(log[i].node)
                 /\ log[i].phase = "call"
      <4>1. i \in DOMAIN log /\ LogOK(log[i])
        BY <2>3 DEF OfEvent, ToSet
      <4>2. PICK n : n = log[i].node
        OBVIOUS
      <4>3. log[i].case \in Expected(plan) /\ n = Mapping(ev)[log[i].case]
        BY <2>2, <2>6, <4>2, PassedGateIsCorroborated DEF At, Mapping
      <4> QED
        BY <2>6, <2>8, <4>1, <4>2, <4>3 DEF LogOK
    <3>3. ASSUME d \in ReadsOf(log, c)
          PROVE  \E i \in OfEvent(log, "data_read") : log[i].data = d /\ log[i].case = c
      BY <3>3 DEF ReadsOf
    <3>4. ASSUME NEW i \in OfEvent(log, "data_read"), log[i].data = d, log[i].case = c
          PROVE  d \in ReadsOf(log, c)
      BY <3>2, <3>4 DEF ReadsOf
    <3> QED
      BY <3>1, <3>2, <3>3, <3>4
  <2> QED
    BY <2>9, <2>10
<1> QED
  BY <1>1, SessionInvariant, PTL

----------------------------------------------------------------------------
(* What a session leaves behind that nothing stops, deselects or damages    *)

Whole == damaged = None /\ ~ stopped /\ todo # <<>>

(* collection.json lists the tests that are run, each under its own case.   *)
ItemsInv ==
    /\ stage \in {"boot", "collecting"} => ~ stopped
    /\ Whole =>
      /\ stage \notin {"boot", "collecting"}
      /\ ev.collection = [rows |-> [i \in 1 .. Len(todo) |-> CollectionRow(todo[i])], errors |-> FALSE]
      /\ \A i, j \in 1 .. Len(todo) : CaseOf(todo[i]) = CaseOf(todo[j]) => i = j

Earlier(p, q) == (p = "setup" /\ q # "setup") \/ (p = "call" /\ q = "teardown")

IsReport(r, n, p) == r.kind = "report" /\ r.node = n /\ r.phase = p

(* The reports of a test are in the order of its phases, one of each.       *)
Ordered(lines) ==
    \A i, j \in 1 .. Len(lines) :
      (i < j /\ lines[i].kind = "report" /\ lines[j].kind = "report" /\ lines[i].node = lines[j].node)
         => Earlier(lines[i].phase, lines[j].phase)

(* Nothing that happened goes unreported.                                   *)
Reported(lines) ==
    \A n \in Nodes, p \in Phases : truth[n][p] # None =>
      \E i \in 1 .. Len(lines) : IsReport(lines[i], n, p)

Flagged(lines) ==
    \A i \in 1 .. Len(lines) : lines[i].kind = "report" =>
      (lines[i].xfail <=> truth[lines[i].node][lines[i].phase] = "xpassed")

ExitStatus == IF AnyFailed THEN 1 ELSE 0

Running == stage \in {"collecting", "running"}

(* events.jsonl: the start, the reports and, once pytest is done, the end.  *)
LinesInv ==
    (stage = "collecting" \/ Whole) =>
      /\ ev.events \in Seq(LogLine) /\ Len(ev.events) >= 1
      /\ ev.events[1] = [kind |-> "start", id |-> Id]
      /\ \A i \in 2 .. Len(ev.events) :
           ev.events[i].kind = "report" \/ (i = Len(ev.events) /\ ~ Running)
      /\ ~ Running => /\ done = Len(todo)
                      /\ ev.events[Len(ev.events)] = FinishEvent(ExitStatus, Len(todo))
      /\ Ordered(ev.events) /\ Reported(ev.events) /\ Flagged(ev.events)

(* The element of a test whose teardown does not fail.                      *)
OutcomeOf(t) ==
    IF t.setup = "failed" THEN "error"
    ELSE IF t.call = "failed" THEN "failed"
    ELSE IF t.setup = "skipped" \/ t.call = "skipped" THEN "skipped"
    ELSE "passed"

ElementOf(n) == [case |-> CaseOf(n), node |-> n, outcome |-> OutcomeOf(truth[n])]

(* As long as every teardown passes, JUnit has one element of each item.    *)
ElementsInv ==
    (\A i \in 1 .. done : truth[todo[i]].teardown = "passed") =>
      Len(elements) = done /\ \A i \in 1 .. done : elements[i] = ElementOf(todo[i])

FilesInv ==
    Whole =>
      /\ ~ Running => /\ ev.junit = [counted |-> ev.junit.counted, entries |-> elements]
                      /\ ev.junit.counted \in BOOLEAN
                      /\ (\A n \in Nodes : truth[n].teardown # "failed") => ev.junit.counted
      /\ stage \in {"ended", "judged", "rejected"} =>
           ev.process = [id |-> Id, completed |-> TRUE, exit |-> ExitStatus]

WholeInv == ItemsInv /\ LinesInv /\ ElementsInv /\ FilesInv

LEMMA WholeStarts == Init => WholeInv
<1> SUFFICES ASSUME Init PROVE WholeInv
  OBVIOUS
<1> USE DEF Init, SessionInit
<1>1. ItemsInv /\ LinesInv /\ FilesInv
  BY DEF ItemsInv, LinesInv, FilesInv, Whole
<1>2. ElementsInv
  BY NoShape DEF ElementsInv
<1> QED
  BY <1>1, <1>2 DEF WholeInv

(* The steps of a session that is still undisturbed after them.             *)
LEMMA WholeStep ==
    ASSUME SessionInv, WholeInv, Next, Whole'
    PROVE  \/ Collect
           \/ /\ Whole
              /\ \/ \E outcome \in Outcomes : RunPhase(outcome)
                 \/ FinishSession /\ done = Len(todo)
                 \/ Exit
                 \/ (DerivePlan \/ Judge) /\ stage = "ended" /\ stage' \in {"ended", "judged", "rejected"}
                      /\ ev' = ev /\ UNCHANGED progress
<1> USE DEF Whole, suite, progress
<1>0. stage \in {"boot", "collecting"} => todo = <<>>
  BY DEF SessionInv, ProgressInv
<1>1. ASSUME NEW outcome \in Outcomes, RunPhase(outcome) PROVE Whole
  BY <1>1 DEF RunPhase
<1>2. ~ Start
  BY <1>0 DEF Start
<1>3. ASSUME FinishSession PROVE Whole /\ done = Len(todo)
  <2>1. done \in 0 .. Len(todo) /\ Len(todo) \in Nat
    BY DEF SessionInv, ProgressInv
  <2>2. stopped' = (stopped \/ done < Len(todo)) /\ UNCHANGED <<damaged, todo>>
    BY <1>3 DEF FinishSession
  <2>3. stopped \in BOOLEAN
    BY DEF SessionInv, FlagsInv
  <2>4. ~ stopped /\ ~ (done < Len(todo))
    BY <2>2, <2>3
  <2> QED
    BY <2>1, <2>2, <2>4
<1>4. ~ Interrupt
  BY DEF Interrupt
<1>5. ASSUME Exit PROVE Whole
  BY <1>5 DEF Exit, EndProcess
<1>6. ~ Timeout
  BY DEF Timeout
<1>7. ASSUME DerivePlan
      PROVE  /\ Whole /\ stage = "ended" /\ stage' \in {"ended", "judged", "rejected"}
             /\ ev' = ev /\ UNCHANGED progress
  BY <1>7 DEF DerivePlan
<1>8. ASSUME Judge
      PROVE  /\ Whole /\ stage = "ended" /\ stage' \in {"ended", "judged", "rejected"}
             /\ ev' = ev /\ UNCHANGED progress
  BY <1>8 DEF Judge
<1>9. ASSUME NEW source \in Sources, Damage(source) PROVE FALSE
  BY <1>9, NoneAssumption DEF Damage
<1> HIDE DEF Whole, suite, progress
<1>10. (\E outcome \in Outcomes : RunPhase(outcome)) \/ SessionStep
  BY <1>9 DEF Next, RunChecked
<1> QED
  BY <1>1, <1>2, <1>3, <1>4, <1>5, <1>6, <1>7, <1>8, <1>10 DEF SessionStep

LEMMA ItemsStep ==
    ASSUME SessionInv, WholeInv, Next
    PROVE  ItemsInv'
<1>1. DOMAIN ev = Sources /\ "collection" \in Sources /\ marker' = marker
  BY Frame DEF SessionInv, FlagsInv, Sources
<1>2. stage' \in {"boot", "collecting"} => ~ stopped'
  <2>1. stage' \in {"boot", "collecting"} => stage \in {"boot", "collecting"} /\ stopped' = stopped
    BY DEF Next, RunChecked, RunPhase, SessionStep, Start, Collect, FinishSession,
           Interrupt, Exit, Timeout, EndProcess, DerivePlan, Judge, Damage
  <2> QED
    BY <2>1 DEF WholeInv, ItemsInv
<1>3. ASSUME Whole', Collect
      PROVE  /\ stage' \notin {"boot", "collecting"}
             /\ ev'.collection = [rows |-> [i \in 1 .. Len(todo') |-> CollectionRow(todo'[i])],
                                  errors |-> FALSE]
             /\ \A i, j \in 1 .. Len(todo') : CaseOf(todo'[i]) = CaseOf(todo'[j]) => i = j
  <2>0. PICK items, selected \in SetToAllKPermutations(Nodes) :
          /\ stopped' = (selected # items)
          /\ todo' = IF MappingBroken(items) THEN <<>> ELSE selected
          /\ stage' = IF MappingBroken(items) THEN "finished" ELSE "running"
          /\ ev'.collection = [rows |-> [i \in DOMAIN items |-> CollectionRow(items[i])],
                               errors |-> MappingBroken(items)]
    BY <1>1, <1>3 DEF Collect
  <2>1. /\ ~ MappingBroken(items) /\ todo' = items /\ stage' = "running"
        /\ ev'.collection = [rows |-> [i \in DOMAIN items |-> CollectionRow(items[i])],
                             errors |-> FALSE]
    <3>1. ~ stopped' /\ todo' # <<>>
      BY <1>3 DEF Whole
    <3>2. ~ MappingBroken(items)
      BY <2>0, <3>1
    <3>3. MappingBroken(items) = FALSE
      BY <3>2 DEF MappingBroken
    <3> QED
      BY <2>0, <3>1, <3>2, <3>3
  <2>2. items \in Seq(Nodes) /\ DOMAIN items = 1 .. Len(items)
    BY ItemsShape
  <2> QED
    BY <2>1, <2>2 DEF MappingBroken
<1>4. ASSUME Whole', ~ Collect
      PROVE  /\ Whole /\ stage' \notin {"boot", "collecting"}
             /\ ev'.collection = ev.collection /\ todo' = todo
  <2>1. Whole
    BY <1>4, WholeStep
  <2>2. stage \notin {"boot", "collecting"}
    BY <2>1 DEF WholeInv, ItemsInv
  <2>3. ASSUME NEW outcome \in Outcomes, RunPhase(outcome)
        PROVE  stage' = stage /\ ev'.collection = ev.collection /\ todo' = todo
    BY <2>3, <1>1 DEF RunPhase, Emit, Sources
  <2>4. ASSUME FinishSession
        PROVE  stage' = "finished" /\ ev'.collection = ev.collection /\ todo' = todo
    BY <2>4, <1>1 DEF FinishSession, WriteJUnit, progress, Sources
  <2>5. ASSUME Exit
        PROVE  stage' = "ended" /\ ev'.collection = ev.collection /\ todo' = todo
    BY <2>5, <1>1 DEF Exit, EndProcess, progress, Sources
  <2>6. CASE ev' = ev /\ UNCHANGED progress /\ stage' \in {"ended", "judged", "rejected"}
    BY <2>1, <2>6 DEF progress
  <2> QED
    BY <1>4, <2>1, <2>2, <2>3, <2>4, <2>5, <2>6, WholeStep
<1>6. Whole' /\ ~ Collect => ItemsInv'
  BY <1>1, <1>2, <1>4 DEF WholeInv, ItemsInv, CollectionRow, CaseOf
<1>7. Whole' /\ Collect => ItemsInv'
  BY <1>1, <1>2, <1>3 DEF ItemsInv, CollectionRow, CaseOf
<1> QED
  BY <1>2, <1>6, <1>7 DEF ItemsInv

(* A phase is only begun when the ones before it are over.                  *)
LEMMA PhasesInOrder ==
    ASSUME SessionInv, NEW outcome \in Outcomes, RunPhase(outcome), NEW n, n = Item,
           NEW p \in Phases, truth[n][p] # None
    PROVE  Earlier(p, phase)
<1>1. /\ n \in Nodes /\ n = todo[done + 1] /\ truth[n][phase] = None /\ truth[n].teardown = None
      /\ PhasesOK(truth[n]) /\ InProgress(truth[n]) /\ phase \in Phases
  <2>1. n \in Nodes /\ n = todo[done + 1] /\ truth[n][phase] = None /\ truth[n].teardown = None
    BY PhaseProgress
  <2>2. PhasesOK(truth[n]) /\ InProgress(truth[n]) /\ phase \in Phases
    BY <2>1 DEF SessionInv, ProgressInv, RunPhase, Item
  <2> QED
    BY <2>1, <2>2
<1> QED
  BY <1>1, NoneAssumption DEF PhasesOK, InProgress, Phases, Earlier, Outcomes

(* What LinesInv says of the log while the session runs.                    *)
Log(lines) ==
    /\ lines \in Seq(LogLine) /\ Len(lines) >= 1
    /\ lines[1] = [kind |-> "start", id |-> Id]
    /\ Ordered(lines) /\ Reported(lines) /\ Flagged(lines)

OnlyReports(lines) == \A i \in 2 .. Len(lines) : lines[i].kind = "report"

LEMMA OpenLog ==
    ASSUME LinesInv, Running, stage = "collecting" \/ Whole
    PROVE  Log(ev.events) /\ OnlyReports(ev.events)
BY DEF LinesInv, Log, OnlyReports

LEMMA LogGrows ==
    ASSUME NEW lines, Log(lines), NEW x \in LogLine
    PROVE  /\ Append(lines, x) \in Seq(LogLine)
           /\ Len(lines) \in Nat /\ Len(lines) >= 1 /\ Len(Append(lines, x)) = Len(lines) + 1
           /\ \A i \in 1 .. Len(lines) : Append(lines, x)[i] = lines[i]
           /\ Append(lines, x)[Len(lines) + 1] = x
           /\ Append(lines, x)[1] = lines[1]
BY AppendProperties DEF Log

LEMMA RunPhaseLog ==
    ASSUME SessionInv, Next, NEW outcome \in Outcomes, RunPhase(outcome),
           NEW lines, lines = ev.events, Log(lines), OnlyReports(lines)
    PROVE  Log(ev.events)' /\ OnlyReports(ev'.events)
<1>1. PICK n : n = Item
  OBVIOUS
<1>2. PICK x : x = [kind |-> "report", case |-> CaseOf(n), node |-> n, phase |-> phase,
                    outcome |-> Recorded(outcome), xfail |-> outcome = "xpassed"]
  OBVIOUS
<1>3. PICK new : new = Append(lines, x)
  OBVIOUS
<1>4. ev'.events = new
  BY <1>1, <1>2, <1>3 DEF RunPhase, Emit, SessionInv, FlagsInv, Sources
<1>5. /\ n \in Nodes /\ truth[n][phase] = None /\ phase \in Phases
      /\ truth'[n][phase] = outcome
      /\ \A m \in Nodes, p \in Phases : <<m, p>> # <<n, phase>> => truth'[m][p] = truth[m][p]
  <2>1. /\ n \in Nodes /\ truth[n][phase] = None
        /\ truth'[n] = [truth[n] EXCEPT ![phase] = outcome]
        /\ \A m \in Nodes \ {n} : truth'[m] = truth[m]
    BY <1>1, PhaseProgress
  <2>2. truth[n] \in [Phases -> Outcomes \cup {None}] /\ phase \in Phases
    BY <2>1 DEF SessionInv, ProgressInv
  <2> QED
    BY <2>1, <2>2
<1>6. x \in LogLine
  <2>1. marker[n] \in Cases \cup {None}
    BY <1>5 DEF SessionInv, FlagsInv
  <2>2. CaseOf(n) \in Cases \cup Nodes
    BY <1>5, <2>1 DEF CaseOf
  <2>3. Recorded(outcome) \in Outcomes
    BY DEF Recorded, Outcomes
  <2> QED
    BY <1>2, <1>5, <2>2, <2>3 DEF LogLine
<1>7. /\ new \in Seq(LogLine) /\ Len(lines) \in Nat /\ Len(lines) >= 1 /\ Len(new) = Len(lines) + 1
      /\ \A i \in 1 .. Len(lines) : new[i] = lines[i]
      /\ new[Len(lines) + 1] = x /\ new[1] = lines[1]
  BY <1>3, <1>6, LogGrows
<1>8. \A i \in 1 .. Len(new) : i \in 1 .. Len(lines) \/ i = Len(lines) + 1
  BY <1>7
<1>9. ASSUME NEW i \in 1 .. Len(lines), lines[i].kind = "report"
      PROVE  /\ lines[i].node \in Nodes /\ lines[i].phase \in Phases
             /\ truth[lines[i].node][lines[i].phase] # None
  <2>1. lines[i] \in ToSet(ev.events)
    BY <1>7 DEF ToSet, Log
  <2>2. stage = "running"
    BY DEF RunPhase
  <2>3. ReportOK(lines[i])
    BY <1>9, <2>1, <2>2 DEF SessionInv, EventsInv
  <2> QED
    BY <2>3 DEF ReportOK
<1>10. x.kind = "report" /\ x.node = n /\ x.phase = phase /\ (x.xfail <=> outcome = "xpassed")
  BY <1>2
<1>11. OnlyReports(new)
  BY <1>7, <1>8, <1>10 DEF OnlyReports
<1>12. Ordered(new)
  <2>1. ASSUME NEW i \in 1 .. Len(lines), lines[i].kind = "report", lines[i].node = n
        PROVE  Earlier(lines[i].phase, phase)
    BY <2>1, <1>1, <1>9, PhasesInOrder
  <2>2. \A i, j \in 1 .. Len(lines) :
          (i < j /\ lines[i].kind = "report" /\ lines[j].kind = "report" /\ lines[i].node = lines[j].node)
             => Earlier(lines[i].phase, lines[j].phase)
    BY DEF Log, Ordered
  <2>3. ASSUME NEW i \in 1 .. Len(new), NEW j \in 1 .. Len(new), i < j,
               new[i].kind = "report", new[j].kind = "report", new[i].node = new[j].node
        PROVE  Earlier(new[i].phase, new[j].phase)
    <3>1. i \in 1 .. Len(lines) /\ new[i] = lines[i]
      BY <2>3, <1>7
    <3>2. CASE j \in 1 .. Len(lines)
      BY <2>2, <2>3, <3>1, <3>2, <1>7
    <3>3. CASE j = Len(lines) + 1
      BY <2>1, <2>3, <3>1, <3>3, <1>7, <1>10
    <3> QED
      BY <3>2, <3>3, <1>8
  <2> QED
    BY <2>3 DEF Ordered
<1>13. \A m \in Nodes, p \in Phases : truth'[m][p] # None =>
         \E i \in 1 .. Len(new) : IsReport(new[i], m, p)
  <2> SUFFICES ASSUME NEW m \in Nodes, NEW p \in Phases, truth'[m][p] # None
               PROVE  \E i \in 1 .. Len(new) : IsReport(new[i], m, p)
    OBVIOUS
  <2>1. CASE m = n /\ p = phase
    <3>1. IsReport(new[Len(lines) + 1], m, p) /\ Len(lines) + 1 \in 1 .. Len(new)
      BY <2>1, <1>7, <1>10 DEF IsReport
    <3> QED
      BY <3>1
  <2>2. CASE ~ (m = n /\ p = phase)
    <3>1. PICK i \in 1 .. Len(lines) : IsReport(lines[i], m, p)
      BY <2>2, <1>5 DEF Log, Reported
    <3>2. i \in 1 .. Len(new) /\ new[i] = lines[i]
      BY <1>7
    <3> QED
      BY <3>1, <3>2
  <2> QED
    BY <2>1, <2>2
<1>14. \A i \in 1 .. Len(new) : new[i].kind = "report" =>
         (new[i].xfail <=> truth'[new[i].node][new[i].phase] = "xpassed")
  <2> SUFFICES ASSUME NEW i \in 1 .. Len(new), new[i].kind = "report"
               PROVE  new[i].xfail <=> truth'[new[i].node][new[i].phase] = "xpassed"
    OBVIOUS
  <2>1. CASE i = Len(lines) + 1
    BY <2>1, <1>5, <1>7, <1>10
  <2>2. CASE i \in 1 .. Len(lines)
    <3>1. new[i] = lines[i] /\ lines[i].kind = "report"
      BY <2>2, <1>7
    <3>2. truth'[lines[i].node][lines[i].phase] = truth[lines[i].node][lines[i].phase]
      BY <2>2, <3>1, <1>9, <1>5
    <3>3. lines[i].xfail <=> truth[lines[i].node][lines[i].phase] = "xpassed"
      BY <2>2, <3>1 DEF Log, Flagged
    <3> QED
      BY <3>1, <3>2, <3>3
  <2> QED
    BY <2>1, <2>2, <1>8
<1>15. Log(ev.events)'
  BY <1>4, <1>7, <1>12, <1>13, <1>14 DEF Log, Reported, Flagged, Ordered
<1> QED
  BY <1>4, <1>11, <1>15

(* The line pytest ends its session with.                                   *)
LEMMA FinishLog ==
    ASSUME SessionInv, FinishSession, todo # <<>>, done = Len(todo),
           NEW lines, lines = ev.events, Log(lines), OnlyReports(lines)
    PROVE  /\ Log(ev.events)'
           /\ ev'.events[Len(ev'.events)] = FinishEvent(ExitStatus, Len(todo))
           /\ \A i \in 2 .. Len(ev'.events) : ev'.events[i].kind = "report" \/ i = Len(ev'.events)
<1>1. PICK x : x = FinishEvent(ExitStatus, Len(todo))
  OBVIOUS
<1>2. PICK new : new = Append(lines, x)
  OBVIOUS
<1>3. todo \in Seq(Nodes) /\ Len(todo) \in Nat /\ Len(todo) # 0
  BY DEF SessionInv, ProgressInv
<1>4. ev'.events = new /\ UNCHANGED truth
  <2>1. FinishEvent(IF <<>> # <<>> THEN 2 ELSE IF Len(todo) = 0 THEN 5 ELSE IF AnyFailed THEN 1 ELSE 0,
                    Len(todo)) = x
    BY <1>1, <1>3 DEF ExitStatus
  <2>2. ev'.events = Append(ev.events,
          FinishEvent(IF <<>> # <<>> THEN 2 ELSE IF Len(todo) = 0 THEN 5 ELSE IF AnyFailed THEN 1 ELSE 0,
                      Len(todo)))
    BY DEF FinishSession, WriteJUnit, SessionInv, FlagsInv, Sources
  <2> QED
    BY <1>2, <2>1, <2>2 DEF FinishSession, progress
<1>5. x \in LogLine /\ x.kind = "finish"
  BY <1>1, <1>3 DEF FinishEvent, ExitStatus, LogLine
<1>6. /\ new \in Seq(LogLine) /\ Len(lines) \in Nat /\ Len(lines) >= 1 /\ Len(new) = Len(lines) + 1
      /\ \A i \in 1 .. Len(lines) : new[i] = lines[i]
      /\ new[Len(lines) + 1] = x /\ new[1] = lines[1]
  BY <1>2, <1>5, LogGrows
<1>7. \A i \in 1 .. Len(new) : i \in 1 .. Len(lines) \/ (i = Len(lines) + 1 /\ new[i].kind # "report")
  BY <1>5, <1>6
<1>8. Ordered(new)
  BY <1>6, <1>7 DEF Log, Ordered
<1>9. Reported(new)
  <2> SUFFICES ASSUME NEW m \in Nodes, NEW p \in Phases, truth[m][p] # None
               PROVE  \E i \in 1 .. Len(new) : IsReport(new[i], m, p)
    BY DEF Reported
  <2>1. PICK i \in 1 .. Len(lines) : IsReport(lines[i], m, p)
    BY DEF Log, Reported
  <2>2. i \in 1 .. Len(new) /\ new[i] = lines[i]
    BY <1>6
  <2> QED
    BY <2>1, <2>2
<1>10. Flagged(new)
  BY <1>6, <1>7 DEF Log, Flagged
<1>11. Log(ev.events)'
  BY <1>4, <1>6, <1>8, <1>9, <1>10 DEF Log, Ordered, Reported, Flagged
<1>12. \A i \in 2 .. Len(new) : new[i].kind = "report" \/ i = Len(new)
  BY <1>6 DEF OnlyReports
<1> QED
  BY <1>1, <1>4, <1>6, <1>11, <1>12

LEMMA StartLog ==
    ASSUME SessionInv, Start
    PROVE  Log(ev.events)' /\ OnlyReports(ev'.events)
<1>1. PICK x : x = [kind |-> "start", id |-> Id]
  OBVIOUS
<1>2. PICK new : new = <<x>>
  OBVIOUS
<1>3. ev'.events = new /\ UNCHANGED truth
  BY <1>1, <1>2 DEF Start, SessionInv, FlagsInv, Sources, progress
<1>4. x \in LogLine /\ x.kind # "report"
  BY <1>1, SessionAssumption DEF LogLine, Id
<1>5. new \in Seq(LogLine) /\ Len(new) = 1 /\ new[1] = x
  BY <1>2, <1>4
<1>6. ASSUME NEW n \in Nodes, NEW p \in Phases PROVE truth[n][p] = None
  <2>1. truth[n].setup = None /\ PhasesOK(truth[n])
    BY NoShape DEF Start, SessionInv, ProgressInv
  <2> QED
    BY <2>1, NoneAssumption DEF PhasesOK, Phases, Outcomes
<1> QED
  BY <1>1, <1>3, <1>4, <1>5, <1>6 DEF Log, OnlyReports, Ordered, Reported, Flagged

LEMMA LinesStep ==
    ASSUME SessionInv, WholeInv, Next
    PROVE  LinesInv'
<1>1. LinesInv /\ ItemsInv
  BY DEF WholeInv
<1>3. ASSUME Log(ev.events)', OnlyReports(ev'.events), stage' \in {"collecting", "running"}
      PROVE  LinesInv'
  BY <1>3 DEF LinesInv, Log, OnlyReports, Running
<1>4. CASE stage' = "collecting"
  <2>1. Start
    BY <1>4 DEF Next, RunChecked, RunPhase, SessionStep, Start, Collect, FinishSession,
                Interrupt, Exit, Timeout, EndProcess, DerivePlan, Judge, Damage
  <2> QED
    BY <2>1, <1>3, <1>4, StartLog
<1>5. CASE Whole' /\ Collect
  <2>1. stage = "collecting" /\ UNCHANGED truth
    BY <1>5 DEF Collect
  <2>2. stage' = "running" /\ ev'.events = ev.events
    <3>1. DOMAIN ev = Sources /\ "events" \in Sources /\ todo' # <<>>
      BY <1>5 DEF SessionInv, FlagsInv, Sources, Whole
    <3>2. PICK items, selected \in SetToAllKPermutations(Nodes) :
            /\ todo' = IF MappingBroken(items) THEN <<>> ELSE selected
            /\ stage' = IF MappingBroken(items) THEN "finished" ELSE "running"
            /\ ev'.events = IF MappingBroken(items) THEN Append(ev.events, FinishEvent(4, 0)) ELSE ev.events
      BY <1>5, <3>1 DEF Collect
    <3> QED
      BY <3>1, <3>2
  <2>3. Log(ev.events) /\ OnlyReports(ev.events)
    BY <2>1, <1>1, OpenLog DEF Running
  <2>4. Log(ev.events)'
    BY <1>5, <2>1, <2>2, <2>3 DEF Log, Ordered, Reported, Flagged
  <2> QED
    BY <1>3, <1>5, <2>2, <2>3, <2>4
<1>6. ASSUME Whole', Whole, NEW outcome \in Outcomes, RunPhase(outcome) PROVE LinesInv'
  <2>1. stage = "running" /\ stage' = "running"
    BY <1>6 DEF RunPhase
  <2>2. Log(ev.events) /\ OnlyReports(ev.events)
    BY <2>1, <1>1, <1>6, OpenLog DEF Running
  <2> QED
    BY <1>3, <1>6, <2>1, <2>2, RunPhaseLog
<1>7. ASSUME Whole', Whole, FinishSession, done = Len(todo) PROVE LinesInv'
  <2>1. stage = "running" /\ stage' = "finished" /\ UNCHANGED progress /\ todo # <<>>
    BY <1>7 DEF FinishSession, Whole
  <2>2. Log(ev.events) /\ OnlyReports(ev.events)
    BY <2>1, <1>1, <1>7, OpenLog DEF Running
  <2>3. /\ Log(ev.events)'
        /\ ev'.events[Len(ev'.events)] = FinishEvent(ExitStatus, Len(todo))
        /\ \A i \in 2 .. Len(ev'.events) : ev'.events[i].kind = "report" \/ i = Len(ev'.events)
    BY <1>7, <2>1, <2>2, FinishLog
  <2>4. FinishEvent(ExitStatus, Len(todo))' = FinishEvent(ExitStatus, Len(todo)) /\ done' = Len(todo')
    BY <1>7, <2>1 DEF progress, FinishEvent, ExitStatus, AnyFailed
  <2> QED
    BY <2>1, <2>3, <2>4 DEF LinesInv, Log, Running
<1>8. ASSUME Whole', Whole, ev'.events = ev.events, UNCHANGED progress,
             ~ Running, ~ Running'
      PROVE  LinesInv'
  <2>1. FinishEvent(ExitStatus, Len(todo))' = FinishEvent(ExitStatus, Len(todo))
    BY <1>8 DEF progress, FinishEvent, ExitStatus, AnyFailed
  <2>2. Ordered(ev.events)' /\ Reported(ev.events)' /\ Flagged(ev.events)'
    BY <1>1, <1>8 DEF LinesInv, Ordered, Reported, Flagged, progress
  <2> QED
    BY <1>1, <1>8, <2>1, <2>2 DEF LinesInv, progress
<1>9. ASSUME Whole', Whole, Exit PROVE LinesInv'
  <2>1. /\ ev'.events = ev.events /\ stage = "finished" /\ stage' = "ended" /\ UNCHANGED progress
    BY <1>9 DEF Exit, EndProcess, SessionInv, FlagsInv, Sources
  <2> QED
    BY <1>8, <1>9, <2>1 DEF Running
<1>10. CASE Whole'
  BY <1>5, <1>6, <1>7, <1>8, <1>9, <1>10, WholeStep DEF Running
<1> QED
  BY <1>4, <1>10 DEF LinesInv

LEMMA ElementsStep ==
    ASSUME SessionInv, WholeInv, Next
    PROVE  ElementsInv'
<1>1. /\ ElementsInv /\ IsSeq(elements) /\ marker' = marker
      /\ done \in 0 .. Len(todo) /\ Len(todo) \in Nat /\ \A i \in 1 .. Len(todo) : todo[i] \in Nodes
      /\ \A i \in 1 .. done : truth[todo[i]].teardown # None
  BY Frame DEF WholeInv, SessionInv, JUnitInv, ProgressInv
<1>2. \A i \in 1 .. done : /\ truth'[todo[i]] = truth[todo[i]]
                           /\ [case |-> CaseOf(todo[i]), node |-> todo[i],
                               outcome |-> OutcomeOf(truth'[todo[i]])] = ElementOf(todo[i])
  BY <1>1, TruthIsKept DEF ElementOf, CaseOf
<1>3. ASSUME NEW outcome \in Outcomes, RunPhase(outcome), phase = "teardown",
             \A i \in 1 .. done' : truth'[todo[i]].teardown = "passed"
      PROVE  Len(elements') = done' /\ \A i \in 1 .. done' : elements'[i] =
               [case |-> CaseOf(todo[i]), node |-> todo[i], outcome |-> OutcomeOf(truth'[todo[i]])]
  <2>1. PICK n : n = Item
    OBVIOUS
  <2>2. PICK t : t = truth'[n]
    OBVIOUS
  <2>3. elements' = elements \o JUnitOf(n, t) /\ done' = done + 1 /\ n = todo[done + 1] /\ n \in Nodes
    BY <1>3, <2>1, <2>2, PhaseProgress DEF RunPhase, Over
  <2>4. t.teardown = "passed"
    <3>1. done + 1 \in 1 .. done'
      BY <1>1, <2>3
    <3> QED
      BY <1>3, <2>2, <2>3, <3>1
  <2>5. PICK x : x = [case |-> CaseOf(n), node |-> n, outcome |-> OutcomeOf(t)]
    OBVIOUS
  <2>6. JUnitOf(n, t) = <<x>>
    BY <2>4, <2>5 DEF JUnitOf, OutcomeOf
  <2>7. Len(elements) = done /\ \A i \in 1 .. done : elements[i] = ElementOf(todo[i])
    <3>1. \A i \in 1 .. done : i \in 1 .. done'
      BY <1>1, <2>3
    <3>2. \A i \in 1 .. done : truth[todo[i]].teardown = "passed"
      BY <1>2, <1>3, <3>1
    <3> QED
      BY <1>1, <3>2 DEF ElementsInv
  <2>8. /\ Len(elements') = done + 1 /\ \A i \in 1 .. done : elements'[i] = elements[i]
        /\ elements'[done + 1] = x
    <3>1. IsSeq(<<x>>) /\ Len(<<x>>) = 1 /\ <<x>>[1] = x
      BY SingleShape
    <3>2. 1 \in 1 .. 1
      OBVIOUS
    <3> QED
      BY <1>1, <2>3, <2>6, <2>7, <3>1, <3>2, JoinedShape
  <2>9. \A i \in 1 .. done' : i \in 1 .. done \/ i = done + 1
    BY <1>1, <2>3
  <2>10. ASSUME NEW i \in 1 .. done PROVE elements'[i] =
           [case |-> CaseOf(todo[i]), node |-> todo[i], outcome |-> OutcomeOf(truth'[todo[i]])]
    BY <1>2, <2>7, <2>8
  <2>11. elements'[done + 1] = [case |-> CaseOf(todo[done + 1]), node |-> todo[done + 1],
                                outcome |-> OutcomeOf(truth'[todo[done + 1]])]
    BY <2>2, <2>3, <2>5, <2>8
  <2> QED
    BY <2>3, <2>8, <2>9, <2>10, <2>11
<1>4. ASSUME NEW outcome \in Outcomes, RunPhase(outcome) PROVE ElementsInv'
  <2>1. todo' = todo
    BY <1>4 DEF RunPhase
  <2>2. CASE phase = "teardown"
    BY <1>1, <1>3, <1>4, <2>1, <2>2 DEF ElementsInv, ElementOf, CaseOf
  <2>3. CASE phase # "teardown"
    <3>1. done' = done /\ elements' = elements
      BY <1>4, <2>3 DEF RunPhase, Over
    <3> QED
      BY <1>1, <1>2, <2>1, <3>1 DEF ElementsInv, ElementOf, CaseOf
  <2> QED
    BY <2>2, <2>3
<1>5. CASE Collect
  <2>1. done = 0 /\ UNCHANGED <<done, elements>>
    BY <1>5 DEF Collect, SessionInv, ProgressInv
  <2> QED
    BY <1>1, <2>1 DEF ElementsInv
<1>6. CASE UNCHANGED progress
  BY <1>1, <1>6 DEF ElementsInv, ElementOf, CaseOf, progress
<1> QED
  BY <1>4, <1>5, <1>6, Frame

LEMMA FilesStep ==
    ASSUME SessionInv, WholeInv, Next
    PROVE  FilesInv'
<1>1. DOMAIN ev = Sources /\ IsSeq(elements) /\ FilesInv /\ LinesInv
  BY DEF SessionInv, FlagsInv, JUnitInv, WholeInv
<1>2. CASE Collect
  <2>1. Whole' => stage' = "running"
    <3>1. PICK items, selected \in SetToAllKPermutations(Nodes) :
            /\ todo' = IF MappingBroken(items) THEN <<>> ELSE selected
            /\ stage' = IF MappingBroken(items) THEN "finished" ELSE "running"
      BY <1>2 DEF Collect
    <3> QED
      BY <3>1 DEF Whole
  <2> QED
    BY <2>1 DEF FilesInv, Running
<1>3. ASSUME NEW outcome \in Outcomes, RunPhase(outcome) PROVE FilesInv'
  BY <1>3 DEF RunPhase, FilesInv, Running
<1>4. CASE FinishSession
  <2>1. elements \o <<>> = elements
    BY <1>1 DEF IsSeq
  <2>2. PICK counted \in BOOLEAN :
          /\ ~ counted => \E n \in Nodes : truth[n].teardown = "failed"
          /\ ev'.junit = [counted |-> counted, entries |-> elements]
    BY <1>1, <1>4, <2>1 DEF FinishSession, WriteJUnit, Sources
  <2>3. stage' = "finished" /\ UNCHANGED progress
    BY <1>4 DEF FinishSession
  <2> QED
    BY <2>2, <2>3 DEF FilesInv, progress
<1>5. ASSUME Whole, Exit PROVE FilesInv'
  <2>1. stage = "finished" /\ stage' = "ended" /\ UNCHANGED progress /\ ev'.junit = ev.junit
    BY <1>1, <1>5 DEF Exit, EndProcess, Sources
  <2>2. ev'.process = [id |-> Id, completed |-> TRUE, exit |-> ev.events[Len(ev.events)].exit]
    BY <1>1, <1>5 DEF Exit, EndProcess, Sources
  <2>3. ev.events[Len(ev.events)] = FinishEvent(ExitStatus, Len(todo))
    BY <1>1, <1>5, <2>1 DEF LinesInv, Running
  <2>4. ev.events[Len(ev.events)].exit = ExitStatus
    BY <2>3 DEF FinishEvent
  <2>5. ExitStatus' = ExitStatus
    BY <2>1 DEF progress, ExitStatus, AnyFailed
  <2> QED
    BY <1>1, <1>5, <2>1, <2>2, <2>4, <2>5 DEF FilesInv, Running, progress
<1>6. ASSUME Whole, stage = "ended", ev' = ev, UNCHANGED progress PROVE FilesInv'
  <2>1. ExitStatus' = ExitStatus
    BY <1>6 DEF progress, ExitStatus, AnyFailed
  <2> QED
    BY <1>1, <1>6, <2>1 DEF FilesInv, Running, progress
<1>7. CASE Whole'
  BY <1>2, <1>3, <1>4, <1>5, <1>6, <1>7, WholeStep
<1> QED
  BY <1>7 DEF FilesInv

LEMMA WholeSession == Spec => []WholeInv
<1>1. SessionInv /\ SessionInv' /\ WholeInv /\ [Next]_vars => WholeInv'
  <2>1. ASSUME SessionInv, WholeInv, Next PROVE WholeInv'
    BY <2>1, ItemsStep, LinesStep, ElementsStep, FilesStep DEF WholeInv
  <2>2. ASSUME WholeInv, UNCHANGED vars PROVE WholeInv'
    <3> USE <2>2 DEF vars, session, suite, progress, WholeInv, Whole
    <3>1. ItemsInv'
      BY DEF ItemsInv, CollectionRow, CaseOf
    <3>2. LinesInv'
      BY DEF LinesInv, Running, FinishEvent, ExitStatus, AnyFailed, Ordered, Reported, Flagged
    <3>3. ElementsInv'
      BY DEF ElementsInv, ElementOf, CaseOf
    <3>4. FilesInv'
      BY DEF FilesInv, Running, ExitStatus, AnyFailed
    <3> QED
      BY <3>1, <3>2, <3>3, <3>4
  <2> QED
    BY <2>1, <2>2
<1> QED
  BY <1>1, WholeStarts, SessionInvariant, PTL DEF Spec

----------------------------------------------------------------------------
(* The verdict on such a session                                            *)

(* An honest session with its verdict.                                      *)
Decided == SessionInv /\ WholeInv /\ Honest /\ stage = "judged"

LEMMA DecidedEvidence ==
    ASSUME Decided
    PROVE  /\ todo \in Seq(Nodes) /\ Len(todo) \in Nat /\ Len(todo) >= 1
           /\ \A i \in 1 .. Len(todo) : todo[i] \in Nodes /\ todo[i] \in ToSet(todo)
           /\ \A i, j \in 1 .. Len(todo) : CaseOf(todo[i]) = CaseOf(todo[j]) => i = j
           /\ \A n \in ToSet(todo) : n \in Nodes /\ \E i \in 1 .. Len(todo) : n = todo[i]
           /\ Rows(ev) = [i \in 1 .. Len(todo) |-> CollectionRow(todo[i])]
           /\ ev.collection # None /\ ~ ev.collection.errors
           /\ Events(ev) = ev.events /\ ev.events # None
           /\ ev.events \in Seq(LogLine) /\ Len(ev.events) \in Nat
           /\ Entries(ev) = elements /\ ev.junit # None
           /\ elements \in Seq(JUnitElement) /\ Len(elements) = Len(todo)
           /\ \A i \in 1 .. Len(todo) : elements[i] = ElementOf(todo[i])
           /\ ev.process # None
           /\ ev.process = [id |-> Id, completed |-> TRUE, exit |-> ExitStatus]
<1> USE DEF Decided
<1>1. Whole /\ ~ Running
  BY DEF Honest, Whole, Running
<1>2. todo \in Seq(Nodes) /\ Len(todo) \in Nat /\ Len(todo) >= 1 /\ DOMAIN todo = 1 .. Len(todo)
  BY <1>1 DEF SessionInv, ProgressInv, Whole
<1>3. /\ \A i \in 1 .. Len(todo) : todo[i] \in Nodes /\ todo[i] \in ToSet(todo)
      /\ \A n \in ToSet(todo) : n \in Nodes /\ \E i \in 1 .. Len(todo) : n = todo[i]
  BY <1>2 DEF ToSet
<1>4. \A n \in Nodes : CaseOf(n) \in Cases \cup Nodes
  BY DEF SessionInv, FlagsInv, CaseOf
<1>5. /\ ev.collection = [rows |-> [i \in 1 .. Len(todo) |-> CollectionRow(todo[i])], errors |-> FALSE]
      /\ \A i, j \in 1 .. Len(todo) : CaseOf(todo[i]) = CaseOf(todo[j]) => i = j
  BY <1>1 DEF WholeInv, ItemsInv
<1>6. ev.collection # None
  <2>1. PICK rows : rows = [i \in 1 .. Len(todo) |-> CollectionRow(todo[i])]
    OBVIOUS
  <2>2. rows \in Seq(CollectedRow)
    BY <2>1, <1>2, <1>3, <1>4 DEF CollectionRow, CollectedRow
  <2>3. ev.collection \in [rows : Seq(CollectedRow), errors : BOOLEAN]
    BY <1>5, <2>1, <2>2
  <2> QED
    BY <2>3, NoneAssumption DEF EvidenceFiles
<1>7. Rows(ev) = [i \in 1 .. Len(todo) |-> CollectionRow(todo[i])] /\ ~ ev.collection.errors
  BY <1>5, <1>6 DEF Rows
<1>8. ev.events \in Seq(LogLine) /\ Len(ev.events) \in Nat /\ done = Len(todo)
  BY <1>1 DEF WholeInv, LinesInv
<1>9. ev.events # None
  BY <1>8, NoneAssumption DEF EvidenceFiles
<1>10. Events(ev) = ev.events
  BY <1>9 DEF Events
<1>11. \A i \in 1 .. Len(todo) : truth[todo[i]].teardown = "passed"
  BY <1>2 DEF Honest
<1>12. Len(elements) = Len(todo) /\ \A i \in 1 .. Len(todo) : elements[i] = ElementOf(todo[i])
  BY <1>8, <1>11 DEF WholeInv, ElementsInv
<1>13. elements \in Seq(JUnitElement)
  <2>1. elements \in Seq(ToSet(elements)) /\ DOMAIN elements = 1 .. Len(elements)
    BY DEF SessionInv, JUnitInv, IsSeq
  <2>2. \A n \in Nodes : ElementOf(n) \in JUnitElement
    BY <1>4 DEF ElementOf, OutcomeOf, JUnitElement, Outcomes
  <2>3. \A i \in 1 .. Len(elements) : elements[i] \in JUnitElement
    BY <1>3, <1>12, <2>2
  <2> QED
    BY <2>1, <2>3
<1>14. ev.junit = [counted |-> ev.junit.counted, entries |-> elements] /\ ev.junit.counted \in BOOLEAN
  BY <1>1 DEF WholeInv, FilesInv
<1>15. ev.junit # None /\ Entries(ev) = elements
  <2>1. ev.junit \in [counted : BOOLEAN, entries : Seq(JUnitElement)]
    BY <1>13, <1>14
  <2>2. ev.junit # None
    BY <2>1, NoneAssumption DEF EvidenceFiles
  <2>3. ev.junit.entries = elements
    BY <1>14
  <2> QED
    BY <2>2, <2>3 DEF Entries
<1>16. ev.process = [id |-> Id, completed |-> TRUE, exit |-> ExitStatus]
  BY <1>1 DEF WholeInv, FilesInv
<1>17. ev.process # None
  <2>1. ev.process \in [id : Ids, completed : BOOLEAN, exit : Nat \cup {None}]
    BY <1>16, SessionAssumption DEF Id, ExitStatus
  <2> QED
    BY <2>1, NoneAssumption DEF EvidenceFiles
<1> QED
  BY <1>2, <1>3, <1>5, <1>6, <1>7, <1>8, <1>9, <1>10, <1>12, <1>13, <1>15, <1>16, <1>17

(* Every case was collected as its one test.                                *)
LEMMA DecidedMapping ==
    ASSUME Decided
    PROVE  /\ CasesOf(Rows(ev)) = {CaseOf(n) : n \in ToSet(todo)}
           /\ DOMAIN Mapping(ev) = {CaseOf(n) : n \in ToSet(todo)}
           /\ \A n \in ToSet(todo) : Mapping(ev)[CaseOf(n)] = n
<1> DEFINE N == Len(todo)
<1>1. /\ N \in Nat
      /\ \A i \in 1 .. N : todo[i] \in Nodes /\ todo[i] \in ToSet(todo)
      /\ \A i, j \in 1 .. N : CaseOf(todo[i]) = CaseOf(todo[j]) => i = j
      /\ \A n \in ToSet(todo) : n \in Nodes /\ \E i \in 1 .. N : n = todo[i]
      /\ Rows(ev) = [i \in 1 .. N |-> CollectionRow(todo[i])]
  BY DecidedEvidence
<1>2. /\ DOMAIN Rows(ev) = 1 .. N
      /\ \A i \in 1 .. N : Rows(ev)[i].case = CaseOf(todo[i]) /\ Rows(ev)[i].node = todo[i]
  BY <1>1 DEF CollectionRow
<1> HIDE DEF N
<1>3. CasesOf(Rows(ev)) = {CaseOf(n) : n \in ToSet(todo)}
  BY <1>1, <1>2 DEF CasesOf
<1>4. ASSUME NEW n \in ToSet(todo) PROVE Mapping(ev)[CaseOf(n)] = n
  <2>1. PICK i \in 1 .. N : n = todo[i]
    BY <1>1
  <2>2. PICK S : S = {k \in DOMAIN Rows(ev) : Rows(ev)[k].case = CaseOf(n)}
    OBVIOUS
  <2>3. S = {i}
    BY <1>1, <1>2, <2>1, <2>2
  <2>4. Max(S) = i
    BY <1>1, <2>1, <2>3 DEF Max
  <2>5. CaseOf(n) \in CasesOf(Rows(ev))
    BY <1>3
  <2>6. Mapping(ev)[CaseOf(n)] = Rows(ev)[Max(S)].node
    BY <2>2, <2>5 DEF Mapping
  <2> QED
    BY <1>2, <2>1, <2>4, <2>6
<1> QED
  BY <1>3, <1>4 DEF Mapping

LEMMA DecidedMapped ==
    ASSUME Decided, NEW x
    PROVE  Mapped(ev, x) <=> x.node \in ToSet(todo) /\ x.case = CaseOf(x.node)
<1>1. ASSUME Mapped(ev, x) PROVE x.node \in ToSet(todo) /\ x.case = CaseOf(x.node)
  <2>1. PICK n \in ToSet(todo) : x.case = CaseOf(n)
    BY <1>1, DecidedMapping DEF Mapped
  <2> QED
    BY <1>1, <2>1, DecidedMapping DEF Mapped
<1>2. ASSUME x.node \in ToSet(todo), x.case = CaseOf(x.node) PROVE Mapped(ev, x)
  BY <1>2, DecidedMapping DEF Mapped
<1> QED
  BY <1>1, <1>2

(* What the tests of an honest session can have done.                       *)
Clean(t) ==
    /\ t.teardown = "passed"
    /\ \/ t.setup = "passed" /\ t.call \in {"passed", "failed"}
       \/ t.setup = "failed" /\ t.call = None

LEMMA DecidedTruth ==
    ASSUME Decided
    PROVE  /\ \A n \in ToSet(todo) : Clean(truth[n])
           /\ \A n \in Nodes \ ToSet(todo), p \in Phases : truth[n][p] = None
<1>1. ASSUME NEW n \in ToSet(todo) PROVE Clean(truth[n])
  <2>1. PICK i \in DOMAIN todo : n = todo[i]
    BY DEF ToSet
  <2>2. /\ truth[n].setup \in {"passed", "failed"} /\ truth[n].call \in {"passed", "failed", None}
        /\ truth[n].teardown = "passed"
    BY <2>1 DEF Decided, Honest
  <2>3. PhasesOK(truth[n])
    BY DecidedEvidence DEF Decided, SessionInv, ProgressInv
  <2> QED
    BY <2>2, <2>3, NoneAssumption DEF PhasesOK, Clean, Outcomes
<1>2. ASSUME NEW n \in Nodes \ ToSet(todo), NEW p \in Phases PROVE truth[n][p] = None
  <2>1. truth[n].setup = None /\ PhasesOK(truth[n])
    BY DEF Decided, SessionInv, ProgressInv
  <2> QED
    BY <2>1, NoneAssumption DEF PhasesOK, Phases, Outcomes
<1> QED
  BY <1>1, <1>2

LEMMA DecidedLines ==
    ASSUME Decided, NEW lines, lines = ev.events
    PROVE  /\ lines \in Seq(LogLine) /\ Len(lines) \in Nat /\ Len(lines) >= 2 /\ DOMAIN lines = 1 .. Len(lines)
           /\ lines[1] = [kind |-> "start", id |-> Id]
           /\ lines[Len(lines)] = [kind |-> "finish", exit |-> ExitStatus, collected |-> Len(todo)]
           /\ \A i \in 1 .. Len(lines) : lines[i].kind = "report" <=> i # 1 /\ i # Len(lines)
           /\ \A i \in 1 .. Len(lines) : lines[i].kind = "report" =>
                /\ lines[i].node \in ToSet(todo) /\ lines[i].case = CaseOf(lines[i].node)
                /\ lines[i].phase \in Phases
                /\ lines[i].outcome = truth[lines[i].node][lines[i].phase]
                /\ lines[i].outcome \in {"passed", "failed"} /\ ~ lines[i].xfail
           /\ Ordered(lines) /\ Reported(lines)
<1>1. Whole /\ ~ Running /\ damaged # "events"
  BY NoneAssumption DEF Decided, Honest, Whole, Running, Sources
<1>2. /\ lines \in Seq(LogLine) /\ Len(lines) \in Nat /\ Len(lines) >= 1 /\ DOMAIN lines = 1 .. Len(lines)
      /\ lines[1] = [kind |-> "start", id |-> Id]
      /\ \A i \in 2 .. Len(lines) : lines[i].kind = "report" \/ i = Len(lines)
      /\ lines[Len(lines)] = [kind |-> "finish", exit |-> ExitStatus, collected |-> Len(todo)]
      /\ Ordered(lines) /\ Reported(lines) /\ Flagged(lines)
  BY <1>1 DEF Decided, WholeInv, LinesInv, FinishEvent
<1>3. lines[1].kind = "start" /\ lines[Len(lines)].kind = "finish"
  BY <1>2
<1>4. Len(lines) >= 2
  <2>1. Len(lines) # 1
    BY <1>3
  <2> QED
    BY <1>2, <2>1
<1>5. \A i \in 1 .. Len(lines) : lines[i].kind = "report" <=> i # 1 /\ i # Len(lines)
  BY <1>2, <1>3
<1>6. ASSUME NEW i \in 1 .. Len(lines), lines[i].kind = "report"
      PROVE  /\ lines[i].node \in ToSet(todo) /\ lines[i].case = CaseOf(lines[i].node)
             /\ lines[i].phase \in Phases
             /\ lines[i].outcome = truth[lines[i].node][lines[i].phase]
             /\ lines[i].outcome \in {"passed", "failed"} /\ ~ lines[i].xfail
  <2>1. PICK r : r = lines[i]
    OBVIOUS
  <2>2. r \in ToSet(ev.events) /\ r.kind = "report"
    BY <1>2, <1>6, <2>1 DEF ToSet
  <2>3. ReportOK(r) /\ Genuine(r)
    BY <1>1, <2>2, DecidedEvidence DEF Decided, SessionInv, EventsInv
  <2>4. r.node \in ToSet(todo) /\ r.phase \in Phases
    BY <2>3, DecidedTruth DEF ReportOK
  <2>5. truth[r.node][r.phase] \in {"passed", "failed"}
    BY <2>3, <2>4, DecidedTruth DEF Clean, ReportOK, Phases
  <2>6. r.xfail <=> truth[r.node][r.phase] = "xpassed"
    BY <1>2, <1>6, <2>1 DEF Flagged
  <2> QED
    BY <2>1, <2>3, <2>4, <2>5, <2>6 DEF Genuine, Recorded
<1> QED
  BY <1>2, <1>4, <1>5, <1>6

(* pytest's events hold one report of each phase that was run, and it says  *)
(* what the phase did.                                                      *)
LEMMA DecidedReports ==
    ASSUME Decided, NEW n \in ToSet(todo), NEW p \in Phases
    PROVE  /\ truth[n][p] = None => Reports(ev, CaseOf(n), p) = {}
           /\ truth[n][p] # None =>
                \E i \in 1 .. Len(ev.events) :
                  Reports(ev, CaseOf(n), p) = {i} /\ IsReport(ev.events[i], n, p)
           /\ Outcome(ev, CaseOf(n), p) = truth[n][p]
<1>1. PICK lines : lines = ev.events
  OBVIOUS
<1>2. Events(ev) = lines /\ DOMAIN lines = 1 .. Len(lines) /\ Len(lines) \in Nat
  BY <1>1, DecidedEvidence, DecidedLines
<1>3. PICK S : S = Reports(ev, CaseOf(n), p)
  OBVIOUS
<1>4. n \in Nodes /\ \A m \in ToSet(todo) : CaseOf(m) = CaseOf(n) => m = n
  BY DecidedEvidence
<1>5. ASSUME NEW i PROVE i \in S <=> i \in 1 .. Len(lines) /\ IsReport(lines[i], n, p)
  <2>1. i \in S <=> /\ i \in 1 .. Len(lines) /\ lines[i].kind = "report"
                    /\ Mapped(ev, lines[i]) /\ lines[i].case = CaseOf(n) /\ lines[i].phase = p
    BY <1>2, <1>3 DEF Reports, OfKind
  <2>2. Mapped(ev, lines[i]) <=> lines[i].node \in ToSet(todo) /\ lines[i].case = CaseOf(lines[i].node)
    BY DecidedMapped
  <2>3. ASSUME i \in 1 .. Len(lines), lines[i].kind = "report"
        PROVE  lines[i].case = CaseOf(lines[i].node)
    BY <1>1, <2>3, DecidedLines
  <2> QED
    BY <1>4, <2>1, <2>2, <2>3 DEF IsReport
<1>6. \A i \in S : truth[n][p] = lines[i].outcome /\ truth[n][p] \in {"passed", "failed"}
  BY <1>1, <1>5, DecidedLines DEF IsReport
<1>7. CASE truth[n][p] = None
  <2>1. S = {}
    BY <1>6, <1>7, NoneAssumption DEF Outcomes
  <2> QED
    BY <1>3, <1>7, <2>1 DEF Outcome
<1>8. CASE truth[n][p] # None
  <2>1. PICK i \in 1 .. Len(lines) : IsReport(lines[i], n, p)
    BY <1>1, <1>4, <1>8, DecidedLines DEF Reported
  <2>2. ASSUME NEW j \in S PROVE j = i
    <3>1. j \in 1 .. Len(lines) /\ IsReport(lines[j], n, p)
      BY <1>5
    <3>2. Ordered(lines)
      BY <1>1, DecidedLines
    <3>3. ~ Earlier(p, p)
      BY DEF Earlier
    <3>4. ~ (i < j) /\ ~ (j < i)
      BY <2>1, <3>1, <3>2, <3>3 DEF Ordered, IsReport
    <3> QED
      BY <3>1, <3>4
  <2>3. S = {i}
    BY <1>5, <2>1, <2>2
  <2>4. Max(S) = i
    BY <1>2, <2>1, <2>3 DEF Max
  <2>5. Outcome(ev, CaseOf(n), p) = lines[i].outcome
    BY <1>2, <1>3, <2>3, <2>4 DEF Outcome
  <2> QED
    BY <1>1, <1>3, <1>6, <1>8, <2>1, <2>3, <2>5
<1> QED
  BY <1>7, <1>8

LEMMA DecidedSequence ==
    ASSUME Decided, NEW n \in ToSet(todo)
    PROVE  InSequence(ev, CaseOf(n))
<1> DEFINE c == CaseOf(n)
<1>1. Clean(truth[n])
  BY DecidedTruth
<1>2. \A p \in Phases : Outcome(ev, c, p) = truth[n][p]
  BY DecidedReports
<1>3. \A p \in Phases : truth[n][p] = None <=> Reports(ev, c, p) = {}
  BY DecidedReports
<1>4. PhasesOf(ev, c) = {p \in Phases : truth[n][p] # None}
  BY <1>3 DEF PhasesOf
<1>5. ASSUME NEW p \in Phases, NEW q \in Phases, truth[n][p] # None, truth[n][q] # None,
             Earlier(p, q)
      PROVE  Before(ev, c, p, q)
  <2>1. PICK i \in 1 .. Len(ev.events) :
          Reports(ev, CaseOf(n), p) = {i} /\ IsReport(ev.events[i], n, p)
    BY <1>5, DecidedReports
  <2>2. PICK j \in 1 .. Len(ev.events) :
          Reports(ev, CaseOf(n), q) = {j} /\ IsReport(ev.events[j], n, q)
    BY <1>5, DecidedReports
  <2>3. Len(ev.events) \in Nat /\ Ordered(ev.events)
    BY DecidedLines
  <2>4. p # q /\ ~ Earlier(q, p)
    BY <1>5 DEF Earlier
  <2>5. ~ (j < i)
    BY <2>1, <2>2, <2>3, <2>4 DEF Ordered, IsReport
  <2>6. i # j
    BY <2>1, <2>2, <2>4 DEF IsReport
  <2>7. Min({i}) = i /\ Min({j}) = j
    BY <2>3 DEF Min
  <2> QED
    BY <2>1, <2>2, <2>3, <2>5, <2>6, <2>7 DEF Before
<1>6. Earlier("setup", "call") /\ Earlier("call", "teardown") /\ Earlier("setup", "teardown")
  BY DEF Earlier
<1>7. None # "passed" /\ None # "failed"
  BY NoneAssumption DEF Outcomes
<1>8. CASE truth[n].setup = "passed"
  <2>1. \A p \in Phases : truth[n][p] # None
    BY <1>1, <1>7, <1>8 DEF Clean, Phases
  <2>2. PhasesOf(ev, c) = Phases
    BY <1>4, <2>1
  <2> QED
    BY <1>2, <1>5, <1>6, <1>8, <2>1, <2>2 DEF InSequence, Phases
<1>9. CASE truth[n].setup # "passed"
  <2>1. truth[n].setup # None /\ truth[n].call = None /\ truth[n].teardown # None
    BY <1>1, <1>7, <1>9 DEF Clean
  <2>2. PhasesOf(ev, c) = {"setup", "teardown"}
    BY <1>4, <2>1 DEF Phases
  <2>3. "setup" \in Phases /\ "teardown" \in Phases
    BY DEF Phases
  <2>4. Before(ev, c, "setup", "teardown")
    BY <1>5, <1>6, <2>1, <2>3
  <2> QED
    BY <1>2, <1>9, <2>2, <2>3, <2>4 DEF InSequence
<1> QED
  BY <1>8, <1>9

(* JUnit has one element of each case, and it agrees with the events.       *)
LEMMA DecidedElements ==
    ASSUME Decided
    PROVE  /\ \A i \in DOMAIN Entries(ev) : JUnitEntryOK(ev, i)
           /\ {c \in CasesOf(Entries(ev)) : Accepted(ev, c) # {}} = {CaseOf(n) : n \in ToSet(todo)}
           /\ \A n \in ToSet(todo) : JUnitAgrees(ev, CaseOf(n))
<1> DEFINE N == Len(todo)
<1>1. /\ N \in Nat /\ Entries(ev) = elements /\ DOMAIN elements = 1 .. N
      /\ \A i \in 1 .. N : todo[i] \in Nodes /\ todo[i] \in ToSet(todo)
      /\ \A i, j \in 1 .. N : CaseOf(todo[i]) = CaseOf(todo[j]) => i = j
      /\ \A n \in ToSet(todo) : n \in Nodes /\ \E i \in 1 .. N : n = todo[i]
      /\ \A i \in 1 .. N : elements[i] = ElementOf(todo[i])
  BY DecidedEvidence
<1>2. ASSUME NEW i \in 1 .. N
      PROVE  /\ elements[i].case = CaseOf(todo[i]) /\ elements[i].node = todo[i]
             /\ elements[i].outcome = OutcomeOf(truth[todo[i]])
             /\ Mapped(ev, elements[i])
  <2>1. /\ elements[i].case = CaseOf(todo[i]) /\ elements[i].node = todo[i]
        /\ elements[i].outcome = OutcomeOf(truth[todo[i]])
    BY <1>1 DEF ElementOf
  <2> QED
    BY <1>1, <2>1, DecidedMapped
<1> HIDE DEF N
<1>3. ASSUME NEW i \in 1 .. N PROVE Accepted(ev, CaseOf(todo[i])) = {i}
  BY <1>1, <1>2 DEF Accepted
<1>4. \A i \in 1 .. N : Min({i}) = i
  BY <1>1 DEF Min
<1>5. ASSUME NEW i \in DOMAIN Entries(ev) PROVE JUnitEntryOK(ev, i)
  <2>1. i \in 1 .. N
    BY <1>1
  <2>2. CaseOf(todo[i]) # None
    BY <1>1, <2>1, NoneAssumption DEF CaseOf
  <2> QED
    BY <1>1, <1>2, <1>3, <1>4, <2>1, <2>2 DEF JUnitEntryOK
<1>6. CasesOf(Entries(ev)) = {CaseOf(n) : n \in ToSet(todo)}
  BY <1>1, <1>2 DEF CasesOf
<1>7. ASSUME NEW n \in ToSet(todo) PROVE \E i \in 1 .. N : n = todo[i] /\ Accepted(ev, CaseOf(n)) = {i}
  <2>1. PICK i \in 1 .. N : n = todo[i]
    BY <1>1
  <2>2. Accepted(ev, CaseOf(todo[i])) = {i}
    BY <1>3
  <2> QED
    BY <2>1, <2>2
<1>8. ASSUME NEW n \in ToSet(todo) PROVE JUnitAgrees(ev, CaseOf(n))
  <2>1. PICK i \in 1 .. N : n = todo[i] /\ Accepted(ev, CaseOf(n)) = {i}
    BY <1>7
  <2>2. JUnit(ev, CaseOf(n)) = OutcomeOf(truth[n])
    BY <1>1, <1>2, <1>4, <2>1 DEF JUnit
  <2>3. \A p \in Phases : Outcome(ev, CaseOf(n), p) = truth[n][p]
    BY DecidedReports
  <2>4. Clean(truth[n])
    BY DecidedTruth
  <2>5. Raw(ev, CaseOf(n)) = OutcomeOf(truth[n])
    BY <2>3, <2>4 DEF Raw, OutcomeOf, Clean, Phases
  <2> QED
    BY <2>2, <2>5 DEF JUnitAgrees
<1> QED
  BY <1>5, <1>6, <1>7, <1>8

LEMMA DistinctCount ==
    ASSUME NEW m \in Nat, NEW f, f = [i \in 1 .. m |-> f[i]],
           \A i, j \in 1 .. m : f[i] = f[j] => i = j
    PROVE  Cardinality({f[i] : i \in 1 .. m}) = m
<1> DEFINE T == {f[i] : i \in 1 .. m}
<1>1. f \in Bijection(1 .. m, T)
  BY DEF Bijection, Injection, Surjection, IsInjective
<1>2. IsFiniteSet(1 .. m) /\ Cardinality(1 .. m) = m
  <2>1. 1 \in Int /\ m \in Int
    OBVIOUS
  <2>2. IsFiniteSet(1 .. m) /\ Cardinality(1 .. m) = IF 1 > m THEN 0 ELSE m - 1 + 1
    BY <2>1, FS_Interval
  <2> QED
    BY <2>2
<1> QED
  BY <1>1, <1>2, FS_Bijection DEF ExistsBijection

LEMMA DecidedStatus ==
    ASSUME Decided, NEW n \in ToSet(todo), NEW c, c = CaseOf(n)
    PROVE  /\ c \in Expected(plan) /\ c \in DOMAIN plan /\ plan[c] = "auto"
           /\ StatusOf(plan, ev, c) = IF truth[n].setup = "failed" THEN "blocked"
                                      ELSE IF truth[n].call = "failed" THEN "failed" ELSE "passed"
<1>1. c \in Expected(plan) /\ c \in DOMAIN plan /\ plan[c] = "auto"
  BY DecidedMapping DEF Decided, Honest, Expected
<1>2. \A p \in Phases : Outcome(ev, c, p) = truth[n][p]
  BY DecidedReports
<1>3. Clean(truth[n])
  BY DecidedTruth
<1> QED
  BY <1>1, <1>2, <1>3 DEF StatusOf, Clean, Phases

(* Reconciliation finds no integrity error.                                 *)
LEMMA DecidedErrors ==
    ASSUME Decided
    PROVE  Errors(plan, ev) = {}
<1> DEFINE N == Len(todo)
           cases == {CaseOf(n) : n \in ToSet(todo)}
<1>1. /\ N \in Nat /\ N >= 1
      /\ \A i \in 1 .. N : todo[i] \in Nodes /\ todo[i] \in ToSet(todo)
      /\ \A i, j \in 1 .. N : CaseOf(todo[i]) = CaseOf(todo[j]) => i = j
      /\ Rows(ev) = [i \in 1 .. N |-> CollectionRow(todo[i])]
      /\ ev.collection # None /\ ~ ev.collection.errors
      /\ ev.events # None /\ ev.junit # None /\ ev.process # None
      /\ ev.process = [id |-> Id, completed |-> TRUE, exit |-> ExitStatus]
  BY DecidedEvidence
<1>2. CasesOf(Rows(ev)) = cases /\ Expected(plan) = cases
  BY DecidedMapping DEF Decided, Honest
<1>3. ExitCode(ev) = ExitStatus /\ ExitStatus \in {0, 1} /\ ProcessCompleted(ev)
  BY <1>1 DEF ExitCode, ExitStatus, ProcessCompleted
<1>4. Len(Rows(ev)) = N /\ Rows(ev) # <<>>
  BY <1>1
<1>5. Cardinality(CasesOf(Rows(ev))) = N
  <2>1. PICK f : f = [i \in 1 .. N |-> CaseOf(todo[i])]
    OBVIOUS
  <2>2. Cardinality({f[i] : i \in 1 .. N}) = N
    BY <1>1, <2>1, DistinctCount
  <2>3. {f[i] : i \in 1 .. N} = CasesOf(Rows(ev))
    BY <1>1, <2>1 DEF CasesOf, CollectionRow
  <2> QED
    BY <2>2, <2>3
<1>6. Cardinality(NodesOf(Rows(ev))) = N
  <2>1. PICK f : f = [i \in 1 .. N |-> todo[i]]
    OBVIOUS
  <2>2. Cardinality({f[i] : i \in 1 .. N}) = N
    BY <1>1, <2>1, DistinctCount
  <2>3. {f[i] : i \in 1 .. N} = NodesOf(Rows(ev))
    BY <1>1, <2>1 DEF NodesOf, CollectionRow
  <2> QED
    BY <2>2, <2>3
<1> HIDE DEF N
<1>7. PICK lines : lines = ev.events /\ lines = Events(ev)
  BY DecidedEvidence
<1>8. /\ Len(lines) \in Nat /\ Len(lines) >= 2 /\ DOMAIN lines = 1 .. Len(lines)
      /\ lines[1] = [kind |-> "start", id |-> Id]
      /\ lines[Len(lines)] = [kind |-> "finish", exit |-> ExitStatus, collected |-> N]
      /\ \A i \in 1 .. Len(lines) : lines[i].kind = "report" <=> i # 1 /\ i # Len(lines)
      /\ \A i \in 1 .. Len(lines) : lines[i].kind = "report" =>
           /\ lines[i].node \in ToSet(todo) /\ lines[i].case = CaseOf(lines[i].node)
           /\ lines[i].outcome \in {"passed", "failed"} /\ ~ lines[i].xfail
  BY <1>7, DecidedLines DEF N
<1>9. /\ OfKind(ev, "start") = {1} /\ OfKind(ev, "finish") = {Len(lines)}
      /\ \A i \in OfKind(ev, "report") : i \in 1 .. Len(lines) /\ lines[i].kind = "report"
  <2>1. /\ Len(lines) \in Nat /\ Len(lines) >= 2 /\ DOMAIN lines = 1 .. Len(lines)
        /\ lines[1] = [kind |-> "start", id |-> Id]
        /\ lines[Len(lines)] = [kind |-> "finish", exit |-> ExitStatus, collected |-> N]
    BY <1>8
  <2>2. lines[1].kind = "start" /\ lines[Len(lines)].kind = "finish"
    BY <2>1
  <2>3. \A i \in 1 .. Len(lines) : lines[i].kind = "report" <=> i # 1 /\ i # Len(lines)
    BY <1>8
  <2>4. \A i \in 1 .. Len(lines) : /\ lines[i].kind = "start" <=> i = 1
                                   /\ lines[i].kind = "finish" <=> i = Len(lines)
    BY <2>1, <2>2, <2>3
  <2>5. 1 \in 1 .. Len(lines) /\ Len(lines) \in 1 .. Len(lines)
    BY <2>1
  <2>6. \A kind : OfKind(ev, kind) = {i \in 1 .. Len(lines) : lines[i].kind = kind}
    BY <1>7, <2>1 DEF OfKind
  <2> QED
    BY <2>4, <2>5, <2>6
<1>10. /\ lines[1].kind = "start" /\ lines[1].id = Id
       /\ lines[Len(lines)].kind = "finish" /\ lines[Len(lines)].exit = ExitStatus
       /\ lines[Len(lines)].collected = N
  <2>1. /\ lines[1] = [kind |-> "start", id |-> Id]
        /\ lines[Len(lines)] = [kind |-> "finish", exit |-> ExitStatus, collected |-> N]
    BY <1>8
  <2> QED
    BY <2>1
<1>11. Cardinality(OfKind(ev, "start")) = 1 /\ Cardinality(OfKind(ev, "finish")) = 1
  BY <1>9, FS_Singleton
<1>12. SessionEvents(ev) /\ SameInvocation(ev) /\ SessionMatchesProcess(ev)
  <2>1. SessionEvents(ev)
    BY <1>7, <1>10, <1>11 DEF SessionEvents
  <2>2. ev.process # None /\ ev.process.id = Id
    BY <1>1
  <2>3. SameInvocation(ev)
    BY <1>7, <1>9, <1>10, <1>11, <2>2 DEF SameInvocation
  <2>4. Len(lines) \in Nat
    BY <1>8
  <2>5. PICK S : S = OfKind(ev, "finish")
    OBVIOUS
  <2>6. Max(S) = Len(lines)
    BY <1>9, <2>4, <2>5 DEF Max
  <2>7. SessionMatchesProcess(ev)
    BY <1>3, <1>4, <1>7, <1>10, <2>5, <2>6 DEF SessionMatchesProcess
  <2> QED
    BY <2>1, <2>3, <2>7
<1>13. \A i \in OfKind(ev, "report") :
         /\ Mapped(ev, Events(ev)[i])
         /\ ~ Events(ev)[i].xfail /\ Events(ev)[i].outcome # "skipped"
  BY <1>7, <1>8, <1>9, DecidedMapped
<1>14. ASSUME NEW c \in cases, NEW p \in Phases PROVE ~ (Cardinality(Reports(ev, c, p)) > 1)
  <2>1. PICK n \in ToSet(todo) : c = CaseOf(n)
    OBVIOUS
  <2>2. Reports(ev, c, p) = {} \/ \E i : Reports(ev, c, p) = {i}
    BY <2>1, DecidedReports
  <2>3. Cardinality(Reports(ev, c, p)) \in {0, 1}
    BY <2>2, FS_EmptySet, FS_Singleton
  <2> QED
    BY <2>3
<1>15. ev.junit.counted
  <2>1. Whole /\ ~ Running
    BY DEF Decided, Honest, Whole, Running
  <2>2. ASSUME NEW n \in Nodes PROVE truth[n].teardown # "failed"
    BY DecidedTruth, NoneAssumption DEF Clean, Phases, Outcomes
  <2> QED
    BY <2>1, <2>2 DEF Decided, WholeInv, FilesInv
<1>16. /\ \A i \in DOMAIN Entries(ev) : JUnitEntryOK(ev, i)
       /\ {c \in CasesOf(Entries(ev)) : Accepted(ev, c) # {}} = cases
       /\ \A c \in cases : JUnitAgrees(ev, c)
  BY DecidedElements
<1>17. \A c \in cases : InSequence(ev, c)
  BY DecidedSequence
<1>18. ASSUME ExitCode(ev) = 0, NEW c \in cases PROVE StatusOf(plan, ev, c) = "passed"
  <2>1. PICK n \in ToSet(todo) : c = CaseOf(n)
    OBVIOUS
  <2>2. ~ AnyFailed
    BY <1>3, <1>18 DEF ExitStatus
  <2>3. truth[n].setup # "failed" /\ truth[n].call # "failed"
    BY <2>2, DecidedEvidence DEF AnyFailed, Phases
  <2> QED
    BY <2>1, <2>3, DecidedStatus
<1>19. ASSUME ExitCode(ev) = 1
       PROVE  \E c \in DOMAIN plan : StatusOf(plan, ev, c) \in {"failed", "blocked"}
  <2>1. AnyFailed
    BY <1>3, <1>19 DEF ExitStatus
  <2>2. PICK n \in Nodes, p \in Phases : truth[n][p] = "failed"
    BY <2>1 DEF AnyFailed
  <2>3. n \in ToSet(todo)
    BY <2>2, DecidedTruth, NoneAssumption DEF Outcomes
  <2>4. truth[n].setup = "failed" \/ truth[n].call = "failed"
    BY <2>2, <2>3, DecidedTruth DEF Clean, Phases
  <2>5. PICK c : c = CaseOf(n)
    OBVIOUS
  <2> QED
    BY <2>3, <2>4, <2>5, DecidedStatus
<1> HIDE DEF cases
<1> DEFINE faults == Faults(plan, ev)
<1>20. /\ ~ faults.invalid_or_missing_collection /\ ~ faults.invalid_or_missing_process
       /\ ~ faults.invalid_or_missing_events /\ ~ faults.invalid_or_missing_junit
       /\ ~ faults.collection_mapping_error /\ ~ faults.duplicate_case_or_nodeid
       /\ ~ faults.planned_and_collected_cases_differ /\ ~ faults.zero_collection
  BY <1>1, <1>2, <1>4, <1>5, <1>6 DEF Faults
<1>21. /\ ~ faults.incomplete_session_events /\ ~ faults.request_invocation_identity_mismatch
       /\ ~ faults.process_not_a_completed_acceptance_run /\ ~ faults.process_session_mismatch
  BY <1>3, <1>12 DEF Faults
<1>22. /\ ~ faults.unmapped_or_invalid_report /\ ~ faults.duplicate_phase_report
       /\ ~ faults.unexpected_skip_or_xfail
  BY <1>2, <1>13, <1>14 DEF Faults
<1>23. /\ ~ faults.junit_declared_count_mismatch /\ ~ faults.invalid_or_duplicate_junit_mapping
       /\ ~ faults.junit_case_set_mismatch /\ ~ faults.invalid_phase_sequence
       /\ ~ faults.junit_event_mismatch
  BY <1>2, <1>15, <1>16, <1>17 DEF Faults
<1>24. ~ faults.exit_code_hides_unsuccessful_case
  BY <1>2, <1>18 DEF Faults
<1>25. ~ faults.nonzero_exit_without_failure
  BY <1>19 DEF Faults
<1>26. \A name \in DOMAIN faults : ~ faults[name]
  <2>1. DOMAIN faults =
          {"invalid_or_missing_collection", "invalid_or_missing_process", "invalid_or_missing_events",
           "invalid_or_missing_junit", "collection_mapping_error", "duplicate_case_or_nodeid",
           "planned_and_collected_cases_differ", "zero_collection", "incomplete_session_events",
           "request_invocation_identity_mismatch", "process_not_a_completed_acceptance_run",
           "process_session_mismatch", "unmapped_or_invalid_report", "duplicate_phase_report",
           "unexpected_skip_or_xfail", "junit_declared_count_mismatch",
           "invalid_or_duplicate_junit_mapping", "junit_case_set_mismatch", "invalid_phase_sequence",
           "junit_event_mismatch", "exit_code_hides_unsuccessful_case",
           "nonzero_exit_without_failure"}
    BY DEF Faults
  <2> HIDE DEF faults
  <2> QED
    BY <2>1, <1>20, <1>21, <1>22, <1>23, <1>24, <1>25
<1> QED
  BY <1>26 DEF Errors

(* Reconciliation raises no false alarm: whatever the suite, its plan and   *)
(* the outcomes of its tests, a session that nothing disturbed has no       *)
(* integrity error and the gate its tests deserve.                          *)
THEOREM HonestSessionsAreDecided == Spec => []HonestSessionIsDecided
<1>1. SessionInv /\ WholeInv => HonestSessionIsDecided
  <2> SUFFICES ASSUME SessionInv, WholeInv, verdict # None, Honest PROVE HonestSessionIsDecided
    BY DEF HonestSessionIsDecided
  <2>1. Decided /\ verdict = Manifest(plan, ev)
    BY DEF Decided, SessionInv, VerdictInv
  <2>2. Errors(plan, ev) = {}
    BY <2>1, DecidedErrors
  <2> DEFINE failedSetup == \E n \in Nodes : truth[n].setup = "failed"
             failedTest == \E n \in Nodes : TrulyFailed(n)
             required == \E c \in DOMAIN plan : plan[c] = "required"
  <2>3. PICK results : results = [c \in DOMAIN plan |-> StatusOf(plan, ev, c)]
    OBVIOUS
  <2>4. /\ verdict.errors = {}
        /\ verdict.gate = IF \E c \in DOMAIN plan : results[c] = "blocked" THEN "blocked"
                          ELSE IF \E c \in DOMAIN plan : results[c] = "failed" \/ plan[c] = "required"
                          THEN "failed" ELSE "passed"
    <3>1. results = [c \in DOMAIN plan |-> LET status == StatusOf(plan, ev, c) IN
                       IF status = "passed" /\ Errors(plan, ev) # {} THEN "blocked" ELSE status]
      BY <2>2, <2>3
    <3> QED
      BY <2>1, <2>2, <3>1 DEF Manifest
  <2>5. ASSUME NEW n \in ToSet(todo)
        PROVE  /\ CaseOf(n) \in DOMAIN plan
               /\ results[CaseOf(n)] = IF truth[n].setup = "failed" THEN "blocked"
                                       ELSE IF truth[n].call = "failed" THEN "failed" ELSE "passed"
    BY <2>1, <2>3, DecidedStatus
  <2>6. ASSUME NEW c \in DOMAIN plan
        PROVE  results[c] = "skipped" \/ \E n \in ToSet(todo) : c = CaseOf(n)
    <3>1. CASE plan[c] = "auto"
      BY <2>1, <3>1, DecidedMapping DEF Decided, Honest, Expected
    <3>2. CASE plan[c] # "auto"
      BY <2>3, <3>2 DEF StatusOf
    <3> QED
      BY <3>1, <3>2
  <2>7. \A n \in Nodes : truth[n].setup = "failed" \/ TrulyFailed(n) => n \in ToSet(todo)
    BY <2>1, DecidedTruth, NoneAssumption DEF TrulyFailed, Phases, Outcomes
  <2>8. \A n \in ToSet(todo) : n \in Nodes /\ Clean(truth[n])
    BY <2>1, DecidedEvidence, DecidedTruth
  <2>9. (\E c \in DOMAIN plan : results[c] = "blocked") <=> failedSetup
    <3>1. ASSUME NEW c \in DOMAIN plan, results[c] = "blocked" PROVE failedSetup
      BY <2>5, <2>6, <2>8, <3>1
    <3>2. ASSUME NEW n \in Nodes, truth[n].setup = "failed"
          PROVE  \E c \in DOMAIN plan : results[c] = "blocked"
      BY <2>5, <2>7, <3>2
    <3> QED
      BY <3>1, <3>2
  <2>10. (\E c \in DOMAIN plan : results[c] = "failed") <=> failedTest
    <3>1. ASSUME NEW c \in DOMAIN plan, results[c] = "failed" PROVE failedTest
      BY <2>5, <2>6, <2>8, <3>1 DEF TrulyFailed
    <3>2. ASSUME NEW n \in Nodes, TrulyFailed(n)
          PROVE  \E c \in DOMAIN plan : results[c] = "failed"
      <4>1. n \in ToSet(todo) /\ truth[n].call = "failed" /\ truth[n].setup # "failed"
        BY <2>7, <2>8, <3>2, NoneAssumption DEF TrulyFailed, Clean, Outcomes
      <4> QED
        BY <2>5, <4>1
    <3> QED
      BY <3>1, <3>2
  <2>11. verdict.gate = IF failedSetup THEN "blocked"
                        ELSE IF failedTest \/ required THEN "failed" ELSE "passed"
    BY <2>4, <2>9, <2>10
  <2> QED
    BY <2>4, <2>11 DEF HonestSessionIsDecided
<1> QED
  BY <1>1, SessionInvariant, WholeSession, PTL

----------------------------------------------------------------------------
(* What a suite that keeps to its contract records                          *)

IsCheck(x, k) == x.kind = "check" /\ x.check = k

IsRead(x, d, c) == x.kind = "data_read" /\ x.data = d /\ x.case = c

(* The checks a test has to evaluate.                                       *)
Owed(n) == {k \in DOMAIN contract.owner : contract.bound[k] = n}

(* A check in the body of the test it is bound to, and a failed one only    *)
(* there where it fails; a row its case declares.                           *)
Meant(x) ==
    /\ x.phase = "call"
    /\ x.kind = "check" =>
         /\ x.check \in Owed(x.node) /\ x.known
         /\ x.outcome = "passed" \/ truth[x.node].call = "failed"
    /\ x.kind = "data_read" => x.data \in DueRows(x.node)

Once(events) ==
    \A i, j \in 1 .. Len(events) :
      (events[i].kind = "check" /\ events[j].kind = "check" /\ events[i].check = events[j].check)
         => i = j

Delivered(n, events) ==
    /\ \A k \in Owed(n) : \E x \in ToSet(events) : IsCheck(x, k)
    /\ \A d \in DueRows(n) : \E x \in ToSet(events) : IsRead(x, d, CaseOf(n))

FaithfulInv ==
    /\ \A k \in DOMAIN contract.owner : CaseOf(contract.bound[k]) = contract.owner[k]
    /\ slips = 0 =>
         /\ \A x \in ToSet(log) : Meant(x)
         /\ Once(log)
         /\ \A n \in Nodes : truth[n].call \in {"passed", "xpassed"} => Delivered(n, log)

LEMMA FaithfulStarts == Init => FaithfulInv
<1> SUFFICES ASSUME Init PROVE FaithfulInv
  OBVIOUS
<1>1. log = <<>> /\ \A n \in Nodes : truth[n].call = None
  BY DEF Init, SessionInit, NotRun
<1>2. (\A x \in ToSet(log) : Meant(x)) /\ Once(log)
  BY <1>1, NoShape DEF Once
<1>3. \A n \in Nodes : truth[n].call \notin {"passed", "xpassed"}
  BY <1>1, NoneAssumption DEF Outcomes
<1>4. ASSUME NEW k \in DOMAIN contract.owner PROVE CaseOf(contract.bound[k]) = contract.owner[k]
  <2>1. CASE contract = NoContract
    BY <2>1 DEF NoContract
  <2>2. CASE contract # NoContract
    <3>1. /\ plan \in Plans /\ contract \in Contracts
          /\ \A c \in Checks : marker[contract.bound[c]] = contract.owner[c]
      BY <2>2 DEF Init, SessionInit
    <3>2. contract.owner \in [Checks -> Expected(plan)]
      BY <3>1 DEF Contracts, Owners
    <3>3. DOMAIN plan \subseteq Cases
      BY <3>1 DEF Plans
    <3>4. contract.owner[k] \in Cases /\ k \in Checks
      BY <3>2, <3>3 DEF Expected
    <3>5. contract.owner[k] # None
      BY <3>4, NoneAssumption
    <3> QED
      BY <3>1, <3>4, <3>5 DEF CaseOf
  <2> QED
    BY <2>1, <2>2
<1> QED
  BY <1>2, <1>3, <1>4 DEF FaithfulInv

(* No check is due twice.                                                   *)
LEMMA DueOnce ==
    ASSUME LogInv, NEW n
    PROVE  Once(Due(n)) /\ \A x \in ToSet(Due(n)) : x.kind = "check" => x.check \in DueChecks(n)
<1> DEFINE reads == {ReadEvent(d, n) : d \in DueRows(n)}
           checks == {CheckEvent(k, n, "passed") : k \in DueChecks(n)}
<1>1. DueRows(n) \subseteq Data /\ DueChecks(n) \subseteq Checks
  BY DueShape
<1>2. IsFiniteSet(reads) /\ IsFiniteSet(checks)
  <2>1. IsFiniteSet(DueRows(n)) /\ IsFiniteSet(DueChecks(n))
    BY <1>1, SlipsAssumption, FS_Subset
  <2>2. PICK f : f = [d \in DueRows(n) |-> ReadEvent(d, n)]
    OBVIOUS
  <2>3. PICK g : g = [k \in DueChecks(n) |-> CheckEvent(k, n, "passed")]
    OBVIOUS
  <2>4. reads = {f[d] : d \in DOMAIN f} /\ checks = {g[k] : k \in DOMAIN g}
    BY <2>2, <2>3
  <2> QED
    BY <2>1, <2>2, <2>3, <2>4, ImageIsFinite
<1>3. PICK s, t : s = SetToSeq(reads) /\ t = SetToSeq(checks)
  OBVIOUS
<1>4. Due(n) = s \o t
  BY <1>3 DEF Due, DueRows, DueChecks
<1>5. /\ \A x \in reads : x.kind = "data_read"
      /\ \A x \in checks : x.kind = "check" /\ x.check \in DueChecks(n)
      /\ \A x, y \in checks : x.check = y.check => x = y
  BY DEF ReadEvent, CheckEvent
<1> HIDE DEF reads, checks
<1>6. /\ IsSeq(s) /\ ToSet(s) = reads
      /\ IsSeq(t) /\ ToSet(t) = checks /\ \A i, j \in DOMAIN t : t[i] = t[j] => i = j
  BY <1>2, <1>3, ListedShape
<1>7. /\ Len(s) \in Nat /\ \A i \in 1 .. Len(s) : s[i] \in reads
      /\ Len(t) \in Nat /\ DOMAIN t = 1 .. Len(t) /\ \A i \in 1 .. Len(t) : t[i] \in checks
  BY <1>6 DEF IsSeq, ToSet
<1>8. PICK u : u = Due(n)
  OBVIOUS
<1>9. /\ Len(u) = Len(s) + Len(t)
      /\ \A i \in 1 .. Len(s) : u[i] = s[i]
      /\ \A i \in 1 .. Len(t) : u[Len(s) + i] = t[i]
      /\ ToSet(u) = reads \cup checks
  BY <1>4, <1>6, <1>8, JoinedShape
<1>10. ASSUME NEW i \in 1 .. Len(u), u[i].kind = "check"
       PROVE  \E l \in 1 .. Len(t) : i = Len(s) + l /\ u[i] = t[l] /\ t[l] \in checks
  <2>1. i \notin 1 .. Len(s)
    BY <1>5, <1>7, <1>9, <1>10
  <2>2. i - Len(s) \in 1 .. Len(t) /\ i = Len(s) + (i - Len(s))
    BY <1>7, <1>9, <2>1
  <2> QED
    BY <1>7, <1>9, <2>2
<1>11. ASSUME NEW i \in 1 .. Len(u), NEW j \in 1 .. Len(u),
              u[i].kind = "check", u[j].kind = "check", u[i].check = u[j].check
       PROVE  i = j
  <2>1. PICK l \in 1 .. Len(t) : i = Len(s) + l /\ u[i] = t[l] /\ t[l] \in checks
    BY <1>10, <1>11
  <2>2. PICK m \in 1 .. Len(t) : j = Len(s) + m /\ u[j] = t[m] /\ t[m] \in checks
    BY <1>10, <1>11
  <2>3. t[l] = t[m]
    BY <1>5, <1>11, <2>1, <2>2
  <2>4. l = m
    BY <1>6, <1>7, <2>3
  <2> QED
    BY <2>1, <2>2, <2>4
<1>12. Once(u)
  BY <1>11 DEF Once
<1>13. \A x \in ToSet(u) : x.kind = "check" => x.check \in DueChecks(n)
  BY <1>5, <1>9
<1> QED
  BY <1>8, <1>12, <1>13

(* Events of other checks can follow.                                       *)
LEMMA OnceJoined ==
    ASSUME NEW s, NEW t, IsSeq(s), IsSeq(t), Once(s), Once(t),
           \A x \in ToSet(s), y \in ToSet(t) :
             ~ (x.kind = "check" /\ y.kind = "check" /\ x.check = y.check)
    PROVE  Once(s \o t)
<1>1. PICK u : u = s \o t
  OBVIOUS
<1>2. /\ Len(u) = Len(s) + Len(t)
      /\ \A i \in 1 .. Len(s) : u[i] = s[i]
      /\ \A i \in 1 .. Len(t) : u[Len(s) + i] = t[i]
  BY <1>1, JoinedShape
<1>3. /\ Len(s) \in Nat /\ \A i \in 1 .. Len(s) : s[i] \in ToSet(s)
      /\ Len(t) \in Nat /\ \A i \in 1 .. Len(t) : t[i] \in ToSet(t)
  BY DEF IsSeq, ToSet
<1>4. ASSUME NEW i \in 1 .. Len(u)
      PROVE  \/ i \in 1 .. Len(s) /\ u[i] = s[i] /\ u[i] \in ToSet(s)
             \/ \E l \in 1 .. Len(t) : i = Len(s) + l /\ u[i] = t[l] /\ u[i] \in ToSet(t)
  <2>1. CASE i \in 1 .. Len(s)
    BY <1>2, <1>3, <2>1
  <2>2. CASE i \notin 1 .. Len(s)
    <3>1. i - Len(s) \in 1 .. Len(t) /\ i = Len(s) + (i - Len(s))
      BY <1>2, <1>3, <2>2
    <3> QED
      BY <1>2, <1>3, <3>1
  <2> QED
    BY <2>1, <2>2
<1>5. ASSUME NEW i \in 1 .. Len(u), NEW j \in 1 .. Len(u),
             u[i].kind = "check", u[j].kind = "check", u[i].check = u[j].check
      PROVE  i = j
  <2>1. CASE i \in 1 .. Len(s) /\ j \in 1 .. Len(s)
    BY <1>2, <1>5, <2>1 DEF Once
  <2>2. CASE i \notin 1 .. Len(s) /\ j \notin 1 .. Len(s)
    <3>1. PICK l \in 1 .. Len(t) : i = Len(s) + l /\ u[i] = t[l]
      BY <1>4, <2>2
    <3>2. PICK m \in 1 .. Len(t) : j = Len(s) + m /\ u[j] = t[m]
      BY <1>4, <2>2
    <3>3. l = m
      BY <1>5, <3>1, <3>2 DEF Once
    <3> QED
      BY <3>1, <3>2, <3>3
  <2>3. CASE i \in 1 .. Len(s) <=> j \notin 1 .. Len(s)
    BY <1>4, <1>5, <2>3
  <2> QED
    BY <2>1, <2>2, <2>3
<1> QED
  BY <1>1, <1>5 DEF Once

(* What was recorded as it should stays so.                                 *)
LEMMA MeantIsKept ==
    ASSUME SessionInv, Next, NEW x, LogOK(x), Meant(x)
    PROVE  Meant(x)'
<1>1. contract' = contract /\ marker' = marker
  BY Frame
<1>2. x.node \in Nodes /\ x.phase \in Phases /\ truth'[x.node][x.phase] = truth[x.node][x.phase]
  BY TruthIsKept DEF LogOK
<1>3. x.phase = "call" /\ (truth[x.node].call = "failed" => truth'[x.node].call = "failed")
  BY <1>2 DEF Meant
<1> QED
  BY <1>1, <1>3 DEF Meant, Owed, DueRows, CaseOf

(* The test in progress evaluates what it has not evaluated yet, and each   *)
(* check once; its body reads every row of its case.                        *)
LEMMA FaithfulPhase ==
    ASSUME SessionInv, FaithfulInv, slips = 0, NEW outcome \in Outcomes, RunPhase(outcome),
           NEW n, n = Item, NEW events \in Faithful(outcome)
    PROVE  /\ IsSeq(events) /\ Once(events)
           /\ \A x \in ToSet(events) :
                /\ x.node = n /\ x.case = CaseOf(n) /\ x.phase = "call"
                /\ x.kind = "check" => /\ x.check \in DueChecks(n) /\ x.known
                                       /\ x.outcome = "passed" \/ outcome = "failed"
                /\ x.kind = "data_read" => x.data \in DueRows(n)
           /\ (phase = "call" /\ outcome \in {"passed", "xpassed"}) => events = Due(n)
           /\ events # <<>> => phase = "call"
<1>1. LogInv
  BY DEF SessionInv
<1>2. /\ IsSeq(Due(n)) /\ Once(Due(n))
      /\ ToSet(Due(n)) = {ReadEvent(d, n) : d \in DueRows(n)}
                           \cup {CheckEvent(k, n, "passed") : k \in DueChecks(n)}
      /\ \A x \in ToSet(Due(n)) : x.kind = "check" => x.check \in DueChecks(n)
  BY <1>1, DueShape, DueOnce
<1>3. ASSUME NEW k \in DueChecks(n), NEW o, NEW x, x = CheckEvent(k, n, o)
      PROVE  /\ x.kind = "check" /\ x.check = k /\ x.known /\ x.outcome = o
             /\ x.node = n /\ x.case = CaseOf(n) /\ x.phase = phase
  <2>1. k \in DOMAIN contract.owner /\ contract.bound[k] = n
    BY DEF DueChecks
  <2>2. contract.owner[k] = CaseOf(n)
    BY <2>1 DEF FaithfulInv
  <2> QED
    BY <1>3, <2>2 DEF CheckEvent
<1>4. ASSUME NEW d, NEW x, x = ReadEvent(d, n)
      PROVE  /\ x.kind = "data_read" /\ x.data = d
             /\ x.node = n /\ x.case = CaseOf(n) /\ x.phase = phase
  BY <1>4 DEF ReadEvent
<1> DEFINE Fine(x) == /\ x.node = n /\ x.case = CaseOf(n) /\ x.phase = phase
                      /\ x.kind = "check" => x.check \in DueChecks(n) /\ x.known
                      /\ x.kind = "data_read" => x.data \in DueRows(n)
<1>5. ASSUME NEW x \in ToSet(Due(n)) PROVE Fine(x) /\ (x.kind = "check" => x.outcome = "passed")
  <2>1. CASE \E d \in DueRows(n) : x = ReadEvent(d, n)
    BY <2>1, <1>4
  <2>2. CASE \E k \in DueChecks(n) : x = CheckEvent(k, n, "passed")
    BY <2>2, <1>3
  <2> QED
    BY <1>2, <2>1, <2>2
<1>6. CASE events = Due(n) /\ phase = "call"
  BY <1>2, <1>5, <1>6
<1>7. CASE events = <<>> /\ ~ (phase = "call" /\ outcome \in {"passed", "xpassed"})
  BY <1>7, NoShape DEF Once
<1>8. ASSUME phase = "call", outcome = "failed", NEW i \in OfEvent(Due(n), "check"),
             events = <<[Due(n)[i] EXCEPT !.outcome = "failed"]>>
      PROVE  /\ IsSeq(events) /\ Once(events)
             /\ \A x \in ToSet(events) : Fine(x)
  <2>1. PICK y : y = Due(n)[i]
    OBVIOUS
  <2>2. y \in ToSet(Due(n)) /\ y.kind = "check"
    BY <2>1 DEF OfEvent, ToSet
  <2>3. PICK k \in DueChecks(n) : y = CheckEvent(k, n, "passed")
    BY <1>2, <1>4, <2>2
  <2>4. PICK x : x = [y EXCEPT !.outcome = "failed"]
    OBVIOUS
  <2>5. Fine(x)
    <3>1. /\ y.kind = "check" /\ y.check = k /\ y.known /\ y.node = n /\ y.case = CaseOf(n)
          /\ y.phase = phase
      BY <1>3, <2>3
    <3>2. /\ x.kind = y.kind /\ x.check = y.check /\ x.known = y.known /\ x.node = y.node
          /\ x.case = y.case /\ x.phase = y.phase
      BY <2>4
    <3> QED
      BY <3>1, <3>2
  <2>6. events = <<x>>
    BY <1>8, <2>1, <2>4
  <2>7. IsSeq(events) /\ ToSet(events) = {x} /\ Len(events) = 1
    BY <2>6, SingleShape
  <2>8. Once(events)
    BY <2>7 DEF Once
  <2> QED
    BY <2>5, <2>7, <2>8
<1>9. \/ events = Due(n) /\ phase = "call"
      \/ events = <<>> /\ ~ (phase = "call" /\ outcome \in {"passed", "xpassed"})
      \/ /\ phase = "call" /\ outcome = "failed"
         /\ \E i \in OfEvent(Due(n), "check") : events = <<[Due(n)[i] EXCEPT !.outcome = "failed"]>>
  BY DEF Faithful
<1> QED
  BY <1>6, <1>7, <1>8, <1>9

LEMMA FaithfulStep ==
    ASSUME SessionInv, SessionInv', FaithfulInv, Next
    PROVE  FaithfulInv'
<1>1. /\ contract' = contract /\ marker' = marker /\ LogInv
      /\ IsSeq(log) /\ \A x \in ToSet(log) : LogOK(x)
  BY Frame DEF SessionInv, LogInv
<1>2. \A k \in DOMAIN contract.owner : CaseOf(contract.bound[k])' = contract.owner[k]
  BY <1>1 DEF FaithfulInv, CaseOf
<1>3. ASSUME slips = 0 PROVE \A x \in ToSet(log) : Meant(x)'
  BY <1>1, <1>3, MeantIsKept DEF FaithfulInv
<1> DEFINE Goal == /\ \A x \in ToSet(log') : Meant(x)'
                   /\ Once(log')
                   /\ \A n \in Nodes : truth'[n].call \in {"passed", "xpassed"} => Delivered(n, log)'
<1>4. ASSUME NEW outcome \in Outcomes, RunChecked(outcome), slips' = 0 PROVE slips = 0 /\ Goal
  <2>1. PICK n : n = Item
    OBVIOUS
  <2>2. RunPhase(outcome) /\ slips \in Nat
    BY <1>1, <1>4, SlipsAssumption DEF RunChecked, LogInv
  <2>3. PICK events \in Faithful(outcome) : log' = log \o events /\ slips = 0
    BY <1>4, <2>2 DEF RunChecked
  <2>4. /\ IsSeq(events) /\ Once(events)
        /\ \A x \in ToSet(events) :
             /\ x.node = n /\ x.case = CaseOf(n) /\ x.phase = "call"
             /\ x.kind = "check" => /\ x.check \in DueChecks(n) /\ x.known
                                    /\ x.outcome = "passed" \/ outcome = "failed"
             /\ x.kind = "data_read" => x.data \in DueRows(n)
        /\ (phase = "call" /\ outcome \in {"passed", "xpassed"}) => events = Due(n)
        /\ events # <<>> => phase = "call"
    BY <2>1, <2>2, <2>3, FaithfulPhase
  <2>5. /\ n \in Nodes /\ truth'[n] = [truth[n] EXCEPT ![phase] = outcome]
        /\ \A m \in Nodes \ {n} : truth'[m] = truth[m]
    BY <2>1, <2>2, PhaseProgress
  <2>6. truth[n] \in [Phases -> Outcomes \cup {None}] /\ phase \in Phases
    BY <2>5 DEF SessionInv, ProgressInv
  <2>7. /\ phase = "call" => truth'[n].call = outcome
        /\ phase # "call" => truth'[n].call = truth[n].call
    BY <2>5, <2>6 DEF Phases
  <2>8. /\ IsSeq(log') /\ ToSet(log') = ToSet(log) \cup ToSet(events)
    BY <1>1, <2>3, <2>4, JoinedShape
  <2>9. ASSUME NEW x \in ToSet(events) PROVE Meant(x)'
    <3>1. events # <<>>
      BY NoShape
    <3>2. x.phase = "call" /\ x.node = n /\ truth'[n].call = outcome
      BY <2>4, <2>7, <3>1
    <3>3. x.kind = "check" => /\ x.check \in Owed(n) /\ x.known
                              /\ x.outcome = "passed" \/ truth'[n].call = "failed"
      BY <2>4, <3>2 DEF DueChecks, Owed
    <3>4. x.kind = "data_read" => x.data \in DueRows(n)
      BY <2>4
    <3>5. Owed(n)' = Owed(n) /\ DueRows(n)' = DueRows(n)
      BY <1>1 DEF Owed, DueRows, CaseOf
    <3> QED
      BY <3>2, <3>3, <3>4, <3>5 DEF Meant, Owed, DueRows, CaseOf
  <2>10. \A x \in ToSet(log') : Meant(x)'
    BY <1>3, <2>3, <2>8, <2>9
  <2>11. Once(log')
    <3>1. ASSUME NEW x \in ToSet(log), NEW y \in ToSet(events),
                 x.kind = "check", y.kind = "check", x.check = y.check
          PROVE  FALSE
      <4>1. PICK i \in DOMAIN log : x = log[i]
        BY DEF ToSet
      <4>2. i \in OfEvent(log, "check")
        BY <3>1, <4>1 DEF OfEvent
      <4>3. y.check \in DueChecks(n)
        BY <2>4, <3>1
      <4> QED
        BY <3>1, <4>1, <4>2, <4>3 DEF DueChecks
    <3>2. Once(log)
      BY <2>3 DEF FaithfulInv
    <3> QED
      BY <1>1, <2>3, <2>4, <3>1, <3>2, OnceJoined
  <2>12. ASSUME phase = "call", outcome \in {"passed", "xpassed"} PROVE Delivered(n, log')
    <3>1. /\ \A x \in ToSet(Due(n)) : x \in ToSet(log') /\ x.case = CaseOf(n)
      BY <2>4, <2>8, <2>12
    <3>2. ToSet(Due(n)) = {ReadEvent(d, n) : d \in DueRows(n)}
                            \cup {CheckEvent(k, n, "passed") : k \in DueChecks(n)}
      BY <1>1, DueShape
    <3>3. ASSUME NEW k \in Owed(n) PROVE \E x \in ToSet(log') : IsCheck(x, k)
      <4>1. CASE k \in DueChecks(n)
        <5>1. PICK x : x = CheckEvent(k, n, "passed")
          OBVIOUS
        <5>2. x \in ToSet(log') /\ IsCheck(x, k)
          BY <3>1, <3>2, <4>1, <5>1 DEF CheckEvent, IsCheck
        <5> QED
          BY <5>2
      <4>2. CASE k \notin DueChecks(n)
        <5>1. PICK i \in OfEvent(log, "check") : log[i].check = k
          BY <4>2 DEF DueChecks, Owed
        <5>2. log[i] \in ToSet(log) /\ log[i].kind = "check"
          BY DEF OfEvent, ToSet
        <5> QED
          BY <2>8, <5>1, <5>2 DEF IsCheck
      <4> QED
        BY <4>1, <4>2
    <3>4. ASSUME NEW d \in DueRows(n) PROVE \E x \in ToSet(log') : IsRead(x, d, CaseOf(n))
      <4>1. PICK x : x = ReadEvent(d, n)
        OBVIOUS
      <4>2. x \in ToSet(log') /\ IsRead(x, d, CaseOf(n))
        BY <3>1, <3>2, <4>1 DEF ReadEvent, IsRead
      <4> QED
        BY <4>2
    <3> QED
      BY <3>3, <3>4 DEF Delivered
  <2>13. ASSUME NEW m \in Nodes, truth'[m].call \in {"passed", "xpassed"} PROVE Delivered(m, log)'
    <3>1. PICK more : more = log'
      OBVIOUS
    <3>2. CASE m = n /\ phase = "call"
      <4>1. Delivered(m, log')
        BY <2>7, <2>12, <2>13, <3>2
      <4> QED
        BY <1>1, <4>1 DEF Delivered, Owed, DueRows, CaseOf
    <3>3. CASE ~ (m = n /\ phase = "call")
      <4>1. truth'[m].call = truth[m].call
        BY <2>5, <2>7, <3>3
      <4>2. Delivered(m, log)
        BY <2>3, <2>13, <4>1 DEF FaithfulInv
      <4>3. Delivered(m, log')
        BY <2>8, <4>2 DEF Delivered
      <4> QED
        BY <1>1, <4>3 DEF Delivered, Owed, DueRows, CaseOf
    <3> QED
      BY <3>2, <3>3
  <2> QED
    BY <2>3, <2>10, <2>11, <2>13
<1>5. ASSUME slips' = 0, UNCHANGED <<log, slips>>, ~ \E outcome \in Outcomes : RunPhase(outcome)
      PROVE  Goal
  <2>1. \A n \in Nodes : truth'[n] = truth[n]
    BY <1>5, Frame DEF Collect, progress
  <2>2. \A n \in Nodes : truth'[n].call \in {"passed", "xpassed"} => Delivered(n, log)
    BY <1>5, <2>1 DEF FaithfulInv
  <2>3. \A n \in Nodes : Delivered(n, log) => Delivered(n, log)'
    BY <1>1, <1>5 DEF Delivered, Owed, DueRows, CaseOf
  <2>4. Once(log') /\ \A x \in ToSet(log') : Meant(x)'
    BY <1>3, <1>5 DEF FaithfulInv
  <2> QED
    BY <2>2, <2>3, <2>4
<1>6. slips' = 0 => Goal
  <2>1. (\E outcome \in Outcomes : RunChecked(outcome))
          \/ (UNCHANGED <<log, slips>> /\ ~ \E outcome \in Outcomes : RunPhase(outcome))
    BY DEF Next, SessionStep, Start, Collect, FinishSession, Interrupt, Exit, Timeout, EndProcess,
           DerivePlan, Judge, Damage, RunPhase
  <2> QED
    BY <1>4, <1>5, <2>1
<1> QED
  BY <1>1, <1>2, <1>6 DEF FaithfulInv

LEMMA FaithfulSuite == Spec => []FaithfulInv
<1>1. SessionInv /\ SessionInv' /\ FaithfulInv /\ [Next]_vars => FaithfulInv'
  <2>1. ASSUME SessionInv, SessionInv', FaithfulInv, Next PROVE FaithfulInv'
    BY <2>1, FaithfulStep
  <2>2. ASSUME FaithfulInv, UNCHANGED vars PROVE FaithfulInv'
    BY <2>2 DEF vars, session, suite, progress, FaithfulInv, Meant, Once, Delivered, Owed, DueRows, CaseOf
  <2> QED
    BY <2>1, <2>2
<1> QED
  BY <1>1, FaithfulStarts, SessionInvariant, PTL DEF Spec

(* The calls of the source are listed once each.                            *)
LEMMA BindingsShape ==
    ASSUME LogInv
    PROVE  /\ \A i \in DOMAIN Bindings : \E k \in DOMAIN contract.owner :
                Bindings[i] = [check |-> k, case |-> contract.owner[k], node |-> contract.bound[k]]
           /\ \A k \in DOMAIN contract.owner : \E i \in DOMAIN Bindings :
                {j \in DOMAIN Bindings : Bindings[j].check = k} = {i}
<1>1. IsFiniteSet(DOMAIN contract.owner)
  BY ContractShape, SlipsAssumption, FS_EmptySet
<1>2. PICK f : f = [k \in DOMAIN contract.owner |->
                     [check |-> k, case |-> contract.owner[k], node |-> contract.bound[k]]]
  OBVIOUS
<1>3. PICK S : S = {f[k] : k \in DOMAIN f}
  OBVIOUS
<1>4. IsFiniteSet(S)
  BY <1>1, <1>2, <1>3, ImageIsFinite
<1>5. PICK b : b = Bindings /\ b = SetToSeq(S)
  BY <1>2, <1>3 DEF Bindings
<1>6. ToSet(b) = S /\ \A i, j \in DOMAIN b : b[i] = b[j] => i = j
  BY <1>4, <1>5, ListedShape
<1>7. \A k \in DOMAIN contract.owner : f[k].check = k
  BY <1>2
<1>8. ASSUME NEW i \in DOMAIN b PROVE \E k \in DOMAIN contract.owner : b[i] = f[k]
  BY <1>2, <1>3, <1>6 DEF ToSet
<1>9. ASSUME NEW k \in DOMAIN contract.owner
      PROVE  \E i \in DOMAIN b : {j \in DOMAIN b : b[j].check = k} = {i}
  <2>0. f[k] \in ToSet(b)
    BY <1>2, <1>3, <1>6
  <2>1. PICK i \in DOMAIN b : b[i] = f[k]
    BY <2>0 DEF ToSet
  <2>2. ASSUME NEW j \in DOMAIN b, b[j].check = k PROVE j = i
    BY <1>6, <1>7, <1>8, <2>1, <2>2
  <2> QED
    BY <1>7, <2>1, <2>2
<1> QED
  BY <1>2, <1>5, <1>8, <1>9

(* An honest session passes only if each of its tests does.                 *)
LEMMA HonestPass ==
    ASSUME Decided, verdict = Manifest(plan, ev), verdict.gate = "passed", NEW n \in ToSet(todo)
    PROVE  truth[n].call = "passed"
<1>1. PICK c : c = CaseOf(n)
  OBVIOUS
<1>2. /\ c \in DOMAIN plan
      /\ StatusOf(plan, ev, c) = IF truth[n].setup = "failed" THEN "blocked"
                                 ELSE IF truth[n].call = "failed" THEN "failed" ELSE "passed"
  BY <1>1, DecidedStatus
<1>3. StatusOf(plan, ev, c) \notin {"blocked", "failed"}
  BY <1>2, PassedManifest
<1> QED
  BY <1>2, <1>3, DecidedTruth DEF Clean

(* contract_errors() raises no false alarm: whatever the plan, its checks   *)
(* and data, an honest session that passes has no contract error if its     *)
(* tests keep to their contract, the bound ones are collected and only      *)
(* automated cases declare data.                                            *)
THEOREM FaithfulSuitesAreAccepted == Spec => []FaithfulSuiteIsAccepted
<1>1. SessionInv /\ WholeInv /\ FaithfulInv => FaithfulSuiteIsAccepted
  <2> SUFFICES ASSUME SessionInv, WholeInv, FaithfulInv,
                      /\ Passed /\ Honest /\ slips = 0 /\ contract # NoContract
                      /\ \A k \in Checks : contract.bound[k] \in ToSet(todo)
                      /\ \A c \in DOMAIN plan \ Expected(plan) : contract.data[c] = {}
               PROVE  ContractHolds
    BY DEF FaithfulSuiteIsAccepted
  <2>1. /\ Decided /\ LogInv /\ verdict = Manifest(plan, ev) /\ verdict.gate = "passed"
        /\ IsSeq(log) /\ \A x \in ToSet(log) : LogOK(x)
    BY DEF Decided, SessionInv, VerdictInv, LogInv, Passed
  <2>2. PICK owner, data, mapping : owner = contract.owner /\ data = contract.data /\ mapping = Mapping(ev)
    OBVIOUS
  <2>3. /\ DOMAIN owner = Checks /\ DOMAIN data = DOMAIN plan
        /\ \A k \in Checks : owner[k] = CaseOf(contract.bound[k])
    BY <2>1, <2>2, ContractShape DEF FaithfulInv
  <2>4. \A n \in ToSet(todo) : /\ n \in Nodes /\ truth[n].call = "passed"
                               /\ At(mapping, CaseOf(n), n)
    BY <2>1, <2>2, HonestPass, DecidedEvidence, DecidedMapping DEF At
  <2>5. Checks # {}
    <3>1. PICK n \in ToSet(todo) : TRUE
      BY <2>1, DecidedEvidence
    <3>2. CaseOf(n) \in Expected(plan)
      BY <2>1, DecidedStatus
    <3>3. contract \in Contracts
      BY <2>1 DEF LogInv
    <3> QED
      BY <3>2, <3>3 DEF Contracts, Owners
  <2>6. ASSUME NEW x \in ToSet(log)
        PROVE  /\ x.node \in ToSet(todo) /\ x.case = CaseOf(x.node) /\ x.phase = "call"
               /\ x.kind = "check" => /\ x.check \in Owed(x.node) /\ x.known
                                      /\ x.outcome = "passed"
               /\ x.kind = "data_read" => x.data \in DueRows(x.node)
    <3>1. LogOK(x) /\ Meant(x)
      BY <2>1 DEF FaithfulInv
    <3>2. x.node \in ToSet(todo)
      BY <2>1, <3>1, DecidedTruth DEF LogOK
    <3> QED
      BY <2>4, <3>1, <3>2 DEF LogOK, Meant
  <2>7. ASSUME NEW n \in ToSet(todo) PROVE Delivered(n, log)
    BY <2>4 DEF FaithfulInv
  <2>8. PICK bindings : /\ bindings = Bindings
                        /\ \A i \in DOMAIN bindings : \E k \in DOMAIN owner :
                             /\ bindings[i].check = k /\ bindings[i].case = owner[k]
                             /\ bindings[i].node = contract.bound[k]
                        /\ \A k \in DOMAIN owner : \E i \in DOMAIN bindings :
                             {j \in DOMAIN bindings : bindings[j].check = k} = {i}
    BY <2>1, <2>2, BindingsShape
  <2>9. OnceEach(owner, bindings, DOMAIN bindings)
    <3>1. ASSUME NEW k \in DOMAIN owner
          PROVE  Cardinality({i \in DOMAIN bindings : bindings[i].check = k}) = 1
      BY <2>8, FS_Singleton
    <3>2. \A i \in DOMAIN bindings : bindings[i].check \in DOMAIN owner
      BY <2>8
    <3> QED
      BY <3>1, <3>2 DEF OnceEach
  <2>10. \A i \in DOMAIN bindings : At(mapping, bindings[i].case, bindings[i].node)
    BY <2>3, <2>4, <2>8
  <2>11. /\ DOMAIN log = 1 .. Len(log)
         /\ \A i \in DOMAIN log : log[i] \in ToSet(log)
         /\ \A x \in ToSet(log) : \E i \in DOMAIN log : x = log[i]
    BY <2>1 DEF IsSeq, ToSet
  <2>12. OnceEach(owner, log, OfEvent(log, "check"))
    <3>1. \A i \in OfEvent(log, "check") : log[i].check \in DOMAIN owner
      BY <2>2, <2>6, <2>11 DEF OfEvent, Owed
    <3>2. ASSUME NEW k \in DOMAIN owner
          PROVE  Cardinality({i \in OfEvent(log, "check") : log[i].check = k}) = 1
      <4>1. PICK n : n = contract.bound[k] /\ n \in ToSet(todo) /\ k \in Owed(n)
        BY <2>2, <2>3 DEF Owed
      <4>2. PICK x \in ToSet(log) : IsCheck(x, k)
        BY <2>7, <4>1 DEF Delivered
      <4>3. PICK i \in DOMAIN log : x = log[i]
        BY <2>11
      <4>4. i \in OfEvent(log, "check") /\ log[i].check = k
        BY <4>2, <4>3 DEF OfEvent, IsCheck
      <4>5. \A j \in OfEvent(log, "check") : log[j].check = k => j = i
        BY <2>11, <4>4 DEF FaithfulInv, Once, OfEvent
      <4>6. {j \in OfEvent(log, "check") : log[j].check = k} = {i}
        BY <4>4, <4>5
      <4> QED
        BY <4>6, FS_Singleton
    <3> QED
      BY <3>1, <3>2 DEF OnceEach
  <2>13. ASSUME NEW i \in OfEvent(log, "check")
         PROVE  CheckInPlace(owner, log[i], mapping) /\ log[i].outcome = "passed"
    <3>1. PICK x \in ToSet(log) : x = log[i] /\ x.kind = "check"
      BY <2>11 DEF OfEvent
    <3>2. /\ x.node \in ToSet(todo) /\ x.case = CaseOf(x.node) /\ x.phase = "call"
          /\ x.check \in DOMAIN owner /\ contract.bound[x.check] = x.node /\ x.known
          /\ x.outcome = "passed"
      BY <2>2, <2>6, <3>1 DEF Owed
    <3> QED
      BY <2>3, <2>4, <3>1, <3>2 DEF CheckInPlace
  <2>14. ASSUME NEW i \in OfEvent(log, "data_read")
         PROVE  /\ log[i].phase = "call" /\ At(mapping, log[i].case, log[i].node)
                /\ log[i].case \in DOMAIN data => log[i].data \in data[log[i].case]
    <3>1. PICK x \in ToSet(log) : x = log[i] /\ x.kind = "data_read"
      BY <2>11 DEF OfEvent
    <3>2. /\ x.node \in ToSet(todo) /\ x.case = CaseOf(x.node) /\ x.phase = "call"
          /\ x.data \in DueRows(x.node)
      BY <2>6, <3>1
    <3> QED
      BY <2>2, <2>4, <3>1, <3>2 DEF DueRows
  <2>15. ASSUME NEW c \in DOMAIN data PROVE ReadsOf(log, c) = data[c]
    <3>1. ASSUME NEW d \in ReadsOf(log, c) PROVE d \in data[c]
      BY <2>14, <3>1 DEF ReadsOf
    <3>2. ASSUME NEW d \in data[c] PROVE d \in ReadsOf(log, c)
      <4>1. c \in Expected(plan)
        BY <2>2, <2>3, <3>2
      <4>2. PICK n \in ToSet(todo) : c = CaseOf(n)
        BY <2>1, <4>1, DecidedMapping DEF Decided, Honest
      <4>3. d \in DueRows(n)
        BY <2>2, <3>2, <4>2 DEF DueRows
      <4>4. PICK x \in ToSet(log) : IsRead(x, d, c)
        BY <2>7, <4>2, <4>3 DEF Delivered
      <4>5. PICK i \in DOMAIN log : x = log[i]
        BY <2>11
      <4>6. i \in OfEvent(log, "data_read") /\ log[i].case = c /\ log[i].data = d
        BY <4>4, <4>5 DEF OfEvent, IsRead
      <4> QED
        BY <2>14, <4>6 DEF ReadsOf
    <3> QED
      BY <3>1, <3>2
  <2> DEFINE faults == ContractFaults(owner, data, bindings, log, mapping)
  <2>16. /\ ~ faults.source_check_binding_mismatch /\ ~ faults.source_node_binding_mismatch
         /\ ~ faults.missing_or_duplicate_check_events /\ ~ faults.invalid_check_event_mapping
         /\ ~ faults.unsuccessful_required_check /\ ~ faults.declared_observed_data_mismatch
         /\ ~ faults.invalid_data_event_mapping
    BY <2>9, <2>10, <2>12, <2>13, <2>14, <2>15 DEF ContractFaults
  <2>17. DOMAIN faults =
           {"source_check_binding_mismatch", "source_node_binding_mismatch",
            "missing_or_duplicate_check_events", "invalid_check_event_mapping",
            "unsuccessful_required_check", "declared_observed_data_mismatch",
            "invalid_data_event_mapping"}
    BY DEF ContractFaults
  <2> HIDE DEF faults
  <2>18. \A name \in DOMAIN faults : ~ faults[name]
    BY <2>16, <2>17
  <2>19. ContractErrors(owner, data, bindings, log, mapping) = {}
    BY <2>3, <2>5, <2>18 DEF ContractErrors, faults
  <2>20. ev.collection # None /\ ev.events # None
    BY <2>1, DecidedEvidence
  <2> QED
    BY <2>2, <2>8, <2>19, <2>20 DEF ContractHolds
<1> QED
  BY <1>1, SessionInvariant, WholeSession, FaithfulSuite, PTL
=============================================================================
