----------------------------- MODULE Reconcile -----------------------------
(***************************************************************************)
(* framework/ai/reconcile.py: one verdict from the frozen plan and the four *)
(* files an attempt leaves behind.  A file that is missing or does not      *)
(* parse is None.                                                           *)
(*                                                                          *)
(*   e.collection  [rows : Seq of [case, node], errors : BOOLEAN]           *)
(*   e.events      Seq of [kind |-> "start", id], [kind |-> "report",       *)
(*                 case, node, phase, outcome, xfail] and                   *)
(*                 [kind |-> "finish", exit, collected]                     *)
(*   e.junit       [counted : BOOLEAN, entries : Seq of [case, node,        *)
(*                 outcome]]; case is None without its two properties       *)
(*   e.process     [id, completed : BOOLEAN, exit]                          *)
(*                                                                          *)
(* A plan maps case identifiers to "auto", or to "optional" or "required"   *)
(* for a case that is not an automation candidate.                          *)
(***************************************************************************)
EXTENDS Integers, Sequences, FiniteSetsExt

CONSTANT None

Rows(e)    == IF e.collection = None THEN <<>> ELSE e.collection.rows
Events(e)  == IF e.events = None THEN <<>> ELSE e.events
Entries(e) == IF e.junit = None THEN <<>> ELSE e.junit.entries

CasesOf(rows) == {rows[i].case : i \in DOMAIN rows}
NodesOf(rows) == {rows[i].node : i \in DOMAIN rows}

(* A dictionary comprehension: the last row of a case wins. *)
Mapping(e) ==
    [c \in CasesOf(Rows(e)) |->
       LET row == Max({i \in DOMAIN Rows(e) : Rows(e)[i].case = c}) IN Rows(e)[row].node]

Expected(plan) == {c \in DOMAIN plan : plan[c] = "auto"}

Mapped(e, x) == x.case \in DOMAIN Mapping(e) /\ Mapping(e)[x.case] = x.node

OfKind(e, kind) == {i \in DOMAIN Events(e) : Events(e)[i].kind = kind}

Reports(e, c, phase) ==
    {i \in OfKind(e, "report") :
       Mapped(e, Events(e)[i]) /\ Events(e)[i].case = c /\ Events(e)[i].phase = phase}

Phases == {"setup", "call", "teardown"}

PhasesOf(e, c) == {phase \in Phases : Reports(e, c, phase) # {}}

(* The last report of a phase wins, at the place of the first. *)
Outcome(e, c, phase) ==
    IF Reports(e, c, phase) = {} THEN None ELSE Events(e)[Max(Reports(e, c, phase))].outcome

Before(e, c, first, second) == Min(Reports(e, c, first)) < Min(Reports(e, c, second))

InSequence(e, c) ==
    IF Outcome(e, c, "setup") = "passed"
    THEN /\ PhasesOf(e, c) = Phases
         /\ Before(e, c, "setup", "call") /\ Before(e, c, "call", "teardown")
    ELSE /\ PhasesOf(e, c) = {"setup", "teardown"} /\ Before(e, c, "setup", "teardown")

(* The first JUnit entry of a case wins. *)
Accepted(e, c) == {i \in DOMAIN Entries(e) : Entries(e)[i].case = c /\ Mapped(e, Entries(e)[i])}

JUnit(e, c) == IF Accepted(e, c) = {} THEN None ELSE Entries(e)[Min(Accepted(e, c))].outcome

(* Mutant: a setup failure is looked for among the failures of the call. *)
RawWithoutErrors(e, c) ==
    IF \E phase \in Phases : Outcome(e, c, phase) = "failed" THEN "failed"
    ELSE IF \E phase \in Phases : Outcome(e, c, phase) = "skipped" THEN "skipped"
    ELSE "passed"

(* What pytest's own events say JUnit should hold. *)
Raw(e, c) ==
    IF \E phase \in {"setup", "teardown"} : Outcome(e, c, phase) = "failed" THEN "error"
    ELSE IF Outcome(e, c, "call") = "failed" THEN "failed"
    ELSE IF \E phase \in Phases : Outcome(e, c, phase) = "skipped" THEN "skipped"
    ELSE "passed"

(* Mutant: a setup failure counts against the product. *)
StatusOfBlamesSetup(plan, e, c) ==
    IF plan[c] # "auto" THEN "skipped"
    ELSE IF \E phase \in Phases : Outcome(e, c, phase) = "failed" THEN "failed"
    ELSE IF \A phase \in Phases : Outcome(e, c, phase) = "passed" THEN "passed"
    ELSE "blocked"

(* The status of a case before the evidence as a whole is judged. *)
StatusOf(plan, e, c) ==
    IF plan[c] # "auto" THEN "skipped"
    ELSE IF Outcome(e, c, "setup") = "failed" THEN "blocked"
    ELSE IF Outcome(e, c, "teardown") = "failed" \/ Outcome(e, c, "call") = "failed" THEN "failed"
    ELSE IF \A phase \in Phases : Outcome(e, c, phase) = "passed" THEN "passed"
    ELSE "blocked"

(* Mutant: JUnit has to list the case, whatever it says. *)
JUnitListed(e, c) == JUnit(e, c) # None

JUnitAgrees(e, c) == JUnit(e, c) = Raw(e, c)

----------------------------------------------------------------------------
(* The integrity errors, one predicate for each code the program records.   *)

SessionEvents(e) ==
    /\ Cardinality(OfKind(e, "start")) = 1 /\ Cardinality(OfKind(e, "finish")) = 1
    /\ Events(e)[1].kind = "start" /\ Events(e)[Len(Events(e))].kind = "finish"

SameInvocation(e) ==
    /\ e.process # None
    /\ Cardinality(OfKind(e, "start")) = 1
    /\ \A i \in OfKind(e, "start") : Events(e)[i].id = e.process.id

ExitCode(e) == IF e.process = None THEN None ELSE e.process.exit

ProcessCompleted(e) == e.process # None /\ e.process.completed /\ e.process.exit \in {0, 1}

SessionMatchesProcess(e) ==
    OfKind(e, "finish") # {} =>
        LET finish == Events(e)[Max(OfKind(e, "finish"))] IN
        finish.exit = ExitCode(e) /\ finish.collected = Len(Rows(e))

JUnitEntryOK(e, i) ==
    /\ Entries(e)[i].case # None /\ Mapped(e, Entries(e)[i])
    /\ i = Min(Accepted(e, Entries(e)[i].case))

Faults(plan, e) ==
  LET expected == Expected(plan) IN
  [ invalid_or_missing_collection    |-> e.collection = None,
    invalid_or_missing_process       |-> e.process = None,
    invalid_or_missing_events        |-> e.events = None,
    invalid_or_missing_junit         |-> e.junit = None,
    collection_mapping_error         |-> e.collection # None /\ e.collection.errors,
    duplicate_case_or_nodeid         |->
        \/ Cardinality(CasesOf(Rows(e))) # Len(Rows(e))
        \/ Cardinality(NodesOf(Rows(e))) # Len(Rows(e)),
    planned_and_collected_cases_differ |-> CasesOf(Rows(e)) # expected,
    zero_collection                  |-> Rows(e) = <<>>,
    incomplete_session_events        |-> ~ SessionEvents(e),
    request_invocation_identity_mismatch |-> ~ SameInvocation(e),
    process_not_a_completed_acceptance_run |-> ~ ProcessCompleted(e),
    process_session_mismatch         |-> ~ SessionMatchesProcess(e),
    unmapped_or_invalid_report       |->
        \E i \in OfKind(e, "report") : ~ Mapped(e, Events(e)[i]),
    duplicate_phase_report           |->
        \E c \in CasesOf(Rows(e)), phase \in Phases : Cardinality(Reports(e, c, phase)) > 1,
    unexpected_skip_or_xfail         |->
        \E i \in OfKind(e, "report") : /\ Mapped(e, Events(e)[i])
                                       /\ Events(e)[i].xfail \/ Events(e)[i].outcome = "skipped",
    junit_declared_count_mismatch    |-> e.junit # None /\ ~ e.junit.counted,
    invalid_or_duplicate_junit_mapping |->
        \E i \in DOMAIN Entries(e) : ~ JUnitEntryOK(e, i),
    junit_case_set_mismatch          |->
        e.junit # None /\ {c \in CasesOf(Entries(e)) : Accepted(e, c) # {}} # expected,
    invalid_phase_sequence           |-> \E c \in expected : ~ InSequence(e, c),
    junit_event_mismatch             |-> \E c \in expected : ~ JUnitAgrees(e, c),
    exit_code_hides_unsuccessful_case |->
        ExitCode(e) = 0 /\ \E c \in DOMAIN plan \cap CasesOf(Rows(e)) :
                              StatusOf(plan, e, c) # "passed",
    nonzero_exit_without_failure     |->
        ExitCode(e) = 1 /\ \A c \in DOMAIN plan :
                              StatusOf(plan, e, c) \notin {"failed", "blocked"} ]

Errors(plan, e) == LET faults == Faults(plan, e) IN {name \in DOMAIN faults : faults[name]}

----------------------------------------------------------------------------
(* The manifest: no case passes over evidence with an integrity error.      *)

Manifest(plan, e) ==
    LET errors == Errors(plan, e)
        results == [c \in DOMAIN plan |->
                      LET status == StatusOf(plan, e, c) IN
                      IF status = "passed" /\ errors # {} THEN "blocked" ELSE status] IN
    [ errors  |-> errors,
      results |-> results,
      gate    |-> IF errors # {} \/ \E c \in DOMAIN plan : results[c] = "blocked"
                  THEN "blocked"
                  ELSE IF \E c \in DOMAIN plan : results[c] = "failed" \/ plan[c] = "required"
                  THEN "failed"
                  ELSE "passed" ]
=============================================================================
