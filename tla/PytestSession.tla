--------------------------- MODULE PytestSession ---------------------------
(***************************************************************************)
(* One attempt from the start of pytest to its verdict: the plugin          *)
(* framework/plugins/execution.py, which writes collection.json and appends *)
(* to events.jsonl, pytest itself with its JUnit file (not under src/, as   *)
(* the plugin and the runner use it), the runner's process.json and         *)
(* baseline plan (scripts/run_local.py), and reconcile().                   *)
(*                                                                          *)
(* What really happened in each phase is kept beside the evidence, so that  *)
(* a verdict can be compared with the truth.                                *)
(***************************************************************************)
EXTENDS Reconcile, SequencesExt

CONSTANTS
    Cases,        \* case identifiers of plans and markers
    Nodes,        \* pytest node identifiers; a node is also its own BASE_ case
    Ids,          \* request and invocation identifiers an evidence file may name
    MaxTroubles   \* bound on the phases that neither pass nor are a failing call

ASSUME SessionAssumption == MaxTroubles \in Nat /\ Ids # {} /\ IsFiniteSet(Nodes)

VARIABLES
    stage,      \* boot, collecting, running, finished, ended, judged, stopped
    plan,       \* the plan to judge by, None until a baseline has one
    generated,  \* the run has a generated suite and a frozen plan
    marker,     \* case_id marker of each node, None without one
    todo,       \* items pytest will run, after deselection
    done,       \* number of items that are over
    phase,      \* next phase of the item in progress
    truth,      \* what each phase of each node really did
    elements,   \* what pytest's JUnit writer holds of the items that are over
    stopped,    \* pytest was interrupted, stopped early or deselected items
    ev,         \* the evidence files
    damaged,    \* the evidence source that was tampered with or lost
    verdict     \* the manifest reconcile() returned

suite == <<generated, marker>>
progress == <<todo, done, phase, truth, elements>>
session == <<stage, plan, suite, progress, stopped, ev, damaged, verdict>>

Stages == {"boot", "collecting", "running", "finished", "ended", "judged", "rejected"}
Outcomes == {"passed", "failed", "skipped", "xpassed"}
Sources == {"collection", "events", "junit", "process"}

NotRun == [setup |-> None, call |-> None, teardown |-> None]

CaseOf(n) == IF marker[n] = None THEN n ELSE marker[n]

(* Every phase the plan asks for really passed. *)
TrulyPassed(n) ==
    /\ truth[n].setup = "passed" /\ truth[n].call \in {"passed", "xpassed"}
    /\ truth[n].teardown = "passed"

TrulyFailed(n) == truth[n].call = "failed" \/ truth[n].teardown = "failed"

Id == CHOOSE id \in Ids : TRUE

Plans == UNION {[planned -> {"auto", "optional", "required"}] : planned \in (SUBSET Cases) \ {{}}}

(* The evidence files a session can leave. *)
CollectedRow == [case : Cases \cup Nodes, node : Nodes]

LogLine ==
    [kind : {"start"}, id : Ids]
      \cup [kind : {"report"}, case : Cases \cup Nodes, node : Nodes, phase : Phases,
            outcome : Outcomes, xfail : BOOLEAN]
      \cup [kind : {"finish"}, exit : Nat, collected : Nat]

JUnitElement ==
    [case : Cases \cup Nodes \cup {None}, node : Nodes, outcome : Outcomes \cup {"error"}]

EvidenceFiles ==
    [rows : Seq(CollectedRow), errors : BOOLEAN] \cup Seq(LogLine)
      \cup [counted : BOOLEAN, entries : Seq(JUnitElement)]
      \cup [id : Ids, completed : BOOLEAN, exit : Nat \cup {None}]

(* None stands for what is missing, and is nothing else. *)
ASSUME NoneAssumption ==
    None \notin Cases \cup Nodes \cup Outcomes \cup Sources \cup Plans \cup EvidenceFiles

SessionInit ==
    /\ stage = "boot"
    /\ generated \in BOOLEAN
    /\ IF generated THEN plan \in Plans ELSE plan = None
    /\ marker \in [Nodes -> Cases \cup {None}]
    /\ todo = <<>> /\ done = 0 /\ phase = "setup"
    /\ truth = [n \in Nodes |-> NotRun] /\ elements = <<>>
    /\ stopped = FALSE
    /\ ev = [collection |-> None, events |-> None, junit |-> None, process |-> None]
    /\ damaged = None
    /\ verdict = None

Emit(event) == ev' = [ev EXCEPT !.events = Append(@, event)]

----------------------------------------------------------------------------
(* The session *)

(* pytest_sessionstart: the event log is created, exclusively. *)
Start ==
    /\ stage = "boot"
    /\ ev' = [ev EXCEPT !.events = <<[kind |-> "start", id |-> Id]>>]
    /\ stage' = "collecting"
    /\ UNCHANGED <<plan, suite, progress, stopped, damaged, verdict>>

CollectionRow(n) == [case |-> CaseOf(n), node |-> n]

MappingBroken(items) ==
    \/ generated /\ \E i \in DOMAIN items : marker[items[i]] = None
    \/ \E i, j \in DOMAIN items : i # j /\ CaseOf(items[i]) = CaseOf(items[j])

FinishEvent(code, collected) == [kind |-> "finish", exit |-> code, collected |-> collected]

(* Some of the items, in their order. *)
TakenFrom(selected, items) ==
    /\ ToSet(selected) \subseteq ToSet(items)
    /\ \A i, j \in DOMAIN selected : \A k, l \in DOMAIN items :
         (i < j /\ selected[i] = items[k] /\ selected[j] = items[l]) => k < l

(* collection.json lists every item pytest found; a bad mapping ends the    *)
(* session with a usage error, and -k takes items away only afterwards.     *)
Collect ==
    /\ stage = "collecting"
    /\ \E items, selected \in SetToAllKPermutations(Nodes) :
         LET broken == MappingBroken(items)
             rows == [i \in DOMAIN items |-> CollectionRow(items[i])] IN
         /\ TakenFrom(selected, items)
         /\ broken => selected = items
         /\ stopped' = (selected # items)
         /\ todo' = IF broken THEN <<>> ELSE selected
         /\ stage' = IF broken THEN "finished" ELSE "running"
         /\ ev' = [ev EXCEPT
                     !.collection = [rows |-> rows, errors |-> broken],
                     !.events = IF broken THEN Append(@, FinishEvent(4, 0)) ELSE @,
                     !.junit = IF broken THEN [counted |-> TRUE, entries |-> <<>>] ELSE @]
    /\ UNCHANGED <<plan, suite, done, phase, truth, elements, damaged, verdict>>

Item == todo[done + 1]

Trouble(n, p) ==
    truth[n][p] \notin {None, "passed"} /\ ~ (p = "call" /\ truth[n][p] = "failed")

Troubles == Cardinality({step \in Nodes \X Phases : Trouble(step[1], step[2])})

Recorded(outcome) == IF outcome = "xpassed" THEN "passed" ELSE outcome

(* Mutant: an item is taken to be over at its first failure. *)
OverAtFailure(outcome) == phase = "teardown" \/ outcome = "failed"

Over(outcome) == phase = "teardown"

(* The elements JUnit gets for an item that is over: a call and a teardown  *)
(* that both fail have one each, the first without the two properties.      *)
JUnitOf(n, t) ==
    LET entry(case, outcome) == [case |-> case, node |-> n, outcome |-> outcome] IN
    IF t.call = "failed" /\ t.teardown = "failed"
    THEN <<entry(None, "failed"), entry(CaseOf(n), "error")>>
    ELSE IF t.setup = "failed" \/ t.teardown = "failed" THEN <<entry(CaseOf(n), "error")>>
    ELSE IF t.call = "failed" THEN <<entry(CaseOf(n), "failed")>>
    ELSE IF t.setup = "skipped" \/ t.call = "skipped" THEN <<entry(CaseOf(n), "skipped")>>
    ELSE <<entry(CaseOf(n), "passed")>>

(* pytest_runtest_makereport of one phase; a test that fails as expected is *)
(* reported like a skipped one, so "skipped" stands for both.               *)
RunPhase(outcome) ==
    /\ stage = "running" /\ done < Len(todo)
    /\ outcome = "passed" \/ (phase = "call" /\ outcome = "failed") \/ Troubles < MaxTroubles
    /\ phase = "setup" => outcome # "xpassed"
    /\ phase = "teardown" => outcome \in {"passed", "failed"}
    /\ truth' = [truth EXCEPT ![Item][phase] = outcome]
    /\ Emit([kind |-> "report", case |-> CaseOf(Item), node |-> Item, phase |-> phase,
             outcome |-> Recorded(outcome), xfail |-> outcome = "xpassed"])
    /\ phase' = CASE phase = "setup" /\ outcome = "passed" -> "call"
                  [] phase = "setup" /\ outcome # "passed" -> "teardown"
                  [] phase = "call" -> "teardown"
                  [] OTHER -> "setup"
    /\ done' = IF Over(outcome) THEN done + 1 ELSE done
    /\ elements' = IF Over(outcome) THEN elements \o JUnitOf(Item, truth'[Item]) ELSE elements
    /\ UNCHANGED <<stage, plan, suite, todo, stopped, damaged, verdict>>

AnyFailed == \E n \in Nodes : \E p \in Phases : truth[n][p] = "failed"

(* A failing teardown is counted twice by pytest's JUnit writer, in some    *)
(* versions: the declared number may differ from the elements.              *)
WriteJUnit(partial) ==
    \E counted \in BOOLEAN :
      /\ ~ counted => \E n \in Nodes : truth[n].teardown = "failed"
      /\ (\E n \in Nodes : truth[n].call = "failed" /\ truth[n].teardown = "failed") => ~ counted
      /\ ev' = [ev EXCEPT !.junit = [counted |-> counted, entries |-> elements \o partial],
                  !.events = Append(@, FinishEvent(
                     IF partial # <<>> THEN 2
                     ELSE IF Len(todo) = 0 THEN 5
                     ELSE IF AnyFailed THEN 1 ELSE 0, Len(todo)))]

(* pytest_sessionfinish: at the end, or early because of -x. *)
FinishSession ==
    /\ stage = "running" /\ phase = "setup"
    /\ done = Len(todo) \/ AnyFailed
    /\ WriteJUnit(<<>>)
    /\ stopped' = (stopped \/ done < Len(todo))
    /\ stage' = "finished"
    /\ UNCHANGED <<plan, suite, progress, damaged, verdict>>

(* A keyboard interrupt: the session still finishes, with exit code 2. *)
Interrupt ==
    /\ stage = "running" /\ done < Len(todo)
    /\ WriteJUnit(<<[case |-> None, node |-> Item, outcome |-> "passed"]>>)
    /\ stopped' = TRUE
    /\ stage' = "finished"
    /\ UNCHANGED <<plan, suite, progress, damaged, verdict>>

----------------------------------------------------------------------------
(* The runner *)

EndProcess(completed, code) ==
    /\ ev' = [ev EXCEPT !.process = [id |-> Id, completed |-> completed, exit |-> code]]
    /\ stage' = "ended"
    /\ UNCHANGED <<plan, suite, progress, damaged, verdict>>

Exit ==
    /\ stage = "finished"
    /\ EndProcess(TRUE, ev.events[Len(ev.events)].exit)
    /\ UNCHANGED stopped

(* The application does not start, or --timeout kills pytest, at any point: *)
(* after its last line too.                                                 *)
Timeout ==
    /\ stage \in {"boot", "collecting", "running", "finished"}
    /\ EndProcess(FALSE, None)
    /\ stopped' = TRUE

(* A baseline is judged by the plan its first collection implies.  The plan *)
(* model refuses a case identifier that occurs twice.                       *)
DerivePlan ==
    /\ stage = "ended" /\ plan = None /\ damaged = None
    /\ LET rows == Rows(ev) IN
       IF rows = <<>> \/ Cardinality(CasesOf(rows)) # Len(rows)
       THEN stage' = "rejected" /\ UNCHANGED plan
       ELSE plan' = [c \in CasesOf(rows) |-> "auto"] /\ UNCHANGED stage
    /\ UNCHANGED <<suite, progress, stopped, ev, damaged, verdict>>

Judge ==
    /\ stage = "ended" /\ plan # None
    /\ verdict' = Manifest(plan, ev)
    /\ stage' = "judged"
    /\ UNCHANGED <<plan, suite, progress, stopped, ev, damaged>>

----------------------------------------------------------------------------
(* Faults: one evidence file is lost or altered before it is sealed.        *)

AlteredCollections ==
    LET rows == Rows(ev) IN
    {[ev.collection EXCEPT !.rows = RemoveAt(rows, i)] : i \in DOMAIN rows}
      \cup {[ev.collection EXCEPT !.rows[i].case = c] : i \in DOMAIN rows, c \in Cases}

AlteredEvents ==
    LET log == ev.events
        reports == OfKind(ev, "report") IN
    {RemoveAt(log, i) : i \in DOMAIN log}
      \cup {InsertAt(log, i, log[i]) : i \in DOMAIN log}
      \cup {[log EXCEPT ![i].outcome = o] : i \in reports, o \in {"passed", "failed"}}
      \cup {[log EXCEPT ![i].xfail = FALSE] : i \in reports}
      \cup {[log EXCEPT ![i].case = c] : i \in reports, c \in Cases}
      \cup {[log EXCEPT ![i].exit = x] : i \in OfKind(ev, "finish"), x \in {0, 1}}

AlteredJUnits ==
    LET entries == Entries(ev) IN
    {[counted |-> c, entries |-> RemoveAt(entries, i)] : i \in DOMAIN entries, c \in BOOLEAN}
      \cup {[counted |-> TRUE, entries |-> [entries EXCEPT ![i].outcome = o]] :
              i \in DOMAIN entries, o \in {"passed", "failed", "error"}}
      \cup {[counted |-> TRUE, entries |-> [entries EXCEPT ![i].case = c]] :
              i \in DOMAIN entries, c \in Cases}

AlteredProcesses == {[id |-> id, completed |-> TRUE, exit |-> x] : id \in Ids, x \in {0, 1}}

(* Bound: only where collection and plan agree, the attempts a single       *)
(* altered file could turn around.                                          *)
Damage(source) ==
    /\ stage = "ended" /\ plan # None /\ damaged = None
    /\ CasesOf(Rows(ev)) = Expected(plan)
    /\ damaged' = source
    /\ \/ ev' = [ev EXCEPT ![source] = None]
       \/ /\ ev[source] # None
          /\ \E new \in CASE source = "collection" -> AlteredCollections
                          [] source = "events" -> AlteredEvents
                          [] source = "junit" -> AlteredJUnits
                          [] source = "process" -> AlteredProcesses :
               ev' = [ev EXCEPT ![source] = new]
    /\ UNCHANGED <<stage, plan, suite, progress, stopped, verdict>>

SessionStep ==
    \/ Start \/ Collect \/ FinishSession \/ Interrupt \/ Exit \/ Timeout \/ DerivePlan \/ Judge

----------------------------------------------------------------------------
(* Properties *)

(* Types, and no phase is left over when every item is. *)
SessionTypeOK ==
    /\ stage \in Stages
    /\ generated \in BOOLEAN /\ stopped \in BOOLEAN
    /\ marker \in [Nodes -> Cases \cup {None}]
    /\ done \in 0 .. Len(todo) /\ phase \in Phases
    /\ done = Len(todo) => phase = "setup"
    /\ truth \in [Nodes -> [Phases -> Outcomes \cup {None}]]
    /\ damaged \in Sources \cup {None}
    /\ verdict # None => verdict.gate \in {"passed", "failed", "blocked"}

NodesWith(c) == {n \in Nodes : CaseOf(n) = c /\ truth[n] # NotRun}

(* No single file can turn a test that did not pass all its phases into a   *)
(* passed case, and a passed gate means every automation candidate really   *)
(* passed: pytest's events, JUnit, the collection and the exit status have  *)
(* to be wrong together.                                                    *)
PassIsEarned ==
    verdict # None =>
      /\ \A c \in DOMAIN plan : verdict.results[c] = "passed" =>
             \E n \in NodesWith(c) : TrulyPassed(n)
      /\ verdict.gate = "passed" =>
             \A c \in Expected(plan) : verdict.results[c] = "passed"

(* A failed gate blames the product only for a test of its own plan that    *)
(* really failed in its call or teardown, or for a required case nobody     *)
(* automated: no single damaged file, timeout or interrupt can cause it.    *)
FailIsEarned ==
    (verdict # None /\ verdict.gate = "failed") =>
      \A c \in DOMAIN plan :
        CASE verdict.results[c] = "failed" -> \E n \in NodesWith(c) : TrulyFailed(n)
          [] OTHER -> \/ \E d \in DOMAIN plan : verdict.results[d] = "failed"
                      \/ \E d \in DOMAIN plan : plan[d] = "required"

(* An honest session: nothing damaged, stopped or deselected, the plan's    *)
(* candidates collected, no skip, xfail or failing teardown.                *)
Honest ==
    /\ damaged = None /\ ~ stopped /\ todo # <<>>
    /\ CasesOf(Rows(ev)) = Expected(plan)
    /\ \A i \in DOMAIN todo : LET t == truth[todo[i]] IN
         /\ t.setup \in {"passed", "failed"} /\ t.call \in {"passed", "failed", None}
         /\ t.teardown = "passed"

(* Reconciliation raises no false alarm: an honest session has no integrity *)
(* error, a failed setup blocks it and everything else is decided by the    *)
(* tests.                                                                   *)
HonestSessionIsDecided ==
    (verdict # None /\ Honest) =>
      /\ verdict.errors = {}
      /\ verdict.gate =
           IF \E n \in Nodes : truth[n].setup = "failed" THEN "blocked"
           ELSE IF \/ \E n \in Nodes : TrulyFailed(n)
                   \/ \E c \in DOMAIN plan : plan[c] = "required" THEN "failed"
           ELSE "passed"
=============================================================================
