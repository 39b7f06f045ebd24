--------------------------- MODULE CheckedSession ---------------------------
(***************************************************************************)
(* Structured checks in a PytestSession: what verify() of                   *)
(* framework/ai/checks.py and load_row() of framework/data/content.py       *)
(* record while a test runs, the calls source_bindings() found in its       *)
(* source, and contract_errors() over them.                                 *)
(*                                                                          *)
(* A suite that keeps to its contract evaluates each check of a test once,  *)
(* in its body, and reads there the data its case declares.  A slip is      *)
(* anything else the bindings cannot see: a call that is not reached or     *)
(* reached twice, an assertion error the test swallows, a helper or a       *)
(* fixture shared by the tests that evaluates a check or reads a row.       *)
(***************************************************************************)
EXTENDS PytestSession, CheckContract

CONSTANTS
    Checks,   \* check identifiers of the plans with checks
    Data,     \* data_ids
    MaxSlips  \* bound on the slips of a session

ASSUME SlipsAssumption == MaxSlips \in Nat /\ IsFiniteSet(Checks) /\ IsFiniteSet(Data)

VARIABLES
    contract,  \* the plan's checks and data, and where the source calls them
    log,       \* the check and data events, in a file with ev.events
    slips      \* number of slips so far

vars == <<session, contract, log, slips>>

(* The plan refuses an automated case without a check, and the freeze a     *)
(* check that is not called in the test with the marker of its case.        *)
Owners ==
    {owner \in [Checks -> Expected(plan)] :
       /\ \A c \in Expected(plan) : \E k \in Checks : owner[k] = c
       /\ \A k \in Checks : \E n \in Nodes : marker[n] = owner[k]}

Contracts ==
    {[owner |-> owner, bound |-> bound, data |-> data] :
       owner \in Owners, bound \in [Checks -> Nodes], data \in [DOMAIN plan -> SUBSET Data]}

NoContract == [owner |-> <<>>, bound |-> <<>>, data |-> <<>>]

Init ==
    /\ SessionInit
    /\ \/ contract = NoContract
       \/ /\ generated
          /\ contract \in Contracts
          /\ \A k \in Checks : marker[contract.bound[k]] = contract.owner[k]
    /\ log = <<>> /\ slips = 0

----------------------------------------------------------------------------
(* The events of one phase *)

(* verify() finds only the checks of the current case; of another one it    *)
(* records a failure without an operator.                                   *)
CheckEvent(k, n, outcome) ==
    LET known == contract.owner[k] = CaseOf(n) IN
    [kind |-> "check", check |-> k, case |-> CaseOf(n), node |-> n, phase |-> phase,
     known |-> known, outcome |-> IF known THEN outcome ELSE "failed"]

ReadEvent(d, n) ==
    [kind |-> "data_read", data |-> d, case |-> CaseOf(n), node |-> n, phase |-> phase]

(* A check a fixture has evaluated already is not evaluated again. *)
Due(n) ==
    LET checks == {k \in DOMAIN contract.owner :
                     /\ contract.bound[k] = n
                     /\ \A i \in OfEvent(log, "check") : log[i].check # k}
        rows == IF CaseOf(n) \in DOMAIN contract.data THEN contract.data[CaseOf(n)] ELSE {} IN
    SetToSeq({ReadEvent(d, n) : d \in rows}) \o SetToSeq({CheckEvent(k, n, "passed") : k \in checks})

Stray(n) ==
    {CheckEvent(k, n, outcome) : k \in DOMAIN contract.owner, outcome \in {"passed", "failed"}}
      \cup {ReadEvent(d, n) : d \in Data}

Slipped(events, n) ==
    {RemoveAt(events, i) : i \in DOMAIN events}
      \cup {[events EXCEPT ![i].outcome = "failed"] : i \in OfEvent(events, "check")}
      \cup {Append(events, e) : e \in Stray(n)}

(* The body of a test that fails may have got to any of its checks.         *)
Faithful(outcome) ==
    CASE phase = "call" /\ outcome \in {"passed", "xpassed"} -> {Due(Item)}
      [] phase = "call" /\ outcome = "failed" ->
            {<<>>} \cup {<<[Due(Item)[i] EXCEPT !.outcome = "failed"]>> :
                            i \in OfEvent(Due(Item), "check")}
      [] OTHER -> {<<>>}

(* Bound: slips in sessions without trouble only. *)
RunChecked(outcome) ==
    /\ RunPhase(outcome)
    /\ \E events \in Faithful(outcome) :
         \/ log' = log \o events /\ UNCHANGED slips
         \/ /\ contract # NoContract /\ outcome = "passed"
            /\ slips < MaxSlips /\ ~ AnyFailed /\ Troubles = 0
            /\ \E slipped \in Slipped(events, Item) : log' = log \o slipped
            /\ slips' = slips + 1
    /\ UNCHANGED contract

(* Bound: the other files are damaged in sessions without a contract, whose *)
(* verdict is the same.  The check events are never altered: no other file  *)
(* knows of them.                                                           *)
Next ==
    \/ \E outcome \in Outcomes : RunChecked(outcome)
    \/ /\ \/ SessionStep
          \/ \E source \in Sources : (contract # NoContract => source = "collection") /\ Damage(source)
       /\ UNCHANGED <<contract, log, slips>>

Spec == Init /\ [][Next]_vars

----------------------------------------------------------------------------
(* Properties *)

(* Types; no test records anything of a phase it has not begun, and only    *)
(* suites with a contract evaluate checks.                                  *)
TypeOK ==
    /\ SessionTypeOK
    /\ slips \in 0 .. MaxSlips
    /\ \A i \in DOMAIN log :
         /\ contract # NoContract
         /\ log[i].phase \in Phases /\ truth[log[i].node][log[i].phase] # None
         /\ log[i].kind = "check" => log[i].check \in Checks /\ log[i].outcome \in {"passed", "failed"}
         /\ log[i].kind = "data_read" => log[i].data \in Data

Bindings ==
    SetToSeq({[check |-> k, case |-> contract.owner[k], node |-> contract.bound[k]] :
                k \in DOMAIN contract.owner})

(* assess(): the events and the collection parse and have no contract error.*)
ContractHolds ==
    /\ ev.collection # None /\ ev.events # None
    /\ ContractErrors(contract.owner, contract.data, Bindings, log, Mapping(ev)) = {}

Passed == verdict # None /\ verdict.gate = "passed"

(* A passed gate whose contract holds means: each planned check was         *)
(* evaluated once, in the body of a test of its own case that passed in all *)
(* its phases, and held there; nothing else was evaluated, and each test    *)
(* read what its case declares.  Neither a shared fixture or helper, nor a  *)
(* swallowed assertion error, nor an altered collection gets past both.     *)
ChecksAreEarned ==
    (Passed /\ ContractHolds) =>
      /\ \A k \in Checks : \E n \in Nodes :
           /\ CaseOf(n) = contract.owner[k] /\ TrulyPassed(n)
           /\ \E i \in DOMAIN log :
                /\ {j \in OfEvent(log, "check") : log[j].check = k} = {i}
                /\ log[i].node = n /\ log[i].phase = "call" /\ log[i].outcome = "passed"
      /\ \A c \in DOMAIN plan, d \in Data :
           d \in contract.data[c] <=>
             \E i \in OfEvent(log, "data_read") :
               log[i].data = d /\ CaseOf(log[i].node) = c /\ TrulyPassed(log[i].node)

(* No false alarm: an honest session of a suite that keeps to its contract  *)
(* whose bound tests are collected has no contract error.  Not so with a    *)
(* planned case that is not automated and declares data: its run can pass   *)
(* and never be verified.                                                   *)
FaithfulSuiteIsAccepted ==
    (/\ Passed /\ Honest /\ slips = 0 /\ contract # NoContract
     /\ \A k \in Checks : contract.bound[k] \in ToSet(todo)
     /\ \A c \in DOMAIN plan \ Expected(plan) : contract.data[c] = {})
      => ContractHolds
=============================================================================
