--------------------------- MODULE CheckContract ---------------------------
(***************************************************************************)
(* contract_errors() of framework/ai/bindings.py: whether the structured    *)
(* checks of a plan, the calls of verify() found in the generated source,   *)
(* the check and data events of the final attempt and its collection        *)
(* belong together.                                                         *)
(*                                                                          *)
(*   owner     the case of each planned check                               *)
(*   data      the data_ids each planned case declares                      *)
(*   bindings  Seq of [check, case, node]: the calls in the source          *)
(*   log       Seq of [kind |-> "check", check, case, node, phase, known,   *)
(*             outcome] and [kind |-> "data_read", data, case, node, phase] *)
(*   mapping   the node of each collected case                              *)
(*                                                                          *)
(* The operator of a check is looked up in the plan when it is recorded, so *)
(* it can only be the planned one or, of an unknown check, missing: known.  *)
(***************************************************************************)
EXTENDS Integers, Sequences, FiniteSets

OfEvent(log, kind) == {i \in DOMAIN log : log[i].kind = kind}

(* Counter(...) == Counter(expected): each planned check once, no other. *)
OnceEach(owner, rows, places) ==
    /\ \A i \in places : rows[i].check \in DOMAIN owner
    /\ \A k \in DOMAIN owner : Cardinality({i \in places : rows[i].check = k}) = 1

At(mapping, case, node) == case \in DOMAIN mapping /\ mapping[case] = node

(* Mutant: the phase of a check is not looked at. *)
CheckInCaseOnly(owner, event, mapping) ==
    event.known /\ owner[event.check] = event.case /\ At(mapping, event.case, event.node)

CheckInPlace(owner, event, mapping) ==
    /\ event.check \in DOMAIN owner /\ owner[event.check] = event.case /\ event.known
    /\ event.phase = "call" /\ At(mapping, event.case, event.node)

(* Mutant: what other cases read counts, too. *)
ReadsAnywhere(log, case) ==
    {log[i].data : i \in {j \in OfEvent(log, "data_read") : log[j].phase = "call"}}

ReadsOf(log, case) ==
    {log[i].data : i \in {j \in OfEvent(log, "data_read") :
                             log[j].case = case /\ log[j].phase = "call"}}

(* One predicate for each code the program records. *)
ContractFaults(owner, data, bindings, log, mapping) ==
  [ source_check_binding_mismatch    |-> ~ OnceEach(owner, bindings, DOMAIN bindings),
    source_node_binding_mismatch     |->
        \E i \in DOMAIN bindings : ~ At(mapping, bindings[i].case, bindings[i].node),
    missing_or_duplicate_check_events |-> ~ OnceEach(owner, log, OfEvent(log, "check")),
    invalid_check_event_mapping      |->
        \E i \in OfEvent(log, "check") : ~ CheckInPlace(owner, log[i], mapping),
    unsuccessful_required_check      |->
        \E i \in OfEvent(log, "check") : log[i].outcome # "passed",
    declared_observed_data_mismatch  |->
        \E c \in DOMAIN data : ReadsOf(log, c) # data[c],
    invalid_data_event_mapping       |->
        \E i \in OfEvent(log, "data_read") :
            log[i].phase # "call" \/ ~ At(mapping, log[i].case, log[i].node) ]

(* Only plans that claim fresh generation get here: they need checks. *)
ContractErrors(owner, data, bindings, log, mapping) ==
    IF DOMAIN owner = {} THEN {"missing_structured_checks"}
    ELSE LET faults == ContractFaults(owner, data, bindings, log, mapping) IN
         {name \in DOMAIN faults : faults[name]}
=============================================================================
