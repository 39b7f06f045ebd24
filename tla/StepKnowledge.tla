--------------------------- MODULE StepKnowledge ---------------------------
(***************************************************************************)
(* Local step knowledge: scripts/promote_steps.py and                       *)
(* merge_verified_steps() of framework/ai/steps.py, beside the AttemptRunner *)
(* of the run the steps come from.                                          *)
(*                                                                          *)
(* Promotion does not take the ledger lock: finalise() reads run.json first *)
(* and what it names later, and the runner may make a whole attempt in      *)
(* between.  manifest.json, which it rewrites, is read by nobody here.  A   *)
(* step is named by its key; the store says from which attempt it came.     *)
(***************************************************************************)
EXTENDS AttemptRunner

CONSTANTS
    Promoters,  \* executions of scripts/promote_steps.py
    Steps       \* keys of candidate steps

VARIABLES
    at,        \* where each promoter is
    seen,      \* the last attempt when it read run.json
    brought,   \* its candidate steps
    copy,      \* the store as it read it
    store      \* .local/knowledge/step_info.json: the attempt of each step, 0 without

knowledge == <<at, seen, brought, copy, store>>
vars == <<runner, knowledge>>

NoSteps == [s \in Steps |-> 0]

Init ==
    /\ RunnerInit
    /\ at = [p \in Promoters |-> "idle"]
    /\ seen = [p \in Promoters |-> 0]
    /\ brought = [p \in Promoters |-> {}]
    /\ copy = [p \in Promoters |-> NoSteps]
    /\ store = NoSteps

Go(p, from, to) == at[p] = from /\ at' = [at EXCEPT ![p] = to]

End(p) ==
    /\ at' = [at EXCEPT ![p] = "done"]
    /\ seen' = [seen EXCEPT ![p] = 0]
    /\ brought' = [brought EXCEPT ![p] = {}]
    /\ copy' = [copy EXCEPT ![p] = NoSteps]

(* The candidates and run.json are read. *)
Promote(p) ==
    /\ run.attempts > 0
    /\ Go(p, "idle", "reading")
    /\ \E steps \in SUBSET Steps \ {{}} : brought' = [brought EXCEPT ![p] = steps]
    /\ seen' = [seen EXCEPT ![p] = run.attempts]
    /\ UNCHANGED <<runner, copy, store>>

(* Mutant: only the receipt of the last attempt is checked. *)
GateOfLast(n) == FilesHold /\ attempts[n].receipt = "valid" /\ attempts[n].passed

(* finalise(): the gate of the run with the attempts listed by then. *)
GateOf(n) ==
    /\ FilesHold
    /\ \A i \in 1 .. n : attempts[i].receipt = "valid"
    /\ attempts[n].passed

(* Every candidate belongs to this run, to its application and to one of    *)
(* its passed cases, or all are refused (Stop).                             *)
Verify(p) ==
    /\ Go(p, "reading", "verified")
    /\ GateOf(seen[p])
    /\ UNCHANGED <<runner, seen, brought, copy, store>>

(* Mutant: the store's lock is not taken. *)
AlwaysFree == TRUE

StoreIsFree == \A p \in Promoters : at[p] # "merging"

(* FileLock(timeout=0): a promoter that finds it taken fails (Stop). *)
OpenStore(p) ==
    /\ StoreIsFree
    /\ Go(p, "verified", "merging")
    /\ copy' = [copy EXCEPT ![p] = store]
    /\ UNCHANGED <<runner, seen, brought, store>>

(* Stored steps stay, new ones are appended; the whole is written to a      *)
(* temporary file, which replaces the store.                                *)
ReplaceStore(p) ==
    /\ at[p] = "merging" /\ End(p)
    /\ store' = [s \in Steps |->
                   IF s \in brought[p] /\ copy[p][s] = 0 THEN seen[p] ELSE copy[p][s]]
    /\ UNCHANGED runner

(* Refused, locked out or killed. *)
Stop(p) ==
    /\ at[p] \notin {"idle", "done"} /\ End(p)
    /\ UNCHANGED <<runner, store>>

Next ==
    \/ RunnerNext /\ UNCHANGED knowledge
    \/ \E p \in Promoters :
         Promote(p) \/ Verify(p) \/ OpenStore(p) \/ ReplaceStore(p) \/ Stop(p)

Spec == Init /\ [][Next]_vars

----------------------------------------------------------------------------
(* Properties *)

Untouched(n) == \A i \in 1 .. n : attempts[i].protected = run.files["protected"]

(* Each stored step comes from an attempt that ran, like all before it,     *)
(* over the protected files of its run (docs/concepts/architecture.md:      *)
(* "requires a checked passing run"), though the runner may begin, lose or  *)
(* repair another attempt before the store is replaced.                     *)
KnowledgeIsEarned == \A s \in Steps : store[s] > 0 => Untouched(store[s])

(* Verified knowledge is never lost or replaced, by promoters that run at   *)
(* the same time, fail half way or are killed.                              *)
KnowledgeIsKept == [][\A s \in Steps : store[s] > 0 => store'[s] = store[s]]_vars
=============================================================================
