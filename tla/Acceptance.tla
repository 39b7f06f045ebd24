----------------------------- MODULE Acceptance -----------------------------
(***************************************************************************)
(* Workflow acceptance over the files of one run: record_review() and       *)
(* assess() of framework/ai/acceptance.py, scripts/review_ai_run.py and     *)
(* scripts/accept_ai_run.py, beside the AttemptRunner that goes on making   *)
(* attempts.                                                                *)
(*                                                                          *)
(* A review names what the maintainer approves by digest.  Accepting reads  *)
(* the run twice, finalise() first and assess() later, and takes no lock.   *)
(***************************************************************************)
EXTENDS AttemptRunner

CONSTANT MaxReviews   \* bound on the reviews recorded

VARIABLES
    route,        \* plan.source: trae_orchestrated or trae_single_agent_skill
    captures,     \* version of the host captures, None without one
    declaration,  \* the phase declaration: None, "valid", "stale"
    reviews,      \* reviews/<id>.json in the order they were recorded
    reviewing,    \* what review_ai_run holds after finalise(): the attempt
    accepting     \* what accept_ai_run holds after finalise()

review == <<route, captures, declaration, reviews, reviewing, accepting>>
vars == <<runner, review>>

Routes == {"trae_orchestrated", "trae_single_agent_skill"}

Init ==
    /\ RunnerInit
    /\ route \in Routes
    /\ captures = None /\ declaration = None
    /\ reviews = <<>> /\ reviewing = None /\ accepting = None

(* artifact_basis(): evidence is covered through the receipt of the final   *)
(* attempt.                                                                 *)
Basis(attempt) ==
    [run |-> run, files |-> [f \in Files \ {"protected"} |-> now[f]],
     declaration |-> declaration, sealed |-> attempts[attempt].receipt # "none"]

(* Mutant: a delegation is approved without a capture.                      *)
ListsAnyCaptures(delegated, listed) == listed => captures # None

ListsCaptures(delegated, listed) == (listed => captures # None) /\ (delegated => listed)

(* review_ai_run: finalise(write_output=False), then record_review() of     *)
(* what lies there by then.  What else a rejecting review lists decides     *)
(* nothing.                                                                 *)
BeginReview ==
    /\ reviewing = None /\ Len(reviews) < MaxReviews /\ run.attempts > 0
    /\ reviewing' = run.attempts
    /\ UNCHANGED <<runner, route, captures, declaration, reviews, accepting>>

RecordReview ==
    /\ reviewing # None
    /\ \E alignment \in {"approved", "rejected"}, delegated \in BOOLEAN, listed \in BOOLEAN :
         /\ ListsCaptures(delegated, listed)
         /\ alignment = "rejected" => ~ listed
         /\ reviews' = Append(reviews,
              [alignment |-> alignment, delegated |-> delegated,
               captures |-> IF listed THEN captures ELSE None,
               attempt |-> reviewing, basis |-> Basis(reviewing)])
    /\ reviewing' = None
    /\ UNCHANGED <<runner, route, captures, declaration, accepting>>

(* accept_ai_run: finalise(write_output=False). *)
BeginAccept ==
    /\ accepting = None /\ run.attempts > 0
    /\ \E i \in DOMAIN reviews \cup {None} :
         accepting' = [passed |-> GatePasses, attempt |-> run.attempts, review |-> i]
    /\ UNCHANGED <<runner, route, captures, declaration, reviews, reviewing>>

(* Mutants: the review's basis is not compared; the captures are not read   *)
(* again.                                                                   *)
ReviewNamesAttempt(r, attempt) == r.attempt = attempt

ReviewHolds(r, attempt) == r.attempt = attempt /\ r.basis = Basis(attempt)

CapturesListed(r) == r.captures # None

CapturesHold(r) == r.captures # None /\ r.captures = captures

(* assess(): what rejects the run, and what is still missing.               *)
Rejects(r) ==
    \/ ~ accepting.passed
    \/ ~ attempts[accepting.attempt].contract
    \/ route = "trae_orchestrated" /\ declaration = "stale"
    \/ /\ r # None
       /\ \/ ~ ReviewHolds(r, accepting.attempt)
          \/ r.alignment = "rejected"
          \/ route = "trae_orchestrated" /\ r.delegated /\ ~ CapturesHold(r)

Pends(r) ==
    \/ r = None
    \/ route = "trae_orchestrated" /\ (declaration = None \/ ~ r.delegated)

Assessment ==
    LET r == IF accepting.review = None THEN None ELSE reviews[accepting.review] IN
    IF Rejects(r) THEN "rejected" ELSE IF Pends(r) THEN "unverified" ELSE "verified"

(* It prints, and may save, the Assessment. *)
EndAccept ==
    /\ accepting # None
    /\ accepting' = None
    /\ UNCHANGED <<runner, route, captures, declaration, reviews, reviewing>>

(* The host and the agent write their files, early or late. *)
EditCaptures ==
    /\ \/ captures = None /\ captures' = 0 /\ edits' = edits
       \/ captures # None /\ edits < MaxEdits /\ captures' = captures + 1 /\ edits' = edits + 1
    /\ UNCHANGED <<pc, now, code, run, memory, dirs, rounds, attempts>>
    /\ UNCHANGED <<route, declaration, reviews, reviewing, accepting>>

Declare ==
    /\ \/ declaration = None /\ declaration' = "valid" /\ edits' = edits
       \/ declaration = "valid" /\ edits < MaxEdits /\ declaration' = "stale" /\ edits' = edits + 1
    /\ UNCHANGED <<pc, now, code, run, memory, dirs, rounds, attempts>>
    /\ UNCHANGED <<route, captures, reviews, reviewing, accepting>>

Next ==
    \/ RunnerNext /\ UNCHANGED review
    \/ BeginReview \/ RecordReview \/ BeginAccept \/ EndAccept \/ EditCaptures \/ Declare

Spec == Init /\ [][Next]_vars

----------------------------------------------------------------------------
(* Properties *)

TypeOK ==
    /\ RunnerTypeOK
    /\ route \in Routes /\ captures \in 0 .. MaxEdits \cup {None}
    /\ accepting # None => accepting.attempt \in 1 .. run.attempts
    /\ \A i \in DOMAIN reviews :
         /\ reviews[i].attempt \in 1 .. run.attempts
         /\ reviews[i].captures \in 0 .. MaxEdits \cup
              (IF reviews[i].delegated THEN {} ELSE {None})

(* A fresh "verified": what accept_ai_run is about to print.                *)
Verifies == accepting # None /\ Assessment = "verified"

(* "verified" is only said of the attempt the maintainer approved, while    *)
(* plan, data, bindings, run.json and, on the orchestrated route, the host  *)
(* captures are still what the review saw, with no attempt or repair since, *)
(* whatever happens between finalise() and assess().                        *)
VerifiedIsWhatWasReviewed ==
    Verifies =>
      LET r == reviews[accepting.review] IN
      /\ r.alignment = "approved"
      /\ r.attempt = run.attempts /\ r.basis.run = run
      /\ \A f \in Files \ {"protected"} : r.basis.files[f] = now[f]
      /\ route = "trae_orchestrated" => r.captures = captures

(* "verified" is never said of a run in which some attempt, an earlier one  *)
(* or one begun after finalise(), did not run over the protected files or   *)
(* has no receipt, though finalise() looked at them before.                 *)
VerifiedAttemptPassed ==
    Verifies =>
      \A i \in DOMAIN attempts :
        attempts[i].protected = run.files["protected"] /\ attempts[i].receipt # "none"

(* docs/how-to/workflow-acceptance.md: "Changed inputs, receipts or         *)
(* captures invalidate it", said of a review.                               *)
ChangedCapturesInvalidate ==
    (Verifies /\ reviews[accepting.review].captures # None) =>
        reviews[accepting.review].captures = captures
=============================================================================
