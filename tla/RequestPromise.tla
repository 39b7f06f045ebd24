--------------------------- MODULE RequestPromise ---------------------------
(***************************************************************************)
(* What the request ledger promises to the agents and operators that call  *)
(* it (docs/how-to/workflow-acceptance.md, "Requests and retries"; the     *)
(* hardening design, section 9), without files, locks or processes: a      *)
(* logical request is one intended execution.  It is opened once, executed *)
(* at most once, decided at most once, and every answer about it is the    *)
(* decision or "blocked" (2).  A lost request ends the run it belongs to.  *)
(***************************************************************************)
CONSTANTS Runs, Requests, Clients, None

VARIABLES
    status,     \* of every request of every run
    result,     \* the exit code of a decided request
    executed,   \* the requests of a run an execution was started for
    answer      \* what each client was told last

promised == <<status, result, executed, answer>>

Init ==
    /\ status = [r \in Runs |-> [q \in Requests |-> "new"]]
    /\ result = [r \in Runs |-> [q \in Requests |-> 2]]
    /\ executed = [r \in Runs |-> {}]
    /\ answer = [c \in Clients |-> None]

(* No other request of the run is undecided or lost. *)
Quiet(r, q) == \A p \in Requests \ {q} : status[r][p] \in {"new", "done"}

Ask(c) ==
    /\ answer' = [answer EXCEPT ![c] = None]
    /\ UNCHANGED <<status, result, executed>>

Open(r, q) ==
    /\ status[r][q] = "new" /\ Quiet(r, q)
    /\ status' = [status EXCEPT ![r][q] = "open"]
    /\ UNCHANGED <<result, executed, answer>>

Start(r, q) ==
    /\ status[r][q] = "open" /\ Quiet(r, q) /\ q \notin executed[r]
    /\ executed' = [executed EXCEPT ![r] = @ \cup {q}]
    /\ UNCHANGED <<status, result, answer>>

(* Only an execution can end in success (0) or failure (1). *)
Decide(r, q) ==
    /\ status[r][q] = "open"
    /\ \E code \in {0, 1, 2} :
         /\ code # 2 => q \in executed[r]
         /\ result' = [result EXCEPT ![r][q] = code]
    /\ status' = [status EXCEPT ![r][q] = "done"]
    /\ UNCHANGED <<executed, answer>>

Lose(r, q) ==
    /\ status[r][q] \in {"new", "open"}
    /\ status[r][q] = "new" => Quiet(r, q)
    /\ status' = [status EXCEPT ![r][q] = "lost"]
    /\ UNCHANGED <<result, executed>>

Tell(c, r, q, code) ==
    answer' = [answer EXCEPT ![c] = [run |-> r, request |-> q, code |-> code]]

Answer(c, r, q) ==
    /\ \E code \in {0, 1, 2} :
         /\ code # 2 => status[r][q] = "done" /\ result[r][q] = code
         /\ Tell(c, r, q, code)
    /\ UNCHANGED <<status, result, executed>>

(* The client's process dies and takes the request with it. *)
Abort(c, r, q) == Lose(r, q) /\ Tell(c, r, q, 2)

Next ==
    \/ \E c \in Clients : Ask(c)
    \/ \E r \in Runs, q \in Requests :
         \/ Open(r, q) \/ Start(r, q) \/ Decide(r, q)
         \/ Lose(r, q) /\ UNCHANGED answer
         \/ \E c \in Clients : Answer(c, r, q) \/ Abort(c, r, q)

Spec == Init /\ [][Next]_promised
=============================================================================
