------------------------- MODULE OwnedServiceProofs -------------------------
(***************************************************************************)
(* The invariants of OwnedService for every number of runners and sessions. *)
(***************************************************************************)
EXTENDS OwnedService, TLAPS

Types ==
    /\ pc \in [Owners -> Places]
    /\ lock \in Runners \cup {None} /\ port \in Owners \cup {Stranger, None}
    /\ app \in [Owners -> {"none", "starting", "serving", "stopping", "exited"}]
    /\ suite \in [Owners -> {"none", "running", "over", "killed"}]
    /\ test \in [Owners -> {"none", "identified", "clean"}]
    /\ crashed \in BOOLEAN /\ wiped = FALSE /\ strayed \in BOOLEAN

(* The processes of an owner, by the place it is at. *)
PlaceOK(o) ==
    /\ port = o => app[o] \in {"serving", "stopping"}
    /\ pc[o] = "idle" => app[o] = "none"
    /\ pc[o] \in {"idle", "waiting"} => suite[o] = "none"
    /\ suite[o] = "running" => pc[o] \in {"inside", "dead"}
    /\ test[o] # "none" => suite[o] = "running"
    /\ app[o] = "stopping" => pc[o] \in {"terminating", "killing", "leaving", "out", "dead"}
    /\ pc[o] \in {"terminating", "killing"} => app[o] \in {"stopping", "exited"}

LockOK == \A o \in Runners : lock = o <=> pc[o] \notin {"idle", "out", "dead"}

(* A suite has its own application on the port until one crashes. *)
ApartOK ==
    /\ strayed = FALSE
    /\ ~ crashed => \A o \in Owners :
         (pc[o] = "inside" \/ suite[o] = "running") => app[o] = "serving" /\ port = o

ProcessInv == Types /\ LockOK /\ (\A o \in Owners : PlaceOK(o)) /\ ApartOK

LEMMA ProcessInit == Init => ProcessInv
<1> SUFFICES ASSUME Init PROVE ProcessInv
  OBVIOUS
<1> USE OwnersAssumption DEF Init
<1>1. Types
  BY DEF Types, Places
<1>2. LockOK
  BY DEF LockOK, Owners
<1>3. \A o \in Owners : PlaceOK(o)
  BY DEF PlaceOK
<1>4. ApartOK
  BY DEF ApartOK
<1> QED
  BY <1>1, <1>2, <1>3, <1>4 DEF ProcessInv

LEMMA ProcessNext == ProcessInv /\ [Next]_vars => ProcessInv'
<1> SUFFICES ASSUME ProcessInv, [Next]_vars PROVE ProcessInv'
  OBVIOUS
<1> USE OwnersAssumption
<1> USE DEF ProcessInv, Types, LockOK, PlaceOK, ApartOK, Places, Alive, history, Go, Raise
<1>1. ASSUME NEW o \in Owners, Enter(o) PROVE ProcessInv'
  BY <1>1 DEF Enter, Owners
<1>2. ASSUME NEW o \in Owners, Ready(o) PROVE ProcessInv'
  BY <1>2 DEF Ready, AnswersAsOwn, Owners
<1>3. ASSUME NEW o \in Owners, NotReady(o) \/ Deadline(o) PROVE ProcessInv'
  BY <1>3 DEF NotReady, Deadline, FailToStart, Owners
<1>5. ASSUME NEW o \in Owners, StartSuite(o) PROVE ProcessInv'
  BY <1>5 DEF StartSuite, Owners
<1>6. ASSUME NEW o \in Owners, SuiteReturns(o) PROVE ProcessInv'
  BY <1>6 DEF SuiteReturns, Owners
<1>7. ASSUME NEW o \in Owners, Timeout(o) PROVE ProcessInv'
  BY <1>7 DEF Timeout, KillSuite, Owners
<1>8. ASSUME NEW o \in Owners, Interrupt(o) PROVE ProcessInv'
  BY <1>8 DEF Interrupt, KillSuite, Owners
<1>9. ASSUME NEW o \in Owners, Terminate(o) PROVE ProcessInv'
  BY <1>9 DEF Terminate, Child, Owners
<1>10. ASSUME NEW o \in Owners, Stopped(o) \/ Kill(o) \/ GiveUp(o) PROVE ProcessInv'
  BY <1>10 DEF Stopped, Kill, GiveUp, Owners
<1>12. ASSUME NEW o \in Owners, Leave(o) PROVE ProcessInv'
  <2>1. lock' \in Runners \cup {None} /\ LockOK'
    BY <1>12 DEF Leave, Release, Owners
  <2>2. QED
    BY ONLY <1>12, <2>1, ProcessInv DEF Leave, ProcessInv, Types, PlaceOK, ApartOK, Places, history, Go
<1>13. ASSUME NEW o \in Owners, Die(o) PROVE ProcessInv'
  <2>1. lock' \in Runners \cup {None} /\ LockOK'
    BY <1>13 DEF Die, Release, Owners
  <2>3. CASE o \in Sessions
    BY ONLY <1>13, <2>1, <2>3, ProcessInv
    DEF Die, KillSuite, ProcessInv, Types, PlaceOK, ApartOK, Places, history
  <2>4. CASE o \notin Sessions
    BY ONLY <1>13, <2>1, <2>4, ProcessInv
    DEF Die, ProcessInv, Types, PlaceOK, ApartOK, Places, history
  <2>5. QED
    BY ONLY <2>3, <2>4
<1>14. ASSUME NEW o \in Owners, SuiteEnds(o) \/ Identify(o) \/ EndTest(o) PROVE ProcessInv'
  BY <1>14 DEF SuiteEnds, Identify, EndTest, Owners
<1>15. ASSUME NEW o \in Owners, Reset(o) \/ Use(o) PROVE ProcessInv'
  <2>1. CASE Reset(o)
    <3>1. wiped' = FALSE
      BY <2>1 DEF Reset, AcceptsReset
    <3>2. /\ test[o] = "identified" /\ test' \in {[test EXCEPT ![o] = "clean"], [test EXCEPT ![o] = "none"]}
          /\ UNCHANGED <<pc, lock, port, app, suite, crashed, strayed>>
      BY <2>1 DEF Reset
    <3>3. QED
      BY <3>1, <3>2
  <2>2. CASE Use(o)
    BY <2>2 DEF Use, Owners
  <2>3. QED
    BY ONLY <1>15, <2>1, <2>2
<1>16. ASSUME NEW o \in Owners, Bind(o) PROVE ProcessInv'
  BY <1>16 DEF Bind, Exits, Owners
<1>17. ASSUME NEW o \in Owners, Obey(o) \/ Crash(o) PROVE ProcessInv'
  <2>1. CASE Obey(o)
    BY <2>1 DEF Obey, Exits
  <2>2. CASE Crash(o)
    BY <2>2 DEF Crash, Exits
  <2>3. QED
    BY ONLY <1>17, <2>1, <2>2
<1>18. CASE StrangerMoves
  BY <1>18 DEF StrangerMoves, Owners
<1>19. CASE UNCHANGED vars
  BY <1>19 DEF vars
<1> QED
  BY <1>1, <1>2, <1>3, <1>5, <1>6, <1>7, <1>8, <1>9, <1>10, <1>12, <1>13, <1>14,
     <1>15, <1>16, <1>17, <1>18, <1>19 DEF Next, OwnerStep, TestStep

----------------------------------------------------------------------------
(* What the with block reports *)

Outcome == [completed : BOOLEAN, error : {"none", "caught", "escaped"}]

FateOK(o) ==
    /\ pc[o] \in {"waiting", "inside", "stopping", "terminating", "killing"} => app[o] # "none"
    /\ outcome[o].completed =>
         /\ o \in Runners /\ suite[o] = "over"
         /\ pc[o] \in {"stopping", "terminating", "killing", "leaving", "out"}
         /\ pc[o] \in {"leaving", "out"} /\ outcome[o].error # "escaped" =>
              app[o] \in {"stopping", "exited"}
    /\ pc[o] \in {"leaving", "out"} /\ Alive(o) =>
         \/ outcome[o].error = "escaped"
         \/ outcome[o].error = "caught" /\ app[o] = "stopping"
    /\ record[o] # None =>
         pc[o] = "out" /\ record[o] = outcome[o] /\ outcome[o].error # "escaped"

FateInv ==
    /\ outcome \in [Owners -> Outcome] /\ DOMAIN record = Owners
    /\ \A o \in Owners : FateOK(o)

(* What an exception does to the outcomes, one field at a time. *)
LEMMA Raised ==
    ASSUME outcome \in [Owners -> Outcome], NEW o \in Owners, NEW from, NEW to,
           NEW error \in {"caught", "escaped"}, Raise(o, from, to, error)
    PROVE  /\ outcome' \in [Owners -> Outcome]
           /\ pc[o] = from /\ pc' = [pc EXCEPT ![o] = to]
           /\ outcome'[o].completed = outcome[o].completed
           /\ outcome'[o].error = error
           /\ \A p \in Owners : p # o => outcome'[p] = outcome[p]
<1>1. pc[o] = from /\ pc' = [pc EXCEPT ![o] = to] /\ outcome' = [outcome EXCEPT ![o].error = error]
  BY DEF Raise, Go
<1>2. PICK new : new = [outcome[o] EXCEPT !.error = error]
  OBVIOUS
<1>3. outcome[o] \in Outcome /\ error \in {"none", "caught", "escaped"}
  OBVIOUS
<1>4. new \in Outcome /\ new.completed = outcome[o].completed /\ new.error = error
  BY <1>2, <1>3 DEF Outcome
<1>5. outcome' = [outcome EXCEPT ![o] = new]
  BY <1>1, <1>2, Zenon
<1>6. /\ outcome' \in [Owners -> Outcome] /\ outcome'[o] = new
      /\ \A p \in Owners : p # o => outcome'[p] = outcome[p]
  BY <1>4, <1>5
<1>7. QED
  BY <1>1, <1>4, <1>6

LEMMA FateInit == Init => FateInv
  BY OwnersAssumption DEF Init, FateInv, FateOK, Outcome, NoOutcome, Alive

LEMMA FateNext == ProcessInv /\ FateInv /\ [Next]_vars => FateInv'
<1> SUFFICES ASSUME ProcessInv, FateInv, [Next]_vars PROVE FateInv'
  OBVIOUS
<1> USE OwnersAssumption DEF FateInv, Alive
<1>0. /\ pc \in [Owners -> Places] /\ suite \in [Owners -> {"none", "running", "over", "killed"}]
      /\ app \in [Owners -> {"none", "starting", "serving", "stopping", "exited"}]
      /\ \A o \in Owners : PlaceOK(o)
  BY DEF ProcessInv, Types
<1>1. ASSUME NEW o \in Owners, Enter(o) PROVE FateInv'
  <2>1. CASE Raise(o, "idle", "leaving", "caught") /\ UNCHANGED app
    BY <1>0, <1>1, <2>1, Raised DEF Enter, FateOK, PlaceOK
  <2>2. CASE Go(o, "idle", "waiting")
    BY <1>0, <1>1, <2>2 DEF Enter, Go, FateOK, Raise
  <2>3. QED
    BY <1>1, <2>1, <2>2 DEF Enter
<1>2. ASSUME NEW o \in Owners, Ready(o) PROVE FateInv'
  BY <1>0, <1>2 DEF Ready, Go, FateOK
<1>3. ASSUME NEW o \in Owners, NotReady(o) \/ Deadline(o) PROVE FateInv'
  <2>1. PICK error \in {"caught", "escaped"} : Raise(o, "waiting", "stopping", error)
    BY <1>3 DEF NotReady, Deadline, FailToStart
  <2>2. UNCHANGED <<app, suite, record>>
    BY <1>3 DEF NotReady, Deadline
  <2>3. QED
    BY <1>0, <2>1, <2>2, Raised DEF FateOK
<1>4. ASSUME NEW o \in Owners, StartSuite(o) PROVE FateInv'
  <2>1. CASE Raise(o, "inside", "stopping", "caught") /\ UNCHANGED suite
    BY <1>0, <1>4, <2>1, Raised DEF StartSuite, FateOK
  <2>2. CASE UNCHANGED <<pc, outcome>>
    BY <1>0, <1>4, <2>2 DEF StartSuite, FateOK
  <2>3. QED
    BY <1>4, <2>1, <2>2 DEF StartSuite
<1>5. ASSUME NEW o \in Owners, SuiteReturns(o) PROVE FateInv'
  <2>1. PICK new : new = [outcome[o] EXCEPT !.completed = TRUE]
    OBVIOUS
  <2>2. new \in Outcome /\ new.error = outcome[o].error /\ record[o] = None
    BY <1>5, <2>1 DEF Outcome, SuiteReturns, Go, FateOK
  <2>3. o \in Runners => outcome' = [outcome EXCEPT ![o] = new]
    BY <1>5, <2>1, Zenon DEF SuiteReturns
  <2>4. CASE o \in Runners
    <3>1. /\ outcome' \in [Owners -> Outcome] /\ outcome'[o] = new
          /\ \A p \in Owners : p # o => outcome'[p] = outcome[p]
          /\ UNCHANGED <<app, suite, record>> /\ suite[o] = "over"
          /\ pc[o] = "inside" /\ pc' = [pc EXCEPT ![o] = "stopping"]
      BY <1>5, <2>2, <2>3, <2>4 DEF SuiteReturns, Go
    <3>2. FateOK(o)'
      BY <1>0, <2>2, <2>4, <3>1 DEF FateOK
    <3>3. ASSUME NEW p \in Owners, p # o PROVE FateOK(p)'
      BY <1>0, <3>1, <3>3 DEF FateOK
    <3>4. QED
      BY <3>1, <3>2, <3>3
  <2>5. CASE o \notin Runners
    BY <1>0, <1>5, <2>2, <2>5 DEF SuiteReturns, Go, FateOK
  <2>6. QED
    BY <2>4, <2>5
<1>6. ASSUME NEW o \in Owners, Timeout(o) PROVE FateInv'
  BY <1>0, <1>6, Raised DEF Timeout, KillSuite, FateOK
<1>7. ASSUME NEW o \in Owners, Interrupt(o) PROVE FateInv'
  <2>1. PICK from \in {"waiting", "inside", "stopping", "terminating", "killing"},
             to \in {"stopping", "leaving"} :
          /\ Raise(o, from, to, "escaped")
          /\ from = "inside" \/ UNCHANGED suite
    BY <1>7 DEF Interrupt
  <2>2. (suite' = [suite EXCEPT ![o] = "killed"] \/ UNCHANGED suite) /\ UNCHANGED <<app, record>>
    BY <1>7 DEF Interrupt, KillSuite
  <2>3. QED
    BY <1>0, <2>1, <2>2, Raised DEF FateOK
<1>8. ASSUME NEW o \in Owners, Terminate(o) PROVE FateInv'
  BY <1>0, <1>8 DEF Terminate, Child, Go, FateOK
<1>9. ASSUME NEW o \in Owners, Stopped(o) \/ Kill(o) PROVE FateInv'
  BY <1>0, <1>9 DEF Stopped, Kill, Go, FateOK, PlaceOK
<1>10. ASSUME NEW o \in Owners, GiveUp(o) PROVE FateInv'
  BY <1>0, <1>10, Raised DEF GiveUp, FateOK, PlaceOK
<1>11. ASSUME NEW o \in Owners, Leave(o) PROVE FateInv'
  BY <1>0, <1>11 DEF Leave, Go, FateOK
<1>12. ASSUME NEW o \in Owners, Die(o) PROVE FateInv'
  BY <1>0, <1>12 DEF Die, KillSuite, NoOutcome, Outcome, FateOK
<1>13. ASSUME NEW o \in Owners, TestStep(o) PROVE FateInv'
  BY <1>0, <1>13 DEF TestStep, SuiteEnds, Identify, Reset, Use, EndTest, history, FateOK
<1>14. ASSUME NEW o \in Owners, Bind(o) \/ Obey(o) \/ Crash(o) PROVE FateInv'
  BY <1>0, <1>14 DEF Bind, Obey, Crash, Exits, FateOK
<1>15. CASE StrangerMoves \/ UNCHANGED vars
  BY <1>15 DEF StrangerMoves, vars, history, FateOK
<1> QED
  BY <1>1, <1>2, <1>3, <1>4, <1>5, <1>6, <1>7, <1>8, <1>9, <1>10, <1>11, <1>12, <1>13,
     <1>14, <1>15 DEF Next, OwnerStep

IInv == ProcessInv /\ FateInv

LEMMA Inductive == Spec => []IInv
<1>1. Init => IInv
  BY ProcessInit, FateInit DEF IInv
<1>2. IInv /\ [Next]_vars => IInv'
  BY ProcessNext, FateNext DEF IInv
<1>3. QED
  BY <1>1, <1>2, PTL DEF Spec

----------------------------------------------------------------------------
(* The runs' properties *)

(* Types, the lock and the port. *)
THEOREM TypesHold == Spec => []TypeOK
<1>1. IInv => TypeOK
  BY OwnersAssumption
  DEF IInv, ProcessInv, Types, LockOK, PlaceOK, FateInv, FateOK, Outcome, TypeOK
<1>2. QED
  BY <1>1, Inductive, PTL

(* No test resets an application its run did not start. *)
THEOREM ResetsStayHome == Spec => []NobodyElseIsReset
<1>1. IInv => NobodyElseIsReset
  BY DEF IInv, ProcessInv, Types, NobodyElseIsReset
<1>2. QED
  BY <1>1, Inductive, PTL

(* While no application dies of itself, a test uses its own. *)
THEOREM SuitesAreApart == Spec => []SuitesStayApart
<1>1. IInv => SuitesStayApart
  BY DEF IInv, ProcessInv, ApartOK, SuitesStayApart
<1>2. QED
  BY <1>1, Inductive, PTL

(* No application is left behind in silence. *)
THEOREM NothingIsLeft == Spec => []NothingLeftRunning
<1>1. IInv => NothingLeftRunning
  BY DEF IInv, FateInv, FateOK, NothingLeftRunning
<1>2. QED
  BY <1>1, Inductive, PTL

(* Only its owner stops an application. *)
THEOREM StopsStayHome == Spec => []OnlyOwnIsStopped
<1>1. IInv => OnlyOwnIsStopped
  BY DEF IInv, ProcessInv, PlaceOK, OnlyOwnIsStopped
<1>2. QED
  BY <1>1, Inductive, PTL

(* process.json is written when everything it describes is over. *)
THEOREM RecordsAreFinal == Spec => []RecordIsFinal
<1>1. IInv => RecordIsFinal
  BY DEF IInv, ProcessInv, PlaceOK, FateInv, FateOK, RecordIsFinal, Owners
<1>2. QED
  BY <1>1, Inductive, PTL
=============================================================================
