------------------------ MODULE RequestLedgerProofs ------------------------
(***************************************************************************)
(* Machine-checked safety of RequestLedger for any sets of callers, runs,  *)
(* requests and fingerprints.                                              *)
(***************************************************************************)
EXTENDS RequestLedger, SequenceTheorems, TLAPS

(* A caller beyond "called" holds the lock. *)
Critical == Steps \ {"idle", "called"}

(* The part of the inductive invariant that is about callers and the lock:  *)
(* who is past the lock holds it, who is not idle has arguments, and who    *)
(* executes has made the last attempt of its run.                           *)
CallersOK ==
    /\ \A c \in Callers : pc[c] \in Critical => lock = c
    /\ \A c \in Callers : pc[c] # "idle" => call[c] \in Call
    /\ \A c \in Callers : pc[c] \in {"executing", "executed"} =>
         /\ attempts[call[c].run] # <<>>
         /\ LET a == attempts[call[c].run][Len(attempts[call[c].run])] IN
              /\ a.request = call[c].request
              /\ a.invocation = call[c].id

(* A finished attempt is handed to finish() with a terminal outcome, and a   *)
(* completed record has an exit code.                                       *)
ExitsRecorded ==
    \A r \in Runs, q \in Requests :
        ledger[r][q].state = "completed" => ledger[r][q].exit \in ExitCodes

OutcomesOK ==
    /\ \A c \in Callers : pc[c] \in {"finishing", "finished"} => work[c].state \in Terminal
    /\ ExitsRecorded

TypeInv == TypeOK /\ CallersOK /\ OutcomesOK

LEMMA TypeInit == Init => TypeInv
BY LedgerAssumption DEF Init, TypeInv, TypeOK, CallersOK, OutcomesOK, ExitsRecorded, Steps, Critical, Work,
   NoWork, Record, NoRecord, States, Terminal, ExitCodes, Parents

(* Nobody else is past the lock while c is. *)
LEMMA Alone ==
    ASSUME CallersOK, NEW c \in Callers, pc[c] \in Critical
    PROVE  \A d \in Callers \ {c} : pc[d] \notin Critical
BY DEF CallersOK

(* Leaving execute() keeps the types and the claims about callers.          *)
LEMMA LeaveType ==
    ASSUME TypeInv, NEW c \in Callers, pc[c] # "idle",
           NEW kind \in {"busy", "refused", "cached", "done", "lost"},
           NEW code \in ExitCodes, Leave(c, kind, code)
    PROVE  /\ lock' \in Callers \cup {None}
           /\ pc' \in [Callers -> Steps]
           /\ call' \in [Callers -> Call \cup {None}]
           /\ work' \in [Callers -> Work]
           /\ started' \in Nat
           /\ reply' \in [Callers -> Reply \cup {None}]
           /\ \A d \in Callers : pc'[d] \in Critical => lock' = d
           /\ \A d \in Callers : pc'[d] # "idle" => d # c
           /\ \A d \in Callers \ {c} : pc'[d] = pc[d] /\ call'[d] = call[d] /\ work'[d] = work[d]
<1> USE LedgerAssumption DEF TypeInv, TypeOK, CallersOK, Leave, Goto
<1>1. call[c] \in Call
  OBVIOUS
<1>2. lock' \in Callers \cup {None}
  OBVIOUS
<1>3. pc' \in [Callers -> Steps]
  BY DEF Steps
<1>4. call' \in [Callers -> Call \cup {None}]
  OBVIOUS
<1>5. work' \in [Callers -> Work]
  BY DEF Work, NoWork, Terminal, ExitCodes
<1>6. reply' \in [Callers -> Reply \cup {None}]
  BY <1>1 DEF Reply, Call
<1>7. \A d \in Callers : pc'[d] # "idle" => d # c
  OBVIOUS
<1>8. \A d \in Callers \ {c} : pc'[d] = pc[d] /\ call'[d] = call[d] /\ work'[d] = work[d]
  OBVIOUS
<1>9. \A d \in Callers : pc'[d] \in Critical => lock' = d
  BY <1>3, <1>7, <1>8 DEF Critical
<1> QED
  BY <1>2, <1>3, <1>4, <1>5, <1>6, <1>7, <1>8, <1>9

(* A record written by reserve() or finish(), or cut short, is a record.    *)
LEMMA LedgerType ==
    ASSUME TypeOK, NEW r \in Runs, NEW q \in Requests, NEW rec \in Record
    PROVE  [ledger EXCEPT ![r][q] = rec] \in [Runs -> [Requests -> Record]]
BY DEF TypeOK

(* Writing one record leaves all others alone. *)
LEMMA LedgerWrite ==
    ASSUME TypeOK, NEW r \in Runs, NEW q \in Requests, NEW rec,
           ledger' = [ledger EXCEPT ![r][q] = rec]
    PROVE  /\ ledger'[r][q] = rec
           /\ \A s \in Runs, p \in Requests :
                s # r \/ p # q => ledger'[s][p] = ledger[s][p]
BY DEF TypeOK

LEMMA TypeNext == TypeInv /\ [Next]_vars => TypeInv'
<1> SUFFICES ASSUME TypeInv, [Next]_vars PROVE TypeInv'
  OBVIOUS
<1> USE LedgerAssumption DEF Goto, Stay, disk
<1>1. ASSUME NEW c \in Callers, Invoke(c) PROVE TypeInv'
  <2>1. PICK r \in Runs, q \in Requests, v \in Values :
          call' = [call EXCEPT ![c] = [run |-> r, request |-> q, value |-> v, id |-> started + 1]]
    BY <1>1 DEF Invoke
  <2>2. call'[c] \in Call /\ \A d \in Callers \ {c} : call'[d] = call[d]
    BY <2>1 DEF TypeInv, TypeOK, Call
  <2>3. pc' = [pc EXCEPT ![c] = "called"]
    BY <1>1 DEF Invoke
  <2>4. TypeOK'
    BY <1>1, <2>1, <2>2 DEF Invoke, TypeInv, TypeOK, Steps
  <2>5. CallersOK'
    BY <1>1, <2>2, <2>3 DEF Invoke, TypeInv, TypeOK, CallersOK, Critical, Steps
  <2>6. OutcomesOK'
    BY <1>1, <2>3 DEF Invoke, TypeInv, TypeOK, OutcomesOK, ExitsRecorded
  <2> QED
    BY <2>4, <2>5, <2>6 DEF TypeInv
<1>2. ASSUME NEW c \in Callers, Acquire(c) PROVE TypeInv'
  <2>1. \A d \in Callers : pc[d] \notin Critical
    BY <1>2 DEF Acquire, TypeInv, CallersOK
  <2>2. TypeOK' /\ OutcomesOK'
    BY <1>2 DEF Acquire, TypeInv, TypeOK, OutcomesOK, ExitsRecorded, Steps
  <2>3. CallersOK'
    BY <1>2, <2>1 DEF Acquire, TypeInv, TypeOK, CallersOK, Critical, Steps
  <2> QED
    BY <2>2, <2>3 DEF TypeInv
<1>3. ASSUME NEW c \in Callers, NEW kind \in {"busy", "refused", "cached", "done", "lost"},
             NEW code \in ExitCodes, Leave(c, kind, code), pc[c] # "idle",
             ledger' \in [Runs -> [Requests -> Record]], ExitsRecorded',
             UNCHANGED <<attempts, planned, inputs>>
      PROVE  TypeInv'
  <2>1. TypeOK'
    BY <1>3, LeaveType DEF TypeInv, TypeOK
  <2>2. CallersOK'
    BY <1>3, LeaveType DEF TypeInv, CallersOK
  <2>3. OutcomesOK'
    BY <1>3, LeaveType DEF TypeInv, OutcomesOK
  <2> QED
    BY <2>1, <2>2, <2>3 DEF TypeInv
<1>4. ASSUME NEW c \in Callers, Busy(c) \/ Refuse(c) \/ AnswerCached(c) \/ Report(c) PROVE TypeInv'
  <2>0. UNCHANGED ledger
    BY <1>4 DEF Busy, Refuse, AnswerCached, Report
  <2>1. /\ work[c].code \in ExitCodes /\ ledger' \in [Runs -> [Requests -> Record]]
        /\ ExitsRecorded'
    BY <2>0 DEF TypeInv, TypeOK, Work, OutcomesOK, ExitsRecorded
  <2>2. CASE Busy(c)
    BY <2>1, <2>2, <1>3 DEF Busy, ExitCodes
  <2>3. CASE Refuse(c)
    BY <2>1, <2>3, <1>3 DEF Refuse, ExitCodes
  <2>4. CASE AnswerCached(c)
    BY <2>1, <2>4, <1>3 DEF AnswerCached, ExitCodes
  <2>5. CASE Report(c)
    BY <2>1, <2>5, <1>3 DEF Report, ExitCodes
  <2> QED
    BY <1>4, <2>2, <2>3, <2>4, <2>5
<1>5. ASSUME NEW c \in Callers, Die(c) PROVE TypeInv'
  <2>1. call[c].run \in Runs /\ call[c].request \in Requests
    BY <1>5 DEF Die, TypeInv, CallersOK, Call
  <2>2. NoRecord("torn") \in Record
    BY DEF NoRecord, Record, States, Parents
  <2>3. [ledger EXCEPT ![call[c].run][call[c].request] = NoRecord("torn")]
            \in [Runs -> [Requests -> Record]]
    BY <2>1, <2>2, LedgerType DEF TypeInv
  <2>4. ledger' = ledger
        \/ ledger' = [ledger EXCEPT ![call[c].run][call[c].request] = NoRecord("torn")]
    BY <1>5 DEF Die
  <2>5. ledger' \in [Runs -> [Requests -> Record]]
    BY <2>3, <2>4 DEF TypeInv, TypeOK
  <2>6. NoRecord("torn").state # "completed"
    BY DEF NoRecord
  <2>7. ExitsRecorded'
    <3>1. CASE ledger' = ledger
      BY <3>1 DEF TypeInv, OutcomesOK, ExitsRecorded
    <3>2. CASE ledger' = [ledger EXCEPT ![call[c].run][call[c].request] = NoRecord("torn")]
      BY <2>1, <2>6, <3>2, LedgerWrite DEF TypeInv, OutcomesOK, ExitsRecorded
    <3> QED
      BY <2>4, <3>1, <3>2
  <2> QED
    BY <1>5, <2>5, <2>7, <1>3 DEF Die, ExitCodes
<1>6. ASSUME NEW c \in Callers, Reserve(c) PROVE TypeInv'
  <2>1. call[c] \in Call
    BY <1>6 DEF Reserve, TypeInv, CallersOK
  <2>2. PICK parent \in Parents :
          ledger' = [ledger EXCEPT ![call[c].run][call[c].request] =
                       [NoRecord("running") EXCEPT !.value = call[c].value,
                            !.invocation = call[c].id, !.parent = parent]]
    BY <1>6 DEF Reserve
  <2>3. [NoRecord("running") EXCEPT !.value = call[c].value,
            !.invocation = call[c].id, !.parent = parent] \in Record
    BY <2>1 DEF NoRecord, Record, States, Call
  <2>4. ledger' \in [Runs -> [Requests -> Record]]
    BY <2>1, <2>2, <2>3, LedgerType DEF TypeInv, Call
  <2>5. TypeOK'
    BY <1>6, <2>4 DEF Reserve, TypeInv, TypeOK, Steps
  <2>6. CallersOK'
    BY <1>6 DEF Reserve, TypeInv, TypeOK, CallersOK, Critical
  <2>7. OutcomesOK'
    BY <1>6, <2>1, <2>2 DEF Reserve, TypeInv, TypeOK, OutcomesOK, ExitsRecorded, NoRecord, Call
  <2> QED
    BY <2>5, <2>6, <2>7 DEF TypeInv
<1>7. ASSUME NEW c \in Callers, Replay(c) PROVE TypeInv'
  <2>1. call[c] \in Call
    BY <1>7 DEF Replay, TypeInv, CallersOK
  <2>2. RecordOf(c).state = "completed" => RecordOf(c).exit \in ExitCodes
    BY <2>1 DEF TypeInv, OutcomesOK, ExitsRecorded, RecordOf, Call
  <2>3. work' \in [Callers -> Work]
    BY <1>7, <2>2 DEF Replay, TypeInv, TypeOK, Work, ExitCodes
  <2>4. TypeOK'
    BY <1>7, <2>3 DEF Replay, TypeInv, TypeOK, Steps
  <2>5. CallersOK'
    BY <1>7 DEF Replay, TypeInv, TypeOK, CallersOK, Critical
  <2>6. OutcomesOK'
    BY <1>7 DEF Replay, TypeInv, TypeOK, OutcomesOK, ExitsRecorded
  <2> QED
    BY <2>4, <2>5, <2>6 DEF TypeInv
<1>8. ASSUME NEW c \in Callers, NoteInvocation(c) PROVE TypeInv'
  <2>1. TypeOK'
    BY <1>8 DEF NoteInvocation, TypeInv, TypeOK, Steps
  <2>2. CallersOK'
    BY <1>8 DEF NoteInvocation, TypeInv, TypeOK, CallersOK, Critical
  <2>3. OutcomesOK'
    BY <1>8 DEF NoteInvocation, TypeInv, TypeOK, OutcomesOK, ExitsRecorded
  <2> QED
    BY <2>1, <2>2, <2>3 DEF TypeInv
<1>9. ASSUME NEW c \in Callers, pc[c] \in {"ready", "executing", "executed"},
             NEW state \in Terminal, NEW code \in ExitCodes, NEW n \in Nat,
             Conclude(c, state, code, n), Goto(c, "finishing"), Stay, UNCHANGED <<ledger, inputs>>,
             attempts' \in [Runs -> Seq(Attempt)], planned' \in [Runs -> BOOLEAN]
      PROVE  TypeInv'
  <2>1. TypeOK'
    BY <1>9 DEF Conclude, TypeInv, TypeOK, Steps, Work
  <2>2. \A d \in Callers : pc'[d] \in {"executing", "executed"} => FALSE
    BY <1>9 DEF TypeInv, TypeOK, CallersOK, Critical, Steps
  <2>3. CallersOK'
    BY <1>9, <2>2 DEF TypeInv, TypeOK, CallersOK, Critical, Steps
  <2>4. OutcomesOK'
    BY <1>9 DEF Conclude, TypeInv, TypeOK, OutcomesOK, ExitsRecorded
  <2> QED
    BY <2>1, <2>3, <2>4 DEF TypeInv
<1>10. ASSUME NEW c \in Callers, RejectPreflight(c) \/ BlockBaseline(c) \/ Raise(c) PROVE TypeInv'
  <2>1. call[c].run \in Runs
    BY <1>10 DEF RejectPreflight, BlockBaseline, Raise, TypeInv, CallersOK, Call
  <2>2. Len(attempts[call[c].run]) \in Nat
    BY <2>1 DEF TypeInv, TypeOK
  <2>3. attempts' \in [Runs -> Seq(Attempt)] /\ planned' \in [Runs -> BOOLEAN]
    BY <1>10, <2>1 DEF RejectPreflight, BlockBaseline, Raise, TypeInv, TypeOK
  <2>4. CASE RejectPreflight(c)
    BY <2>3, <2>4, <1>9 DEF RejectPreflight, Terminal, ExitCodes
  <2>5. CASE BlockBaseline(c)
    BY <2>2, <2>3, <2>5, <1>9 DEF BlockBaseline, Terminal, ExitCodes
  <2>6. CASE Raise(c)
    <3>1. PICK state \in Terminal : Conclude(c, state, 2, 0)
      BY <2>6 DEF Raise, Terminal
    <3>2. /\ pc[c] \in {"ready", "executing", "executed"}
          /\ Goto(c, "finishing") /\ Stay /\ UNCHANGED <<ledger, inputs>>
      BY <2>6 DEF Raise
    <3> QED
      BY <2>3, <3>1, <3>2, <1>9 DEF ExitCodes
  <2> QED
    BY <1>10, <2>4, <2>5, <2>6
<1>11. ASSUME NEW c \in Callers, Launch(c) PROVE TypeInv'
  <2> DEFINE r == call[c].run
             a == [request |-> call[c].request, invocation |-> call[c].id,
                   completed |-> FALSE, receipt |-> "none", verdict |-> "invalid"]
  <2>1. call[c] \in Call /\ r \in Runs
    BY <1>11 DEF Launch, TypeInv, CallersOK, Call
  <2>2. a \in Attempt /\ attempts[r] \in Seq(Attempt)
    BY <2>1 DEF Attempt, Call, Verdicts, TypeInv, TypeOK
  <2>3. attempts' = [attempts EXCEPT ![r] = Append(attempts[r], a)]
    BY <1>11 DEF Launch
  <2> HIDE DEF r, a
  <2>9. /\ Append(attempts[r], a) \in Seq(Attempt)
        /\ Append(attempts[r], a) # <<>>
        /\ Append(attempts[r], a)[Len(Append(attempts[r], a))] = a
    BY <2>2, AppendProperties
  <2>4. /\ attempts'[r] # <<>>
        /\ attempts'[r][Len(attempts'[r])] = a
        /\ attempts' \in [Runs -> Seq(Attempt)]
    BY <2>1, <2>3, <2>9 DEF TypeInv, TypeOK
  <2> USE DEF r, a
  <2>5. TypeOK'
    BY <1>11, <2>4 DEF Launch, TypeInv, TypeOK, Steps
  <2>6. \A d \in Callers \ {c} : pc'[d] = pc[d] /\ pc[d] \notin Critical
    BY <1>11, Alone DEF Launch, TypeInv, TypeOK, Critical, Steps
  <2>7. CallersOK'
    BY <1>11, <2>4, <2>6 DEF Launch, TypeInv, TypeOK, CallersOK, Critical, Steps
  <2>8. OutcomesOK'
    BY <1>11 DEF Launch, TypeInv, TypeOK, OutcomesOK, ExitsRecorded
  <2> QED
    BY <2>5, <2>7, <2>8 DEF TypeInv
<1>12. ASSUME NEW c \in Callers, pc[c] \in {"executing", "executed"}
       PROVE  /\ call[c] \in Call /\ attempts[call[c].run] \in Seq(Attempt)
              /\ Len(attempts[call[c].run]) \in 1 .. Len(attempts[call[c].run])
              /\ attempts[call[c].run][Len(attempts[call[c].run])] \in Attempt
  <2>1. call[c] \in Call /\ attempts[call[c].run] \in Seq(Attempt) /\ attempts[call[c].run] # <<>>
    BY <1>12 DEF TypeInv, TypeOK, CallersOK, Call
  <2> QED
    BY <2>1, EmptySeq
<1>13. ASSUME NEW c \in Callers, RunSuite(c) PROVE TypeInv'
  <2> DEFINE r == call[c].run
             n == Len(attempts[r])
  <2>1. call[c] \in Call /\ n \in 1 .. n /\ attempts[r] \in Seq(Attempt) /\ attempts[r][n] \in Attempt
    BY <1>13, <1>12 DEF RunSuite
  <2>2. PICK done \in BOOLEAN, verdict \in Verdicts :
          attempts' = [attempts EXCEPT ![r][n] =
                         [@ EXCEPT !.completed = done, !.verdict = verdict]]
    BY <1>13 DEF RunSuite
  <2> DEFINE a == [attempts[r][n] EXCEPT !.completed = done, !.verdict = verdict]
             made == [attempts[r] EXCEPT ![n] = a]
  <2>3. a \in Attempt /\ a.request = attempts[r][n].request /\ a.invocation = attempts[r][n].invocation
    BY <2>1, <2>2 DEF Attempt
  <2>4. made \in Seq(Attempt) /\ Len(made) = n /\ made[n] = a
    BY <2>1, <2>3, ExceptSeq
  <2>5. attempts' = [attempts EXCEPT ![r] = made]
    BY <2>1, <2>2 DEF TypeInv, TypeOK, Call
  <2>6. attempts'[r] = made /\ attempts' \in [Runs -> Seq(Attempt)]
    BY <2>1, <2>4, <2>5 DEF TypeInv, TypeOK, Call
  <2>7. TypeOK'
    BY <1>13, <2>6 DEF RunSuite, TypeInv, TypeOK, Steps
  <2>8. \A d \in Callers \ {c} : pc'[d] = pc[d] /\ pc[d] \notin Critical
    BY <1>13, Alone DEF RunSuite, TypeInv, TypeOK, Critical, Steps
  <2>9. /\ made # <<>> /\ made[Len(made)].request = call[c].request
        /\ made[Len(made)].invocation = call[c].id
    BY <1>13, <2>1, <2>3, <2>4, EmptySeq DEF RunSuite, TypeInv, CallersOK
  <2>10. CallersOK'
    BY <1>13, <2>6, <2>8, <2>9 DEF RunSuite, TypeInv, TypeOK, CallersOK, Critical, Steps
  <2>11. OutcomesOK'
    BY <1>13 DEF RunSuite, TypeInv, TypeOK, OutcomesOK, ExitsRecorded
  <2> QED
    BY <2>7, <2>10, <2>11 DEF TypeInv
<1>14. ASSUME NEW c \in Callers, Seal(c) PROVE TypeInv'
  <2> DEFINE r == call[c].run
             n == Len(attempts[r])
             sealed == [attempts[r] EXCEPT ![n].receipt = "valid"]
  <2>1. call[c] \in Call /\ n \in 1 .. n /\ attempts[r] \in Seq(Attempt) /\ attempts[r][n] \in Attempt
    BY <1>14, <1>12 DEF Seal
  <2>2. [attempts[r][n] EXCEPT !.receipt = "valid"] \in Attempt
    BY <2>1 DEF Attempt
  <2>3. sealed \in Seq(Attempt)
    BY <2>1, <2>2, ExceptSeq
  <2>4. attempts' \in [Runs -> Seq(Attempt)] /\ planned' \in [Runs -> BOOLEAN]
    BY <1>14, <2>1, <2>3 DEF Seal, TypeInv, TypeOK
  <2>5. PICK state \in Terminal, code \in ExitCodes : Conclude(c, state, code, n)
    BY <1>14, <2>1 DEF Seal, Terminal, ExitCodes, ExitOf
  <2>6. /\ pc[c] \in {"ready", "executing", "executed"} /\ n \in Nat
        /\ Goto(c, "finishing") /\ Stay /\ UNCHANGED <<ledger, inputs>>
    BY <1>14, <2>1 DEF Seal
  <2> QED
    BY <2>4, <2>5, <2>6, <1>9
<1>15. ASSUME NEW c \in Callers, Finish(c) PROVE TypeInv'
  <2> DEFINE rec == [RecordOf(c) EXCEPT !.state = work[c].state, !.exit = work[c].code,
                                        !.attempt = work[c].attempt]
  <2>1. call[c].run \in Runs /\ call[c].request \in Requests /\ work[c].state \in Terminal
        /\ work[c] \in Work /\ RecordOf(c) \in Record
    BY <1>15 DEF Finish, TypeInv, TypeOK, CallersOK, OutcomesOK, Call, RecordOf
  <2>2. rec \in Record /\ rec.exit \in ExitCodes
    BY <2>1 DEF Record, States, Work, Terminal
  <2>3. ledger' = [ledger EXCEPT ![call[c].run][call[c].request] = rec]
    BY <1>15, <2>1 DEF Finish, RecordOf, TypeInv, TypeOK
  <2>4. ledger' \in [Runs -> [Requests -> Record]]
    BY <2>1, <2>2, <2>3, LedgerType DEF TypeInv
  <2>5. ExitsRecorded'
    BY <2>1, <2>2, <2>3, LedgerWrite DEF TypeInv, OutcomesOK, ExitsRecorded
  <2>6. TypeOK'
    BY <1>15, <2>4 DEF Finish, TypeInv, TypeOK, Steps
  <2>7. CallersOK'
    BY <1>15 DEF Finish, TypeInv, TypeOK, CallersOK, Critical, Steps
  <2>8. OutcomesOK'
    BY <1>15, <2>5 DEF Finish, TypeInv, TypeOK, OutcomesOK
  <2> QED
    BY <2>6, <2>7, <2>8 DEF TypeInv
<1>16. ASSUME NEW r \in Runs, EditInputs(r) PROVE TypeInv'
  BY <1>16 DEF EditInputs, TypeInv, TypeOK, CallersOK, OutcomesOK, ExitsRecorded
<1>17. ASSUME NEW r \in Runs, AlterEvidence(r) PROVE TypeInv'
  <2>1. PICK i \in 1 .. Len(attempts[r]) : attempts' = [attempts EXCEPT ![r][i].receipt = "changed"]
    BY <1>17 DEF AlterEvidence
  <2> DEFINE a == [attempts[r][i] EXCEPT !.receipt = "changed"]
             made == [attempts[r] EXCEPT ![i] = a]
  <2>2. attempts[r] \in Seq(Attempt) /\ attempts[r][i] \in Attempt
    BY <2>1 DEF TypeInv, TypeOK
  <2>3. a \in Attempt /\ a.request = attempts[r][i].request /\ a.invocation = attempts[r][i].invocation
    BY <2>2 DEF Attempt
  <2>4. /\ made \in Seq(Attempt) /\ Len(made) = Len(attempts[r])
        /\ \A j \in 1 .. Len(made) : /\ made[j].request = attempts[r][j].request
                                     /\ made[j].invocation = attempts[r][j].invocation
    BY <2>2, <2>3, ExceptSeq
  <2>5. attempts' = [attempts EXCEPT ![r] = made]
    BY <2>1, <2>2 DEF TypeInv, TypeOK
  <2>6. /\ attempts' \in [Runs -> Seq(Attempt)] /\ attempts'[r] = made
        /\ \A s \in Runs \ {r} : attempts'[s] = attempts[s]
    BY <2>4, <2>5 DEF TypeInv, TypeOK
  <2>7. TypeOK' /\ OutcomesOK'
    BY <1>17, <2>6 DEF AlterEvidence, TypeInv, TypeOK, OutcomesOK, ExitsRecorded
  <2>8. ASSUME NEW d \in Callers, pc[d] \in {"executing", "executed"}
        PROVE  /\ attempts'[call[d].run] # <<>>
               /\ LET b == attempts'[call[d].run][Len(attempts'[call[d].run])] IN
                    b.request = call[d].request /\ b.invocation = call[d].id
    <3>1. call[d].run \in Runs
      BY <2>8 DEF TypeInv, CallersOK, Call
    <3>2. CASE call[d].run # r
      BY <2>6, <2>8, <3>1, <3>2 DEF TypeInv, CallersOK
    <3>3. CASE call[d].run = r
      <4>1. /\ attempts[r] # <<>>
            /\ attempts[r][Len(attempts[r])].request = call[d].request
            /\ attempts[r][Len(attempts[r])].invocation = call[d].id
        BY <2>8, <3>3 DEF TypeInv, CallersOK
      <4>2. Len(made) \in 1 .. Len(made) /\ made # <<>>
        BY <2>2, <2>4, <4>1, EmptySeq
      <4>3. made[Len(made)].request = call[d].request /\ made[Len(made)].invocation = call[d].id
        BY <2>4, <4>1, <4>2
      <4> HIDE DEF made
      <4> QED
        BY <2>6, <3>3, <4>2, <4>3
    <3> QED
      BY <3>2, <3>3
  <2>9. CallersOK'
    BY <1>17, <2>8 DEF AlterEvidence, TypeInv, CallersOK
  <2> QED
    BY <2>7, <2>9 DEF TypeInv
<1>18. CASE UNCHANGED vars
  BY <1>18 DEF vars, TypeInv, TypeOK, CallersOK, OutcomesOK, ExitsRecorded
<1> QED
  BY <1>1, <1>2, <1>4, <1>5, <1>6, <1>7, <1>8, <1>10, <1>11, <1>13, <1>14, <1>15,
     <1>16, <1>17, <1>18 DEF Next, Execute

(* Every variable of the ledger keeps its type in every behaviour: records  *)
(* and attempts stay well formed through crashes, torn writes and edits.    *)
THEOREM TypeCorrect == Spec => []TypeOK
<1>1. TypeInv => TypeOK
  BY DEF TypeInv
<1> QED
  BY TypeInit, TypeNext, <1>1, PTL DEF Spec

----------------------------------------------------------------------------
(* The inductive invariant.  The properties of interest speak of the files *)
(* alone; they are kept because a caller between two of its steps knows     *)
(* more than the files say.                                                 *)

(* Every attempt was preceded by a record of its request, and a verdict is  *)
(* recorded with the number of an attempt that exists.                      *)
FilesOK ==
    /\ \A r \in Runs : \A i \in 1 .. Len(attempts[r]) :
         ledger[r][attempts[r][i].request].state # "absent"
    /\ \A r \in Runs, q \in Requests :
         ledger[r][q].exit \in {0, 1} => ledger[r][q].attempt <= Len(attempts[r])
    /\ OneAttemptPerRequest
    /\ CompletedNamesOwnAttempt
    /\ NoVerdictOverLostAttempt

(* A caller that reserved owns a running record until finish(), has made no *)
(* attempt before Launch, and what it is about to record is what the files  *)
(* show.                                                                    *)
Reserved == {"reserved", "ready", "executing", "executed", "finishing"}

Backed(c) ==
    LET made == attempts[call[c].run] IN
    /\ work[c].state = "completed" =>
         /\ work[c].attempt \in 1 .. Len(made)
         /\ made[work[c].attempt].request = call[c].request
         /\ made[work[c].attempt].invocation = call[c].id
         /\ made[work[c].attempt].completed
    /\ work[c].code \in {0, 1} =>
         /\ work[c].attempt <= Len(made)
         /\ \A i \in 1 .. work[c].attempt : made[i].receipt # "none"

Claim(c) ==
    /\ pc[c] \in Reserved => MayFinish(c)
    /\ pc[c] \in {"reserved", "ready"} =>
         \A i \in 1 .. Len(attempts[call[c].run]) :
             attempts[call[c].run][i].request # call[c].request
    /\ pc[c] = "finishing" => Backed(c)

ClaimsOK == \A c \in Callers : Claim(c)

IInv == TypeInv /\ FilesOK /\ ClaimsOK

LEMMA SafetyInit == Init => IInv
<1> SUFFICES ASSUME Init PROVE FilesOK /\ ClaimsOK
  BY TypeInit DEF IInv
<1>1. FilesOK
  BY DEF Init, FilesOK, OneAttemptPerRequest, CompletedNamesOwnAttempt,
     NoVerdictOverLostAttempt, NoRecord
<1>2. ClaimsOK
  BY DEF Init, ClaimsOK, Claim, Reserved
<1> QED
  BY <1>1, <1>2

(* One record is written: the files stay in order if the new record is.     *)
LEMMA WriteKeepsFiles ==
    ASSUME TypeOK, FilesOK, UNCHANGED attempts, NEW r \in Runs, NEW q \in Requests,
           NEW rec \in Record, ledger' = [ledger EXCEPT ![r][q] = rec],
           rec.state # "absent",
           rec.state = "completed" =>
             /\ rec.attempt \in 1 .. Len(attempts[r])
             /\ attempts[r][rec.attempt].request = q
             /\ attempts[r][rec.attempt].invocation = rec.invocation
             /\ attempts[r][rec.attempt].completed,
           rec.exit \in {0, 1} =>
             /\ rec.attempt <= Len(attempts[r])
             /\ \A i \in 1 .. rec.attempt : attempts[r][i].receipt # "none"
    PROVE  FilesOK'
<1>1. /\ ledger'[r][q] = rec
      /\ \A s \in Runs, p \in Requests : s # r \/ p # q => ledger'[s][p] = ledger[s][p]
  BY LedgerWrite
<1>2. ASSUME NEW s \in Runs, NEW i \in 1 .. Len(attempts[s])
      PROVE  attempts[s][i].request \in Requests
  <2>1. attempts[s] \in Seq(Attempt)
    BY DEF TypeOK
  <2>2. attempts[s][i] \in Attempt
    BY <2>1
  <2> QED
    BY <2>2 DEF Attempt
<1>3. \A s \in Runs : \A i \in 1 .. Len(attempts[s]) :
         ledger'[s][attempts[s][i].request].state # "absent"
  BY <1>1, <1>2 DEF FilesOK
<1>4. \A s \in Runs, p \in Requests :
        ledger'[s][p].exit \in {0, 1} => ledger'[s][p].attempt <= Len(attempts[s])
  BY <1>1 DEF FilesOK
<1>5. OneAttemptPerRequest'
  BY DEF FilesOK, OneAttemptPerRequest
<1>6. CompletedNamesOwnAttempt'
  BY <1>1 DEF FilesOK, CompletedNamesOwnAttempt
<1>7. NoVerdictOverLostAttempt'
  BY <1>1 DEF FilesOK, NoVerdictOverLostAttempt
<1> QED
  BY <1>3, <1>4, <1>5, <1>6, <1>7 DEF FilesOK

(* The attempts of one run are rewritten in place: requests and invocations *)
(* stay, no receipt is lost, and completed can change only for an attempt   *)
(* whose request is not decided yet.                                        *)
Rewritten(made, r) ==
    /\ Len(made) = Len(attempts[r])
    /\ \A i \in 1 .. Len(made) :
         /\ made[i].request = attempts[r][i].request
         /\ made[i].invocation = attempts[r][i].invocation
         /\ attempts[r][i].receipt # "none" => made[i].receipt # "none"

LEMMA RewriteKeepsFiles ==
    ASSUME TypeOK, FilesOK, UNCHANGED ledger, NEW r \in Runs, NEW made,
           attempts' = [attempts EXCEPT ![r] = made], Rewritten(made, r),
           \A i \in 1 .. Len(made) :
             made[i].completed = attempts[r][i].completed
               \/ ledger[r][attempts[r][i].request].state # "completed"
    PROVE  FilesOK'
<1>1. attempts'[r] = made /\ \A s \in Runs \ {r} : attempts'[s] = attempts[s]
  BY DEF TypeOK
<1>2. \A s \in Runs : Len(attempts'[s]) = Len(attempts[s])
  BY <1>1 DEF Rewritten
<1>3. \A s \in Runs : \A i \in 1 .. Len(attempts[s]) :
        attempts'[s][i].request = attempts[s][i].request
  BY <1>1 DEF Rewritten
<1>4. CompletedNamesOwnAttempt'
  BY <1>1, <1>2 DEF Rewritten, FilesOK, CompletedNamesOwnAttempt
<1>5. NoVerdictOverLostAttempt'
  <2> SUFFICES ASSUME NEW s \in Runs, NEW q \in Requests, ledger[s][q].exit \in {0, 1},
                      NEW i \in 1 .. ledger[s][q].attempt
               PROVE  attempts'[s][i].receipt # "none"
    BY DEF NoVerdictOverLostAttempt
  <2>1. i \in 1 .. Len(attempts[s]) /\ attempts[s][i].receipt # "none"
    BY DEF FilesOK, NoVerdictOverLostAttempt, TypeOK, Record
  <2> QED
    BY <1>1, <2>1 DEF Rewritten
<1> QED
  BY <1>2, <1>3, <1>4, <1>5 DEF FilesOK, OneAttemptPerRequest

(* One attempt is rewritten. *)
LEMMA RewriteOne ==
    ASSUME TypeOK, NEW r \in Runs, NEW i \in 1 .. Len(attempts[r]), NEW a \in Attempt,
           a.request = attempts[r][i].request, a.invocation = attempts[r][i].invocation,
           attempts[r][i].receipt # "none" => a.receipt # "none"
    PROVE  LET made == [attempts[r] EXCEPT ![i] = a] IN
             /\ Rewritten(made, r)
             /\ made[i] = a
             /\ \A j \in 1 .. Len(made) : j # i => made[j] = attempts[r][j]
<1>1. attempts[r] \in Seq(Attempt)
  BY DEF TypeOK
<1>2. PICK made : made = [attempts[r] EXCEPT ![i] = a]
  OBVIOUS
<1>3. /\ Len(made) = Len(attempts[r]) /\ made[i] = a
      /\ \A j \in 1 .. Len(made) : j # i => made[j] = attempts[r][j]
  BY <1>1, <1>2, ExceptSeq
<1>4. Rewritten(made, r)
  BY <1>3 DEF Rewritten
<1> QED
  BY <1>2, <1>3, <1>4

(* An attempt is appended for a request that has a record and no attempt.   *)
LEMMA AppendKeepsFiles ==
    ASSUME TypeOK, FilesOK, UNCHANGED ledger, NEW r \in Runs, NEW a \in Attempt,
           attempts' = [attempts EXCEPT ![r] = Append(attempts[r], a)],
           ledger[r][a.request].state # "absent",
           \A i \in 1 .. Len(attempts[r]) : attempts[r][i].request # a.request
    PROVE  FilesOK'
<1>1. PICK made : made = Append(attempts[r], a)
  OBVIOUS
<1>2. PICK n : n = Len(attempts[r])
  OBVIOUS
<1>3. /\ n \in Nat /\ Len(made) = n + 1 /\ made[n + 1] = a
      /\ \A i \in 1 .. n : made[i] = attempts[r][i]
  BY <1>1, <1>2, AppendProperties DEF TypeOK
<1>4. attempts'[r] = made /\ \A s \in Runs \ {r} : attempts'[s] = attempts[s]
  BY <1>1 DEF TypeOK
<1>5. ASSUME NEW s \in Runs, NEW i \in 1 .. Len(attempts'[s])
      PROVE  ledger[s][attempts'[s][i].request].state # "absent"
  <2>1. CASE s # r
    BY <1>4, <1>5, <2>1 DEF FilesOK
  <2>2. CASE s = r /\ i = n + 1
    BY <1>3, <1>4, <2>2
  <2>3. CASE s = r /\ i \in 1 .. n
    BY <1>2, <1>3, <1>4, <2>3 DEF FilesOK
  <2> QED
    BY <1>3, <1>4, <1>5, <2>1, <2>2, <2>3
<1>6. OneAttemptPerRequest'
  <2> SUFFICES ASSUME NEW s \in Runs, NEW i \in 1 .. Len(attempts'[s]),
                      NEW j \in 1 .. Len(attempts'[s]),
                      attempts'[s][i].request = attempts'[s][j].request
               PROVE  i = j
    BY DEF OneAttemptPerRequest
  <2>1. CASE s # r
    BY <1>4, <2>1 DEF FilesOK, OneAttemptPerRequest
  <2>2. CASE s = r /\ i \in 1 .. n /\ j \in 1 .. n
    BY <1>2, <1>3, <1>4, <2>2 DEF FilesOK, OneAttemptPerRequest
  <2>3. CASE s = r /\ (i = n + 1 \/ j = n + 1)
    BY <1>2, <1>3, <1>4, <2>3
  <2> QED
    BY <1>3, <1>4, <2>1, <2>2, <2>3
<1>7. ASSUME NEW s \in Runs
      PROVE  /\ Len(attempts[s]) \in Nat /\ Len(attempts'[s]) \in Nat
             /\ Len(attempts'[s]) >= Len(attempts[s])
             /\ \A i \in 1 .. Len(attempts[s]) : attempts'[s][i] = attempts[s][i]
  <2>1. CASE s # r
    BY <1>4, <2>1 DEF TypeOK
  <2>2. CASE s = r
    BY <1>2, <1>3, <1>4, <2>2
  <2> QED
    BY <2>1, <2>2
<1>8. \A s \in Runs, q \in Requests : ledger[s][q].attempt \in Nat
  BY DEF TypeOK, Record
<1>9. \A s \in Runs, q \in Requests :
        ledger[s][q].exit \in {0, 1} => ledger[s][q].attempt <= Len(attempts'[s])
  BY <1>7, <1>8 DEF FilesOK
<1>10. CompletedNamesOwnAttempt'
  <2>1. ASSUME NEW s \in Runs, NEW q \in Requests, ledger'[s][q].state = "completed"
        PROVE  /\ ledger'[s][q].attempt \in 1 .. Len(attempts'[s])
               /\ attempts'[s][ledger'[s][q].attempt].request = q
               /\ attempts'[s][ledger'[s][q].attempt].invocation = ledger'[s][q].invocation
               /\ attempts'[s][ledger'[s][q].attempt].completed
    <3>1. PICK k : k = ledger'[s][q].attempt
      OBVIOUS
    <3>2. ledger'[s][q] = ledger[s][q]
      OBVIOUS
    <3>3. /\ k \in 1 .. Len(attempts[s])
          /\ attempts[s][k].request = q
          /\ attempts[s][k].invocation = ledger[s][q].invocation
      BY <2>1, <3>1, <3>2 DEF FilesOK, CompletedNamesOwnAttempt
    <3>4. attempts[s][k].completed
      BY <2>1, <3>1, <3>2 DEF FilesOK, CompletedNamesOwnAttempt
    <3>5. attempts'[s][k] = attempts[s][k]
      BY <1>7, <3>3
    <3>6. k \in 1 .. Len(attempts'[s])
      BY <1>7, <3>3
    <3> QED
      BY <3>1, <3>2, <3>3, <3>4, <3>5, <3>6, Zenon
  <2> QED
    BY <2>1 DEF CompletedNamesOwnAttempt
<1>11. NoVerdictOverLostAttempt'
  <2> SUFFICES ASSUME NEW s \in Runs, NEW q \in Requests, ledger[s][q].exit \in {0, 1},
                      NEW i \in 1 .. ledger[s][q].attempt
               PROVE  attempts'[s][i].receipt # "none"
    BY DEF NoVerdictOverLostAttempt
  <2>1. i \in 1 .. Len(attempts[s]) /\ attempts[s][i].receipt # "none"
    BY <1>7, <1>8 DEF FilesOK, NoVerdictOverLostAttempt
  <2>2. attempts'[s][i] = attempts[s][i]
    BY <1>7, <2>1
  <2> QED
    BY <2>1, <2>2
<1> QED
  BY <1>5, <1>6, <1>9, <1>10, <1>11 DEF FilesOK

(* A caller whose own variables and whose files did not change keeps its    *)
(* claim.                                                                   *)
LEMMA Untouched ==
    ASSUME UNCHANGED <<ledger, attempts>>, NEW d \in Callers, Claim(d),
           pc'[d] = pc[d], call'[d] = call[d], work'[d] = work[d]
    PROVE  Claim(d)'
BY DEF Claim, MayFinish, RecordOf, Backed

(* While a caller holds the lock nobody else has a claim to keep. *)
LEMMA HolderKeepsClaims ==
    ASSUME TypeInv, NEW c \in Callers, pc[c] \in Critical, Claim(c)',
           \A d \in Callers \ {c} : pc'[d] = pc[d]
    PROVE  ClaimsOK'
<1>1. \A d \in Callers \ {c} : pc'[d] \notin Critical
  BY Alone DEF TypeInv
<1>2. \A d \in Callers \ {c} : Claim(d)'
  BY <1>1 DEF Claim, Critical, Reserved, Steps
<1> QED
  BY <1>2 DEF ClaimsOK

(* A caller that leaves execute() has no claim, and nobody else is touched. *)
LEMMA LeaveKeepsClaims ==
    ASSUME TypeInv, ClaimsOK, NEW c \in Callers, pc[c] # "idle",
           NEW kind \in {"busy", "refused", "cached", "done", "lost"},
           NEW code \in ExitCodes, Leave(c, kind, code),
           UNCHANGED attempts, UNCHANGED ledger \/ pc[c] \in Critical
    PROVE  ClaimsOK'
<1>1. \A d \in Callers \ {c} : pc'[d] = pc[d] /\ call'[d] = call[d] /\ work'[d] = work[d]
  BY LeaveType
<1>2. pc'[c] = "idle"
  BY DEF Leave, Goto, TypeInv, TypeOK
<1>3. Claim(c)'
  BY <1>2 DEF Claim, Reserved
<1>4. CASE pc[c] \in Critical
  BY <1>1, <1>3, <1>4, HolderKeepsClaims
<1>5. CASE UNCHANGED ledger
  BY <1>1, <1>3, <1>5, Untouched DEF ClaimsOK
<1> QED
  BY <1>4, <1>5

(* The last attempt of its run belongs to the caller that is executing. *)
LEMMA LastAttempt ==
    ASSUME TypeInv, NEW c \in Callers, pc[c] \in {"executing", "executed"}
    PROVE  LET made == attempts[call[c].run] IN
             /\ call[c] \in Call /\ made \in Seq(Attempt)
             /\ Len(made) \in 1 .. Len(made)
             /\ made[Len(made)] \in Attempt
             /\ made[Len(made)].request = call[c].request
             /\ made[Len(made)].invocation = call[c].id
<1>1. /\ call[c] \in Call /\ attempts[call[c].run] \in Seq(Attempt)
      /\ attempts[call[c].run] # <<>>
  BY DEF TypeInv, TypeOK, CallersOK, Call
<1>2. Len(attempts[call[c].run]) \in 1 .. Len(attempts[call[c].run])
  BY <1>1, EmptySeq
<1> QED
  BY <1>1, <1>2 DEF TypeInv, CallersOK

(* Leaving the files alone keeps them in order. *)
LEMMA FilesUntouched == FilesOK /\ UNCHANGED <<ledger, attempts>> => FilesOK'
BY DEF FilesOK, OneAttemptPerRequest, CompletedNamesOwnAttempt, NoVerdictOverLostAttempt

LEMMA SafetyNext == IInv /\ [Next]_vars => IInv'
<1> SUFFICES ASSUME IInv, [Next]_vars PROVE FilesOK' /\ ClaimsOK'
  BY TypeNext DEF IInv
<1>0. TypeInv /\ TypeOK /\ FilesOK /\ ClaimsOK /\ TypeInv'
  BY TypeNext DEF IInv, TypeInv
<1> USE LedgerAssumption DEF Goto, Stay, disk
<1>1. ASSUME NEW c \in Callers, Invoke(c) \/ Acquire(c) PROVE FilesOK' /\ ClaimsOK'
  <2>1. /\ UNCHANGED <<ledger, attempts, work>> /\ pc'[c] \notin Reserved
        /\ \A d \in Callers \ {c} : pc'[d] = pc[d] /\ call'[d] = call[d]
    BY <1>0, <1>1 DEF Invoke, Acquire, TypeOK, Reserved
  <2>2. Claim(c)'
    BY <2>1 DEF Claim, Reserved
  <2> QED
    BY <1>0, <2>1, <2>2, Untouched, FilesUntouched DEF ClaimsOK
<1>2. ASSUME NEW c \in Callers, Busy(c) \/ Refuse(c) \/ AnswerCached(c) \/ Report(c)
      PROVE  FilesOK' /\ ClaimsOK'
  <2>1. UNCHANGED <<ledger, attempts>> /\ pc[c] # "idle"
    BY <1>2 DEF Busy, Refuse, AnswerCached, Report
  <2>2. work[c].code \in ExitCodes
    BY <1>0 DEF TypeOK, Work
  <2>3. \E kind \in {"busy", "refused", "cached", "done", "lost"}, code \in ExitCodes :
          Leave(c, kind, code)
    BY <1>2, <2>2 DEF Busy, Refuse, AnswerCached, Report, ExitCodes
  <2> QED
    BY <1>0, <2>1, <2>3, LeaveKeepsClaims, FilesUntouched
<1>3. ASSUME NEW c \in Callers, Die(c) PROVE FilesOK' /\ ClaimsOK'
  <2>1. /\ Leave(c, "lost", 2) /\ pc[c] # "idle" /\ UNCHANGED attempts
        /\ call[c].run \in Runs /\ call[c].request \in Requests
    BY <1>0, <1>3 DEF Die, TypeInv, CallersOK, Call
  <2>2. CASE UNCHANGED ledger
    BY <1>0, <2>1, <2>2, LeaveKeepsClaims, FilesUntouched DEF ExitCodes
  <2>3. CASE /\ pc[c] \in {"locked", "finishing"}
             /\ ledger' = [ledger EXCEPT ![call[c].run][call[c].request] = NoRecord("torn")]
    <3>1. /\ NoRecord("torn") \in Record /\ NoRecord("torn").state = "torn"
          /\ NoRecord("torn").exit = None
      BY DEF NoRecord, Record, States, Parents
    <3>2. FilesOK'
      BY <1>0, <2>1, <2>3, <3>1, WriteKeepsFiles
    <3>3. ClaimsOK'
      BY <1>0, <2>1, <2>3, LeaveKeepsClaims DEF ExitCodes, Critical, Steps
    <3> QED
      BY <3>2, <3>3
  <2> QED
    BY <1>3, <2>2, <2>3 DEF Die
<1>4. ASSUME NEW c \in Callers, Reserve(c) PROVE FilesOK' /\ ClaimsOK'
  <2>1. /\ call[c] \in Call /\ pc[c] \in Critical /\ UNCHANGED <<attempts, call>>
        /\ pc' = [pc EXCEPT ![c] = "reserved"]
    BY <1>0, <1>4 DEF Reserve, TypeInv, CallersOK, Critical, Steps
  <2>2. PICK parent \in Parents, reason \in BOOLEAN :
          /\ MayReserve(c, parent, reason)
          /\ ledger' = [ledger EXCEPT ![call[c].run][call[c].request] =
                          [NoRecord("running") EXCEPT !.value = call[c].value,
                               !.invocation = call[c].id, !.parent = parent]]
    BY <1>4 DEF Reserve
  <2> DEFINE rec == [NoRecord("running") EXCEPT !.value = call[c].value,
                               !.invocation = call[c].id, !.parent = parent]
  <2>3. /\ rec \in Record /\ rec.state = "running" /\ rec.exit = None
        /\ rec.value = call[c].value /\ rec.invocation = call[c].id
    BY <2>1 DEF NoRecord, Record, States, Call
  <2> HIDE DEF rec
  <2>4. call[c].run \in Runs /\ call[c].request \in Requests
    BY <2>1 DEF Call
  <2>5. FilesOK'
    BY <1>0, <2>1, <2>2, <2>3, <2>4, WriteKeepsFiles DEF rec
  <2>10. ledger' = [ledger EXCEPT ![call[c].run][call[c].request] = rec]
    BY <2>2 DEF rec
  <2>6. ledger'[call[c].run][call[c].request] = rec
    BY <1>0, <2>4, <2>10 DEF TypeOK
  <2>7. MayFinish(c)'
    BY <2>1, <2>3, <2>6 DEF MayFinish, RecordOf
  <2>8. \A i \in 1 .. Len(attempts[call[c].run]) :
          attempts[call[c].run][i].request # call[c].request
    BY <1>0, <2>2, <2>4 DEF FilesOK, MayReserve, RecordOf
  <2>9. Claim(c)'
    BY <1>0, <2>1, <2>7, <2>8 DEF Claim, TypeOK
  <2> QED
    BY <1>0, <2>1, <2>5, <2>9, HolderKeepsClaims DEF TypeOK
<1>5. ASSUME NEW c \in Callers, Replay(c) \/ NoteInvocation(c) \/ RejectPreflight(c) \/ Raise(c)
      PROVE  FilesOK' /\ ClaimsOK'
  <2>1. /\ UNCHANGED <<ledger, attempts, call>> /\ pc[c] \in Critical
        /\ \A d \in Callers \ {c} : pc'[d] = pc[d]
    BY <1>0, <1>5 DEF Replay, NoteInvocation, RejectPreflight, Raise, Critical, Steps, TypeOK
  <2>2. \/ pc'[c] \notin Reserved
        \/ pc[c] = "reserved" /\ pc'[c] = "ready"
        \/ /\ pc[c] \in Reserved /\ pc'[c] = "finishing"
           /\ work'[c].state \in {"rejected", "interrupted"} /\ work'[c].code = 2
    BY <1>0, <1>5 DEF Replay, NoteInvocation, RejectPreflight, Raise, Conclude, Reserved, TypeOK
  <2>3. Claim(c)'
    BY <1>0, <2>1, <2>2 DEF ClaimsOK, Claim, MayFinish, RecordOf, Backed, Reserved
  <2> QED
    BY <1>0, <2>1, <2>3, HolderKeepsClaims, FilesUntouched
<1>6. ASSUME NEW c \in Callers, BlockBaseline(c) PROVE FilesOK' /\ ClaimsOK'
  <2>1. /\ UNCHANGED <<ledger, attempts, call>> /\ pc[c] = "executed" /\ pc'[c] = "finishing"
        /\ \A d \in Callers \ {c} : pc'[d] = pc[d]
    BY <1>0, <1>6 DEF BlockBaseline, TypeOK
  <2>2. /\ attempts[call[c].run] \in Seq(Attempt)
        /\ Len(attempts[call[c].run]) \in 1 .. Len(attempts[call[c].run])
        /\ attempts[call[c].run][Len(attempts[call[c].run])].request = call[c].request
        /\ attempts[call[c].run][Len(attempts[call[c].run])].invocation = call[c].id
    BY <1>0, <2>1, LastAttempt
  <2>3. Backed(c)'
    BY <1>0, <1>6, <2>1, <2>2 DEF BlockBaseline, Conclude, Backed, TypeOK
  <2>4. Claim(c)'
    BY <1>0, <2>1, <2>3 DEF ClaimsOK, Claim, MayFinish, RecordOf, Reserved
  <2> QED
    BY <1>0, <2>1, <2>4, HolderKeepsClaims, FilesUntouched DEF Critical, Steps
<1>7. ASSUME NEW c \in Callers, Launch(c) PROVE FilesOK' /\ ClaimsOK'
  <2> DEFINE a == [request |-> call[c].request, invocation |-> call[c].id,
                   completed |-> FALSE, receipt |-> "none", verdict |-> "invalid"]
  <2>1. /\ UNCHANGED <<ledger, call>> /\ pc[c] = "ready" /\ pc'[c] = "executing"
        /\ \A d \in Callers \ {c} : pc'[d] = pc[d]
        /\ call[c] \in Call /\ call[c].run \in Runs /\ call[c].request \in Requests
    BY <1>0, <1>7 DEF Launch, TypeInv, TypeOK, CallersOK, Call
  <2>2. /\ \A i \in 1 .. Len(attempts[call[c].run]) :
             attempts[call[c].run][i].request # call[c].request
        /\ ledger[call[c].run][call[c].request].state = "running"
    BY <1>0, <2>1 DEF ClaimsOK, Claim, Reserved, MayFinish, RecordOf
  <2>3. a \in Attempt /\ a.request = call[c].request
    BY <2>1 DEF Attempt, Call, Verdicts
  <2>4. attempts' = [attempts EXCEPT ![call[c].run] = Append(attempts[call[c].run], a)]
    BY <1>7 DEF Launch
  <2> HIDE DEF a
  <2>5. FilesOK'
    BY <1>0, <2>1, <2>2, <2>3, <2>4, AppendKeepsFiles
  <2>6. Claim(c)'
    BY <1>0, <2>1 DEF ClaimsOK, Claim, MayFinish, RecordOf, Reserved
  <2> QED
    BY <1>0, <2>1, <2>5, <2>6, HolderKeepsClaims DEF Critical, Steps
<1>8. ASSUME NEW c \in Callers, RunSuite(c) PROVE FilesOK' /\ ClaimsOK'
  <2>1. /\ UNCHANGED <<ledger, call>> /\ pc[c] = "executing" /\ pc'[c] = "executed"
        /\ \A d \in Callers \ {c} : pc'[d] = pc[d]
    BY <1>0, <1>8 DEF RunSuite, TypeOK
  <2>2. PICK r, n : r = call[c].run /\ n = Len(attempts[r])
    OBVIOUS
  <2>3. /\ r \in Runs /\ n \in 1 .. Len(attempts[r]) /\ attempts[r][n] \in Attempt
        /\ attempts[r][n].request = call[c].request
    BY <1>0, <2>1, <2>2, LastAttempt DEF Call
  <2>4. PICK done \in BOOLEAN, verdict \in Verdicts :
          attempts' = [attempts EXCEPT ![r][n] =
                         [@ EXCEPT !.completed = done, !.verdict = verdict]]
    BY <1>8, <2>2 DEF RunSuite
  <2>5. PICK a : a = [attempts[r][n] EXCEPT !.completed = done, !.verdict = verdict]
    OBVIOUS
  <2>6. /\ a \in Attempt /\ a.request = attempts[r][n].request
        /\ a.invocation = attempts[r][n].invocation /\ a.receipt = attempts[r][n].receipt
    BY <2>3, <2>5 DEF Attempt
  <2>7. PICK made : made = [attempts[r] EXCEPT ![n] = a]
    OBVIOUS
  <2>8. /\ Rewritten(made, r)
        /\ \A j \in 1 .. Len(made) : j # n => made[j] = attempts[r][j]
    BY <1>0, <2>3, <2>6, <2>7, RewriteOne
  <2>9. attempts' = [attempts EXCEPT ![r] = made]
    BY <1>0, <2>3, <2>4, <2>5, <2>7 DEF TypeOK
  <2>10. MayFinish(c)
    BY <1>0, <2>1 DEF ClaimsOK, Claim, Reserved
  <2>11. \A j \in 1 .. Len(made) :
           made[j].completed = attempts[r][j].completed
             \/ ledger[r][attempts[r][j].request].state # "completed"
    BY <2>2, <2>3, <2>8, <2>10 DEF MayFinish, RecordOf
  <2>12. FilesOK'
    BY <1>0, <2>1, <2>3, <2>8, <2>9, <2>11, RewriteKeepsFiles
  <2>13. Claim(c)'
    BY <2>1, <2>10 DEF Claim, MayFinish, RecordOf
  <2> QED
    BY <1>0, <2>1, <2>12, <2>13, HolderKeepsClaims DEF Critical, Steps
<1>9. ASSUME NEW c \in Callers, Seal(c) PROVE FilesOK' /\ ClaimsOK'
  <2>1. /\ UNCHANGED <<ledger, call>> /\ pc[c] = "executed" /\ pc'[c] = "finishing"
        /\ \A d \in Callers \ {c} : pc'[d] = pc[d]
    BY <1>0, <1>9 DEF Seal, TypeOK
  <2>2. PICK r, n : r = call[c].run /\ n = Len(attempts[r])
    OBVIOUS
  <2>3. /\ r \in Runs /\ n \in 1 .. Len(attempts[r]) /\ attempts[r][n] \in Attempt
        /\ attempts[r][n].request = call[c].request
        /\ attempts[r][n].invocation = call[c].id
    BY <1>0, <2>1, <2>2, LastAttempt DEF Call
  <2>4. PICK a : a = [attempts[r][n] EXCEPT !.receipt = "valid"]
    OBVIOUS
  <2>5. /\ a \in Attempt /\ a.request = attempts[r][n].request /\ a.receipt = "valid"
        /\ a.invocation = attempts[r][n].invocation
        /\ a.completed = attempts[r][n].completed
    BY <2>3, <2>4 DEF Attempt
  <2>6. PICK made : made = [attempts[r] EXCEPT ![n] = a]
    OBVIOUS
  <2>7. /\ Rewritten(made, r) /\ made[n] = a
        /\ \A j \in 1 .. Len(made) : j # n => made[j] = attempts[r][j]
    BY <1>0, <2>3, <2>5, <2>6, RewriteOne
  <2>8. made = [attempts[r] EXCEPT ![n].receipt = "valid"]
    BY <2>4, <2>6
  <2>9. /\ attempts' = [attempts EXCEPT ![r] = made]
        /\ Conclude(c, IF attempts[r][n].completed THEN "completed" ELSE "interrupted",
                    IF Sound(r, made) THEN ExitOf(attempts[r][n].verdict) ELSE 2, n)
    BY <1>9, <2>2, <2>8 DEF Seal
  <2>10. attempts'[r] = made
    BY <1>0, <2>3, <2>9 DEF TypeOK
  <2>11. FilesOK'
    BY <1>0, <2>1, <2>3, <2>5, <2>7, <2>9, RewriteKeepsFiles
  <2>12. /\ work'[c].attempt = n
         /\ work'[c].state = "completed" => attempts[r][n].completed
         /\ work'[c].code \in {0, 1} => \A i \in 1 .. Len(made) : made[i].receipt = "valid"
    BY <1>0, <2>9 DEF Conclude, Sound, TypeOK
  <2>13. Backed(c)'
    BY <2>1, <2>2, <2>3, <2>5, <2>7, <2>10, <2>12 DEF Backed, Rewritten
  <2>14. Claim(c)'
    BY <1>0, <2>1, <2>13 DEF ClaimsOK, Claim, MayFinish, RecordOf, Reserved
  <2> QED
    BY <1>0, <2>1, <2>11, <2>14, HolderKeepsClaims DEF Critical, Steps
<1>10. ASSUME NEW c \in Callers, Finish(c) PROVE FilesOK' /\ ClaimsOK'
  <2> DEFINE rec == [RecordOf(c) EXCEPT !.state = work[c].state, !.exit = work[c].code,
                                        !.attempt = work[c].attempt]
  <2>1. /\ UNCHANGED <<attempts, call, work>> /\ pc[c] = "finishing" /\ pc'[c] = "finished"
        /\ \A d \in Callers \ {c} : pc'[d] = pc[d]
        /\ call[c].run \in Runs /\ call[c].request \in Requests /\ work[c] \in Work
        /\ work[c].state \in Terminal /\ RecordOf(c) \in Record
    BY <1>0, <1>10 DEF Finish, TypeInv, TypeOK, CallersOK, OutcomesOK, Call, RecordOf
  <2>2. /\ rec \in Record /\ rec.state = work[c].state /\ rec.exit = work[c].code
        /\ rec.attempt = work[c].attempt /\ rec.invocation = RecordOf(c).invocation
    BY <2>1 DEF Record, States, Work, Terminal
  <2>3. ledger' = [ledger EXCEPT ![call[c].run][call[c].request] = rec]
    BY <1>0, <1>10, <2>1 DEF Finish, RecordOf, TypeOK
  <2> HIDE DEF rec
  <2>4. Backed(c) /\ RecordOf(c).invocation = call[c].id
    BY <1>0, <1>10, <2>1 DEF ClaimsOK, Claim, Finish, MayFinish
  <2>5. FilesOK'
    <3>1. rec.state # "absent"
      BY <2>1, <2>2 DEF Terminal
    <3>2. rec.state = "completed" =>
            /\ rec.attempt \in 1 .. Len(attempts[call[c].run])
            /\ attempts[call[c].run][rec.attempt].request = call[c].request
            /\ attempts[call[c].run][rec.attempt].invocation = rec.invocation
            /\ attempts[call[c].run][rec.attempt].completed
      BY <2>2, <2>4, Zenon DEF Backed
    <3>3. rec.exit \in {0, 1} =>
            /\ rec.attempt <= Len(attempts[call[c].run])
            /\ \A i \in 1 .. rec.attempt : attempts[call[c].run][i].receipt # "none"
      BY <2>2, <2>4 DEF Backed
    <3> QED
      BY <1>0, <2>1, <2>2, <2>3, <3>1, <3>2, <3>3, WriteKeepsFiles
  <2>6. Claim(c)'
    BY <2>1 DEF Claim, Reserved
  <2> QED
    BY <1>0, <2>1, <2>5, <2>6, HolderKeepsClaims DEF Critical, Steps
<1>11. ASSUME NEW r \in Runs, EditInputs(r) PROVE FilesOK' /\ ClaimsOK'
  BY <1>0, <1>11, FilesUntouched, Untouched DEF EditInputs, ClaimsOK
<1>12. ASSUME NEW r \in Runs, AlterEvidence(r) PROVE FilesOK' /\ ClaimsOK'
  <2>1. PICK i \in 1 .. Len(attempts[r]) : attempts' = [attempts EXCEPT ![r][i].receipt = "changed"]
    BY <1>12 DEF AlterEvidence
  <2>2. UNCHANGED <<pc, call, work, ledger>>
    BY <1>12 DEF AlterEvidence
  <2>3. PICK a : a = [attempts[r][i] EXCEPT !.receipt = "changed"]
    OBVIOUS
  <2>4. attempts[r] \in Seq(Attempt) /\ attempts[r][i] \in Attempt
    BY <1>0, <2>1 DEF TypeOK
  <2>5. /\ a \in Attempt /\ a.request = attempts[r][i].request
        /\ a.invocation = attempts[r][i].invocation /\ a.receipt = "changed"
        /\ a.completed = attempts[r][i].completed
    BY <2>3, <2>4 DEF Attempt
  <2>6. PICK made : made = [attempts[r] EXCEPT ![i] = a]
    OBVIOUS
  <2>7. /\ Rewritten(made, r) /\ made[i] = a
        /\ \A j \in 1 .. Len(made) : j # i => made[j] = attempts[r][j]
    BY <1>0, <2>5, <2>6, RewriteOne
  <2>8. attempts' = [attempts EXCEPT ![r] = made]
    BY <1>0, <2>1, <2>3, <2>6 DEF TypeOK
  <2>9. \A j \in 1 .. Len(made) : made[j].completed = attempts[r][j].completed
    BY <2>5, <2>7
  <2>10. FilesOK'
    BY <1>0, <2>2, <2>7, <2>8, <2>9, RewriteKeepsFiles
  <2>11. ASSUME NEW d \in Callers, pc[d] \in Reserved PROVE Claim(d)'
    <3>1. call[d].run \in Runs /\ work[d] \in Work
      BY <1>0, <2>11 DEF TypeInv, TypeOK, CallersOK, Call, Reserved
    <3>2. /\ Len(attempts'[call[d].run]) = Len(attempts[call[d].run])
          /\ \A j \in 1 .. Len(attempts[call[d].run]) :
               /\ attempts'[call[d].run][j].request = attempts[call[d].run][j].request
               /\ attempts'[call[d].run][j].invocation = attempts[call[d].run][j].invocation
               /\ attempts'[call[d].run][j].completed = attempts[call[d].run][j].completed
               /\ attempts[call[d].run][j].receipt # "none" =>
                    attempts'[call[d].run][j].receipt # "none"
      BY <1>0, <2>7, <2>8, <2>9, <3>1 DEF Rewritten, TypeOK
    <3>3. Claim(d)
      BY <1>0 DEF ClaimsOK
    <3>4. MayFinish(d)'
      BY <2>2, <2>11, <3>3 DEF Claim, MayFinish, RecordOf
    <3>5. ASSUME pc[d] = "finishing" PROVE Backed(d)'
      <4>1. Backed(d)
        BY <3>3, <3>5 DEF Claim
      <4>2. work[d].state = "completed" =>
              /\ work[d].attempt \in 1 .. Len(attempts'[call[d].run])
              /\ attempts'[call[d].run][work[d].attempt].request = call[d].request
              /\ attempts'[call[d].run][work[d].attempt].invocation = call[d].id
              /\ attempts'[call[d].run][work[d].attempt].completed
        BY <3>2, <4>1 DEF Backed
      <4>3. Len(attempts[call[d].run]) \in Nat
        BY <1>0, <3>1 DEF TypeOK
      <4>4. work[d].code \in {0, 1} =>
              /\ work[d].attempt <= Len(attempts'[call[d].run])
              /\ \A j \in 1 .. work[d].attempt : attempts'[call[d].run][j].receipt # "none"
        BY <3>1, <3>2, <4>1, <4>3 DEF Backed, Work
      <4> QED
        BY <2>2, <4>2, <4>4 DEF Backed
    <3>6. pc[d] \in {"reserved", "ready"} =>
            \A j \in 1 .. Len(attempts'[call[d].run]) :
              attempts'[call[d].run][j].request # call[d].request
      BY <3>2, <3>3 DEF Claim
    <3> QED
      BY <2>2, <3>4, <3>5, <3>6 DEF Claim
  <2>12. ClaimsOK'
    BY <2>2, <2>11 DEF ClaimsOK, Claim, Reserved
  <2> QED
    BY <2>10, <2>12
<1>13. CASE UNCHANGED vars
  BY <1>0, <1>13, FilesUntouched, Untouched DEF vars, ClaimsOK
<1> QED
  BY <1>1, <1>2, <1>3, <1>4, <1>5, <1>6, <1>7, <1>8, <1>9, <1>10, <1>11, <1>12, <1>13
     DEF Next, Execute

(* The inductive invariant holds in every behaviour. *)
LEMMA Inductive == Spec => []IInv
BY SafetyInit, SafetyNext, PTL DEF Spec

(* At most one attempt per logical request, for any number of callers, runs *)
(* and requests, whoever is killed at whatever point (execute()).           *)
THEOREM AttemptsAreUnique == Spec => []OneAttemptPerRequest
<1>1. IInv => OneAttemptPerRequest
  BY DEF IInv, FilesOK
<1> QED
  BY Inductive, <1>1, PTL

(* A completed record names the completed attempt of its own request and    *)
(* invocation (finish() after _execute_once()).                             *)
THEOREM RecordsNameTheirAttempt == Spec => []CompletedNamesOwnAttempt
<1>1. IInv => CompletedNamesOwnAttempt
  BY DEF IInv, FilesOK
<1> QED
  BY Inductive, <1>1, PTL

(* A recorded 0 or 1 stands over attempts that were all sealed (finalise()  *)
(* checks the receipt of every attempt of the run).                         *)
THEOREM LostAttemptsStayVisible == Spec => []NoVerdictOverLostAttempt
<1>1. IInv => NoVerdictOverLostAttempt
  BY DEF IInv, FilesOK
<1> QED
  BY Inductive, <1>1, PTL

(* One step never touches a record that is decided or unreadable. *)
LEMMA FinalStep ==
    ASSUME TypeInv, [Next]_vars, NEW r \in Runs, NEW q \in Requests,
           ledger[r][q].state \in Terminal \cup {"torn"}
    PROVE  ledger'[r][q] = ledger[r][q]
<1>1. ASSUME NEW c \in Callers, Reserve(c) \/ Finish(c) \/ Die(c)
      PROVE  ledger'[r][q] = ledger[r][q]
  <2>1. CASE UNCHANGED ledger
    BY <2>1
  <2>2. CASE /\ RecordOf(c).state \in {"absent", "running"}
             /\ \E rec : ledger' = [ledger EXCEPT ![call[c].run][call[c].request] = rec]
    BY <2>2 DEF RecordOf, Terminal, TypeInv, TypeOK
  <2> QED
    BY <1>1, <2>1, <2>2 DEF Reserve, Finish, Die, MayReserve, MayFinish
<1>2. \/ \E c \in Callers : Reserve(c) \/ Finish(c) \/ Die(c)
      \/ UNCHANGED ledger
  BY DEF Next, Execute, vars, disk, Invoke, Acquire, Busy, Replay, Refuse, NoteInvocation,
     AnswerCached, RejectPreflight, Launch, RunSuite, Seal, BlockBaseline, Raise, Report,
     EditInputs, AlterEvidence
<1> QED
  BY <1>1, <1>2

(* What is decided or unreadable is never written again, in no behaviour    *)
(* and by no caller (reserve(), finish()).                                  *)
THEOREM RecordsAreFinal == Spec => DecisionsAreFinal
<1>1. TypeInv /\ [Next]_vars =>
        [\A r \in Runs, q \in Requests :
           ledger[r][q].state \in Terminal \cup {"torn"} => ledger'[r][q] = ledger[r][q]]_vars
  BY FinalStep
<1> QED
  BY TypeInit, TypeNext, <1>1, PTL DEF Spec, DecisionsAreFinal
=============================================================================
