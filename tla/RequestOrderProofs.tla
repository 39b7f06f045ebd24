------------------------ MODULE RequestOrderProofs -------------------------
(***************************************************************************)
(* What the requests of a ledger owe to each other and to those who call:  *)
(* links lead to decided requests, no attempt is made beside an uncertain  *)
(* one, a cached answer is backed, and the ledger implements               *)
(* RequestPromise.                                                         *)
(***************************************************************************)
EXTENDS RequestLedgerProofs

(* Only these steps write a record. *)
LEMMA Writers ==
    ASSUME TypeInv, [Next]_vars
    PROVE  \/ \E c \in Callers : Reserve(c) \/ Finish(c) \/ Die(c)
           \/ UNCHANGED ledger
BY DEF Next, Execute, vars, disk, Stay, Invoke, Acquire, Busy, Replay, Refuse, NoteInvocation,
   AnswerCached, RejectPreflight, Launch, RunSuite, Seal, BlockBaseline, Raise, Report,
   EditInputs, AlterEvidence

(* A parent that is decided stays so. *)
LEMMA ParentStays ==
    ASSUME TypeInv, [Next]_vars, NEW p \in Parents, ParentResolves(p)
    PROVE  ParentResolves(p)'
<1>1. CASE p = None
  BY <1>1 DEF ParentResolves
<1>2. ASSUME NEW r \in Runs, NEW q \in Requests, p = <<r, q>>, p # None
      PROVE  ParentResolves(p)'
  <2>1. ledger[r][q].state \in Terminal
    BY <1>2 DEF ParentResolves
  <2>2. ledger'[r][q] = ledger[r][q]
    BY <2>1, FinalStep
  <2> QED
    BY <1>2, <2>1, <2>2 DEF ParentResolves
<1> QED
  BY <1>1, <1>2 DEF Parents

(* The property in terms of the test reserve() makes. *)
LEMMA ParentsResolve ==
    ParentIsDecided <=> \A r \in Runs, q \in Requests : ParentResolves(ledger[r][q].parent)
BY DEF ParentIsDecided, ParentResolves

LEMMA ParentNext == TypeInv /\ ParentIsDecided /\ [Next]_vars => ParentIsDecided'
<1> SUFFICES ASSUME TypeInv, ParentIsDecided, [Next]_vars, NEW r \in Runs, NEW q \in Requests
             PROVE  ParentResolves(ledger[r][q].parent)'
  BY DEF ParentIsDecided, ParentResolves
<1> DEFINE new == ledger'[r][q].parent
<1>1. ParentResolves(ledger[r][q].parent) /\ ledger[r][q].parent \in Parents
  BY ParentsResolve DEF TypeInv, TypeOK, Record
<1>2. None \in Parents /\ ParentResolves(None)
  BY DEF Parents, ParentResolves
<1>3. \/ new = ledger[r][q].parent \/ new = None
      \/ new \in Parents /\ ParentResolves(new)
  <2>1. ASSUME NEW c \in Callers, Reserve(c)
        PROVE  new = ledger[r][q].parent \/ (new \in Parents /\ ParentResolves(new))
    <3>1. PICK rec :
            /\ rec.parent \in Parents /\ ParentResolves(rec.parent)
            /\ ledger' = [ledger EXCEPT ![call[c].run][call[c].request] = rec]
      BY <2>1 DEF Reserve, MayReserve, NoRecord
    <3>2. CASE r = call[c].run /\ q = call[c].request
      BY <3>1, <3>2 DEF TypeInv, TypeOK
    <3>3. CASE r # call[c].run \/ q # call[c].request
      BY <3>1, <3>3 DEF TypeInv, TypeOK
    <3> QED
      BY <3>2, <3>3
  <2>2. ASSUME NEW c \in Callers, Finish(c) PROVE new = ledger[r][q].parent
    <3>1. call[c].run \in Runs /\ call[c].request \in Requests
      BY <2>2 DEF Finish, TypeInv, CallersOK, Call
    <3>2. PICK old : old = ledger[call[c].run][call[c].request]
      OBVIOUS
    <3>3. PICK rec :
            /\ rec = [old EXCEPT !.state = work[c].state, !.exit = work[c].code,
                                 !.attempt = work[c].attempt]
            /\ ledger' = [ledger EXCEPT ![call[c].run][call[c].request] = rec]
      BY <2>2, <3>2 DEF Finish
    <3>4. old \in Record
      BY <3>1, <3>2 DEF TypeInv, TypeOK
    <3>5. rec.parent = old.parent
      BY <3>3, <3>4 DEF Record
    <3>6. /\ ledger'[call[c].run][call[c].request] = rec
          /\ \A s \in Runs, p \in Requests :
               s # call[c].run \/ p # call[c].request => ledger'[s][p] = ledger[s][p]
      <4>1. TypeOK /\ ledger' = [ledger EXCEPT ![call[c].run][call[c].request] = rec]
        BY <3>3 DEF TypeInv
      <4> QED
        BY <3>1, <4>1 DEF TypeOK
    <3> QED
      BY <3>2, <3>5, <3>6
  <2>3. ASSUME NEW c \in Callers, Die(c) PROVE new = ledger[r][q].parent \/ new = None
    <3>1. CASE UNCHANGED ledger
      BY <3>1
    <3>2. CASE ledger' = [ledger EXCEPT ![call[c].run][call[c].request] = NoRecord("torn")]
      BY <3>2 DEF TypeInv, TypeOK, NoRecord
    <3> QED
      BY <2>3, <3>1, <3>2 DEF Die
  <2> QED
    BY Writers, <2>1, <2>2, <2>3
<1>4. new \in Parents /\ ParentResolves(new)
  BY <1>1, <1>2, <1>3
<1> QED
  BY <1>4, ParentStays DEF ParentResolves

(* Every recorded parent is a decided request, for any runs and requests    *)
(* and whoever is killed (reserve()).                                       *)
THEOREM ParentsAreDecided == Spec => []ParentIsDecided
<1>1. Init => ParentIsDecided
  BY DEF Init, ParentIsDecided, NoRecord
<1> QED
  BY TypeInit, TypeNext, ParentNext, <1>1, PTL DEF Spec

----------------------------------------------------------------------------
(* While a caller is between reserving and recording, the other requests of *)
(* its run are all new or settled.                                          *)

Settled(r, q) == ledger[r][q].state \notin Uncertain \cup {"torn"}

QuietOK ==
    \A c \in Callers : pc[c] \in Reserved =>
        \A q \in Requests \ {call[c].request} : Settled(call[c].run, q)

(* Whoever stands there after a step has just reserved, or stood there      *)
(* before it and nothing was recorded.                                      *)
LEMMA StillReserved ==
    ASSUME TypeInv, [Next]_vars, NEW c \in Callers, pc'[c] \in Reserved
    PROVE  Reserve(c) \/ (pc[c] \in Reserved /\ call'[c] = call[c] /\ UNCHANGED ledger)
<1> USE DEF Goto, Stay, disk, Reserved
<1>1. pc \in [Callers -> Steps] /\ call \in [Callers -> Call \cup {None}]
  BY DEF TypeInv, TypeOK
<1>2. ASSUME NEW d \in Callers,
             Invoke(d) \/ Acquire(d) \/ Busy(d) \/ Replay(d) \/ Refuse(d) \/ AnswerCached(d)
      PROVE  pc[c] \in Reserved /\ call'[c] = call[c] /\ UNCHANGED ledger
  BY <1>1, <1>2 DEF Invoke, Acquire, Busy, Replay, Refuse, AnswerCached, Leave
<1>3. ASSUME NEW d \in Callers,
             NoteInvocation(d) \/ RejectPreflight(d) \/ Launch(d) \/ RunSuite(d) \/ Seal(d)
               \/ BlockBaseline(d) \/ Raise(d)
      PROVE  pc[c] \in Reserved /\ call'[c] = call[c] /\ UNCHANGED ledger
  BY <1>1, <1>3 DEF NoteInvocation, RejectPreflight, Launch, RunSuite, Seal, BlockBaseline, Raise
<1>4. ASSUME NEW d \in Callers, Report(d) \/ Die(d) \/ Finish(d) \/ Reserve(d), d # c
      PROVE  pc[c] \in Reserved /\ call'[c] = call[c] /\ UNCHANGED ledger
  <2>1. pc'[c] = pc[c] /\ call'[c] = call[c]
    BY <1>1, <1>4 DEF Report, Die, Finish, Reserve, Leave
  <2>2. pc[c] \in Critical
    BY <2>1 DEF Critical, Steps
  <2>3. pc[d] \notin Critical
    BY <2>2, Alone, <1>4 DEF TypeInv
  <2> QED
    BY <1>1, <1>4, <2>1, <2>3 DEF Report, Die, Finish, Reserve, Critical, Steps
<1>5. ASSUME Report(c) \/ Die(c) \/ Finish(c) PROVE FALSE
  BY <1>1, <1>5 DEF Report, Die, Finish, Leave
<1>6. ASSUME NEW r \in Runs, EditInputs(r) \/ AlterEvidence(r)
      PROVE  pc[c] \in Reserved /\ call'[c] = call[c] /\ UNCHANGED ledger
  BY <1>6 DEF EditInputs, AlterEvidence
<1>7. CASE UNCHANGED vars
  BY <1>7 DEF vars
<1> QED
  BY <1>2, <1>3, <1>4, <1>5, <1>6, <1>7 DEF Next, Execute

LEMMA QuietNext == TypeInv /\ QuietOK /\ [Next]_vars => QuietOK'
<1> SUFFICES ASSUME TypeInv, QuietOK, [Next]_vars, NEW c \in Callers, pc'[c] \in Reserved,
                    NEW q \in Requests, q # call'[c].request
             PROVE  Settled(call[c].run, q)'
  BY DEF QuietOK
<1>1. CASE pc[c] \in Reserved /\ call'[c] = call[c] /\ UNCHANGED ledger
  BY <1>1 DEF QuietOK, Settled
<1>2. CASE Reserve(c)
  <2>1. /\ call'[c] = call[c]
        /\ \A s \in Siblings(c) : s.state \notin Uncertain \cup {"torn"}
        /\ \E rec : ledger' = [ledger EXCEPT ![call[c].run][call[c].request] = rec]
    BY <1>2 DEF Reserve, MayReserve, Stay
  <2>2. ledger'[call[c].run][q] = ledger[call[c].run][q]
    BY <2>1 DEF TypeInv, TypeOK
  <2> QED
    BY <2>1, <2>2 DEF Siblings, Settled
<1> QED
  BY <1>1, <1>2, StillReserved

(* Only Launch makes an attempt. *)
LEMMA OnlyLaunchAdds ==
    ASSUME TypeInv, [Next]_vars, NEW r \in Runs, Len(attempts'[r]) > Len(attempts[r])
    PROVE  \E c \in Callers : /\ Launch(c) /\ call[c].run = r
                              /\ attempts'[r][Len(attempts'[r])].request = call[c].request
<1>1. attempts \in [Runs -> Seq(Attempt)] /\ Len(attempts[r]) \in Nat
  BY DEF TypeInv, TypeOK
<1>2. ASSUME UNCHANGED attempts PROVE FALSE
  BY <1>1, <1>2
<1>3. ASSUME NEW s \in Runs, NEW i, NEW a,
             attempts' = [attempts EXCEPT ![s] = [attempts[s] EXCEPT ![i] = a]]
      PROVE  FALSE
  <2>1. Len([attempts[s] EXCEPT ![i] = a]) = Len(attempts[s])
    BY <1>1
  <2> QED
    BY <1>1, <1>3, <2>1
<1>4. ASSUME NEW c \in Callers, Launch(c)
      PROVE  call[c].run = r /\ attempts'[r][Len(attempts'[r])].request = call[c].request
  <2>1. call[c] \in Call /\ call[c].run \in Runs
    BY <1>4 DEF Launch, TypeInv, CallersOK, Call
  <2>2. PICK a : /\ a.request = call[c].request
                 /\ attempts' = [attempts EXCEPT ![call[c].run] = Append(attempts[call[c].run], a)]
    BY <1>4 DEF Launch
  <2>3. call[c].run = r
    BY <1>1, <2>1, <2>2
  <2>4. attempts'[r] = Append(attempts[r], a)
    BY <1>1, <2>2, <2>3
  <2> QED
    BY <1>1, <2>2, <2>3, <2>4
<1>5. ASSUME NEW c \in Callers, RunSuite(c) PROVE FALSE
  <2>1. call[c].run \in Runs
    BY <1>5 DEF RunSuite, TypeInv, CallersOK, Call
  <2>2. \E i, a : attempts' = [attempts EXCEPT ![call[c].run] = [attempts[call[c].run] EXCEPT ![i] = a]]
    BY <1>5 DEF RunSuite
  <2> QED
    BY <2>1, <2>2, <1>3
<1>6. ASSUME NEW c \in Callers, Seal(c) PROVE FALSE
  <2>1. call[c].run \in Runs
    BY <1>6 DEF Seal, TypeInv, CallersOK, Call
  <2>2. \E i, a : attempts' = [attempts EXCEPT ![call[c].run] = [attempts[call[c].run] EXCEPT ![i] = a]]
    BY <1>6 DEF Seal
  <2> QED
    BY <2>1, <2>2, <1>3
<1>7. ASSUME NEW s \in Runs, AlterEvidence(s) PROVE FALSE
  <2>1. \E i, a : attempts' = [attempts EXCEPT ![s] = [attempts[s] EXCEPT ![i] = a]]
    BY <1>7 DEF AlterEvidence
  <2> QED
    BY <2>1, <1>3
<1>8. \/ \E c \in Callers : Launch(c) \/ RunSuite(c) \/ Seal(c)
      \/ \E s \in Runs : AlterEvidence(s)
      \/ UNCHANGED attempts
  BY DEF Next, Execute, vars, disk, Invoke, Acquire, Busy, Reserve, Replay, Refuse, NoteInvocation,
     AnswerCached, RejectPreflight, BlockBaseline, Raise, Finish, Report, Die, EditInputs
<1> QED
  BY <1>2, <1>4, <1>5, <1>6, <1>7, <1>8

(* No attempt is added to a run while another of its requests is running,   *)
(* interrupted or unreadable (reserve() before _execute_once(), one lock    *)
(* around both).                                                            *)
THEOREM AttemptsRunAlone == Spec => NoAttemptBesideUncertain
<1>1. Init => QuietOK
  BY DEF Init, QuietOK, Reserved
<1>2. ASSUME TypeInv, QuietOK, [Next]_vars, NEW r \in Runs,
             Len(attempts'[r]) > Len(attempts[r]),
             NEW q \in Requests \ {attempts'[r][Len(attempts'[r])].request}
      PROVE  ledger[r][q].state \notin Uncertain \cup {"torn"}
  <2>1. PICK c \in Callers : /\ Launch(c) /\ call[c].run = r
                             /\ attempts'[r][Len(attempts'[r])].request = call[c].request
    BY <1>2, OnlyLaunchAdds
  <2>2. pc[c] \in Reserved
    BY <2>1 DEF Launch, Reserved
  <2> QED
    BY <1>2, <2>1, <2>2 DEF QuietOK, Settled
<1>3. TypeInv /\ QuietOK /\ [Next]_vars =>
        [\A r \in Runs : Len(attempts'[r]) > Len(attempts[r]) =>
           \A q \in Requests \ {attempts'[r][Len(attempts'[r])].request} :
             ledger[r][q].state \notin Uncertain \cup {"torn"}]_vars
  BY <1>2
<1> QED
  BY TypeInit, TypeNext, QuietNext, <1>1, <1>3, PTL DEF Spec, NoAttemptBesideUncertain

----------------------------------------------------------------------------
(* A process that did not end by itself leaves no evidence without errors.  *)
VerdictsOK ==
    \A r \in Runs : \A i \in 1 .. Len(attempts[r]) :
        ~ attempts[r][i].completed => attempts[r][i].verdict = "invalid"

LEMMA VerdictsNext == TypeInv /\ VerdictsOK /\ [Next]_vars => VerdictsOK'
<1> SUFFICES ASSUME TypeInv, VerdictsOK, [Next]_vars PROVE VerdictsOK'
  OBVIOUS
<1>1. attempts \in [Runs -> Seq(Attempt)]
  BY DEF TypeInv, TypeOK
<1>2. CASE UNCHANGED attempts
  BY <1>2 DEF VerdictsOK
<1>3. ASSUME NEW s \in Runs, NEW i \in 1 .. Len(attempts[s]), NEW a,
             ~ a.completed => a.verdict = "invalid",
             attempts' = [attempts EXCEPT ![s] = [attempts[s] EXCEPT ![i] = a]]
      PROVE  VerdictsOK'
  <2> SUFFICES ASSUME NEW r \in Runs, NEW j \in 1 .. Len(attempts'[r]), ~ attempts'[r][j].completed
               PROVE  attempts'[r][j].verdict = "invalid"
    BY DEF VerdictsOK
  <2>1. CASE r # s
    BY <1>1, <1>3, <2>1 DEF VerdictsOK
  <2>2. CASE r = s
    <3>1. attempts'[r] = [attempts[r] EXCEPT ![i] = a] /\ attempts[r] \in Seq(Attempt)
      BY <1>1, <1>3, <2>2
    <3>2. j \in 1 .. Len(attempts[r])
      BY <3>1
    <3>3. attempts'[r][j] = IF j = i THEN a ELSE attempts[r][j]
      BY <3>1, <3>2
    <3> QED
      BY <1>3, <3>2, <3>3 DEF VerdictsOK
  <2> QED
    BY <2>1, <2>2
<1>4. ASSUME NEW c \in Callers, Launch(c) PROVE VerdictsOK'
  <2>1. call[c].run \in Runs /\ attempts[call[c].run] \in Seq(Attempt)
    BY <1>1, <1>4 DEF Launch, TypeInv, CallersOK, Call
  <2>2. PICK a : /\ a.verdict = "invalid"
                 /\ attempts' = [attempts EXCEPT ![call[c].run] = Append(attempts[call[c].run], a)]
    BY <1>4 DEF Launch
  <2>3. ASSUME NEW r \in Runs, NEW j \in 1 .. Len(attempts'[r]), ~ attempts'[r][j].completed
        PROVE  attempts'[r][j].verdict = "invalid"
    <3>1. CASE r # call[c].run
      BY <1>1, <2>2, <2>3, <3>1 DEF VerdictsOK
    <3>2. CASE r = call[c].run
      <4>1. attempts'[r] = Append(attempts[r], a) /\ attempts[r] \in Seq(Attempt)
        BY <1>1, <2>2, <3>2
      <4>2. CASE j \in 1 .. Len(attempts[r])
        <5>1. attempts'[r][j] = attempts[r][j]
          BY <4>1, <4>2
        <5> QED
          BY <2>3, <4>2, <5>1 DEF VerdictsOK
      <4>3. CASE j = Len(attempts[r]) + 1
        <5>1. attempts'[r][j] = a
          BY <4>1, <4>3
        <5> QED
          BY <2>2, <5>1
      <4> QED
        BY <4>1, <4>2, <4>3
    <3> QED
      BY <3>1, <3>2
  <2> QED
    BY <2>3 DEF VerdictsOK
<1>5. ASSUME NEW c \in Callers, RunSuite(c) PROVE VerdictsOK'
  <2> DEFINE made == attempts[call[c].run]
  <2>1. /\ call[c].run \in Runs
        /\ Len(made) \in 1 .. Len(made) /\ made[Len(made)] \in Attempt
    BY <1>5, LastAttempt DEF RunSuite, Call
  <2>2. PICK done \in BOOLEAN, verdict \in Verdicts :
          /\ ~ done => verdict = "invalid"
          /\ attempts' = [attempts EXCEPT ![call[c].run][Len(made)] =
                            [@ EXCEPT !.completed = done, !.verdict = verdict]]
    BY <1>5 DEF RunSuite
  <2> DEFINE a == [made[Len(made)] EXCEPT !.completed = done, !.verdict = verdict]
  <2>3. a.completed = done /\ a.verdict = verdict
    BY <2>1 DEF Attempt
  <2>4. attempts' = [attempts EXCEPT ![call[c].run] = [made EXCEPT ![Len(made)] = a]]
    BY <2>2
  <2>5. ~ a.completed => a.verdict = "invalid"
    <3> HIDE DEF a
    <3> QED
      BY <2>2, <2>3, Zenon
  <2> HIDE DEF a
  <2> QED
    BY <1>3, <2>1, <2>4, <2>5
<1>6. ASSUME NEW s \in Runs, NEW i \in 1 .. Len(attempts[s]), NEW receipt,
             attempts' = [attempts EXCEPT ![s] =
                            [attempts[s] EXCEPT ![i] = [attempts[s][i] EXCEPT !.receipt = receipt]]]
      PROVE  VerdictsOK'
  <2> DEFINE a == [attempts[s][i] EXCEPT !.receipt = receipt]
  <2>1. attempts[s][i] \in Attempt
    BY <1>1, ElementOfSeq
  <2>2. a.completed = attempts[s][i].completed /\ a.verdict = attempts[s][i].verdict
    BY <2>1 DEF Attempt
  <2>3. ~ a.completed => a.verdict = "invalid"
    BY <2>2 DEF VerdictsOK
  <2>4. attempts' = [attempts EXCEPT ![s] = [attempts[s] EXCEPT ![i] = a]]
    BY <1>6
  <2> HIDE DEF a
  <2> QED
    BY <1>3, <2>3, <2>4
<1>7. ASSUME NEW c \in Callers, Seal(c) PROVE VerdictsOK'
  <2>1. /\ call[c].run \in Runs
        /\ Len(attempts[call[c].run]) \in 1 .. Len(attempts[call[c].run])
    BY <1>7, LastAttempt DEF Seal, Call
  <2>2. attempts' = [attempts EXCEPT ![call[c].run] =
                       [attempts[call[c].run] EXCEPT ![Len(attempts[call[c].run])] =
                          [attempts[call[c].run][Len(attempts[call[c].run])]
                             EXCEPT !.receipt = "valid"]]]
    BY <1>7 DEF Seal
  <2> QED
    BY <1>6, <2>1, <2>2
<1>8. ASSUME NEW s \in Runs, AlterEvidence(s) PROVE VerdictsOK'
  BY <1>6, <1>8 DEF AlterEvidence
<1>9. \/ \E c \in Callers : Launch(c) \/ RunSuite(c) \/ Seal(c)
      \/ \E s \in Runs : AlterEvidence(s)
      \/ UNCHANGED attempts
  BY DEF Next, Execute, vars, disk, Invoke, Acquire, Busy, Reserve, Replay, Refuse, NoteInvocation,
     AnswerCached, RejectPreflight, BlockBaseline, Raise, Finish, Report, Die, EditInputs
<1> QED
  BY <1>2, <1>4, <1>5, <1>7, <1>8, <1>9

(* What a caller is about to answer is on record, unless it is a 2: only a  *)
(* completed attempt brings a 0 or 1.                                       *)
Answered(c) ==
    /\ RecordOf(c).state = "completed"
    /\ RecordOf(c).exit = work[c].code
    /\ RecordOf(c).value = call[c].value

Answering == {"cached", "recheck", "finished"}

AnswersOK ==
    \A c \in Callers : work[c].code # 2 =>
        /\ pc[c] = "finishing" => work[c].state = "completed"
        /\ pc[c] \in Answering => Answered(c)

(* What a step changes for a caller that has an outcome after it.           *)
LEMMA StillAnswering ==
    ASSUME TypeInv, [Next]_vars, NEW c \in Callers, pc'[c] \in Answering \cup {"finishing"}
    PROVE  \/ Replay(c) \/ Finish(c)
           \/ RejectPreflight(c) \/ Seal(c) \/ BlockBaseline(c) \/ Raise(c)
           \/ /\ {pc[c], pc'[c]} \subseteq Answering \/ pc[c] = pc'[c]
              /\ call'[c] = call[c] /\ work'[c] = work[c]
<1> DEFINE Same == /\ {pc[c], pc'[c]} \subseteq Answering \/ pc[c] = pc'[c]
                   /\ call'[c] = call[c] /\ work'[c] = work[c]
<1> USE DEF Goto, Stay, disk, Answering
<1>1. pc \in [Callers -> Steps] /\ call \in [Callers -> Call \cup {None}] /\ work \in [Callers -> Work]
  BY DEF TypeInv, TypeOK
<1>2. ASSUME NEW d \in Callers,
             Invoke(d) \/ Acquire(d) \/ Busy(d) \/ Refuse(d) \/ AnswerCached(d) \/ Report(d) \/ Die(d)
      PROVE  Same
  <2>1. CASE Invoke(d) \/ Acquire(d)
    BY <1>1, <2>1 DEF Invoke, Acquire
  <2>2. CASE Busy(d) \/ Refuse(d) \/ AnswerCached(d) \/ Report(d) \/ Die(d)
    <3>1. \E kind, code : Leave(d, kind, code)
      BY <2>2 DEF Busy, Refuse, AnswerCached, Report, Die
    <3> QED
      BY <1>1, <3>1 DEF Leave
  <2> QED
    BY <1>2, <2>1, <2>2
<1>3. ASSUME NEW d \in Callers, Reserve(d) \/ NoteInvocation(d) \/ Launch(d) \/ RunSuite(d)
      PROVE  Same
  BY <1>1, <1>3 DEF Reserve, NoteInvocation, Launch, RunSuite
<1>4. ASSUME NEW d \in Callers, d # c,
             Replay(d) \/ Finish(d) \/ RejectPreflight(d) \/ Seal(d) \/ BlockBaseline(d) \/ Raise(d)
      PROVE  Same
  <2>1. pc' = [pc EXCEPT ![d] = pc'[d]] /\ UNCHANGED call
    BY <1>1, <1>4 DEF Replay, Finish, RejectPreflight, Seal, BlockBaseline, Raise
  <2>2. \E new : work' = [work EXCEPT ![d] = new]
    BY <1>1, <1>4 DEF Replay, Finish, RejectPreflight, Seal, BlockBaseline, Raise, Conclude
  <2> QED
    BY <1>1, <1>4, <2>1, <2>2
<1>5. ASSUME NEW r \in Runs, EditInputs(r) \/ AlterEvidence(r) PROVE Same
  BY <1>5 DEF EditInputs, AlterEvidence
<1>6. CASE UNCHANGED vars
  BY <1>6 DEF vars
<1> QED
  BY <1>2, <1>3, <1>4, <1>5, <1>6 DEF Next, Execute

LEMMA AnswersNext ==
    TypeInv /\ ClaimsOK /\ VerdictsOK /\ AnswersOK /\ [Next]_vars => AnswersOK'
<1> SUFFICES ASSUME TypeInv, ClaimsOK, VerdictsOK, AnswersOK, [Next]_vars,
                    NEW c \in Callers, work'[c].code # 2
             PROVE  /\ pc'[c] = "finishing" => work'[c].state = "completed"
                    /\ pc'[c] \in Answering => Answered(c)'
  BY DEF AnswersOK
<1> USE DEF Goto, Stay, disk, Answering
<1>1. pc \in [Callers -> Steps] /\ work \in [Callers -> Work] /\ TypeOK
  BY DEF TypeInv, TypeOK
<1>2. CASE /\ {pc[c], pc'[c]} \subseteq Answering \/ pc[c] = pc'[c]
           /\ call'[c] = call[c] /\ work'[c] = work[c]
  <2>1. pc'[c] = "finishing" => work'[c].state = "completed"
    BY <1>2 DEF AnswersOK
  <2>2. ASSUME pc'[c] \in Answering PROVE Answered(c)'
    <3>1. Answered(c) /\ call[c] \in Call
      BY <1>2, <2>2 DEF AnswersOK, TypeInv, CallersOK
    <3>2. ledger'[call[c].run][call[c].request] = ledger[call[c].run][call[c].request]
      BY <3>1, FinalStep DEF Answered, RecordOf, Terminal, Call
    <3> QED
      BY <1>2, <3>1, <3>2 DEF Answered, RecordOf
  <2> QED
    BY <2>1, <2>2
<1>3. CASE Replay(c)
  <2>1. pc'[c] = "cached" /\ UNCHANGED <<call, ledger>> /\ MayReplay(c)
    BY <1>1, <1>3 DEF Replay
  <2>2. work'[c].code = IF RecordOf(c).state = "completed" THEN RecordOf(c).exit ELSE 2
    BY <1>1, <1>3 DEF Replay, Work
  <2> QED
    BY <2>1, <2>2 DEF Answered, RecordOf, MayReplay
<1>4. CASE Finish(c)
  <2>1. pc'[c] = "finished" /\ UNCHANGED <<call, work>> /\ pc[c] = "finishing"
    BY <1>1, <1>4 DEF Finish
  <2>2. call[c].run \in Runs /\ call[c].request \in Requests
    BY <2>1 DEF TypeInv, CallersOK, Call
  <2>3. RecordOf(c) \in Record
    BY <1>1, <2>2 DEF TypeOK, RecordOf
  <2>4. PICK rec :
          /\ rec = [RecordOf(c) EXCEPT !.state = work[c].state, !.exit = work[c].code,
                                       !.attempt = work[c].attempt]
          /\ ledger' = [ledger EXCEPT ![call[c].run][call[c].request] = rec]
    BY <1>4 DEF Finish, RecordOf
  <2>5. rec.state = work[c].state /\ rec.exit = work[c].code /\ rec.value = RecordOf(c).value
    BY <2>3, <2>4 DEF Record
  <2>6. ledger'[call[c].run][call[c].request] = rec
    <3>1. ledger' = [ledger EXCEPT ![call[c].run][call[c].request] = rec]
      BY <2>4
    <3> QED
      BY <1>1, <2>2, <3>1 DEF TypeOK
  <2>7. RecordOf(c).value = call[c].value /\ work[c].state = "completed"
    BY <1>4, <2>1 DEF Finish, MayFinish, AnswersOK
  <2> QED
    BY <2>1, <2>5, <2>6, <2>7 DEF Answered, RecordOf
<1>5. CASE RejectPreflight(c) \/ BlockBaseline(c) \/ Raise(c)
  <2>1. \E state, attempt : Conclude(c, state, 2, attempt)
    BY <1>5 DEF RejectPreflight, BlockBaseline, Raise
  <2> QED
    BY <1>1, <2>1 DEF Conclude
<1>6. CASE Seal(c)
  <2> DEFINE made == attempts[call[c].run]
             a == made[Len(made)]
             sealed == [made EXCEPT ![Len(made)] = [a EXCEPT !.receipt = "valid"]]
  <2>1. /\ made \in Seq(Attempt) /\ Len(made) \in 1 .. Len(made) /\ a \in Attempt
        /\ call[c].run \in Runs
    BY <1>6, LastAttempt DEF Seal, Call
  <2>2. /\ pc'[c] = "finishing"
        /\ work'[c] = [state |-> IF a.completed THEN "completed" ELSE "interrupted",
                       code |-> IF Sound(call[c].run, sealed) THEN ExitOf(a.verdict) ELSE 2,
                       attempt |-> Len(made)]
    BY <1>1, <1>6 DEF Seal, Conclude
  <2>3. sealed[Len(sealed)].verdict = a.verdict
    BY <2>1 DEF Attempt
  <2>4. ASSUME ~ a.completed PROVE FALSE
    <3>1. a.verdict = "invalid"
      BY <2>1, <2>4 DEF VerdictsOK
    <3> HIDE DEF sealed, a
    <3>2. ~ Sound(call[c].run, sealed)
      BY <2>3, <3>1 DEF Sound
    <3> QED
      BY <2>2, <3>2
  <2> QED
    BY <2>2, <2>4
<1> QED
  BY StillAnswering, <1>2, <1>3, <1>4, <1>5, <1>6

RefInv == IInv /\ QuietOK /\ VerdictsOK /\ AnswersOK

LEMMA RefInvariant == Spec => []RefInv
<1>1. Init => RefInv
  BY SafetyInit DEF Init, RefInv, QuietOK, Reserved, VerdictsOK, AnswersOK, Answering
<1>2. RefInv /\ [Next]_vars => RefInv'
  BY SafetyNext, QuietNext, VerdictsNext, AnswersNext DEF RefInv, IInv
<1> QED
  BY <1>1, <1>2, PTL DEF Spec

(* A success or a failure from the record is the recorded one, asked for    *)
(* with the recorded fingerprint, over evidence that holds at that moment,  *)
(* for any callers and whatever is edited (execute() after a replay).       *)
THEOREM CachedAnswersAreBacked == Spec => CachedAnswerIsBacked
<1> DEFINE Backing(c) ==
      (/\ reply'[c] # reply[c] /\ reply'[c] # None
       /\ reply'[c].kind = "cached" /\ reply'[c].code # 2) =>
         /\ RecordOf(c).state = "completed"
         /\ RecordOf(c).exit = reply'[c].code
         /\ RecordOf(c).value = call[c].value
         /\ inputs[call[c].run]
         /\ \A i \in 1 .. Len(attempts[call[c].run]) :
              attempts[call[c].run][i].receipt = "valid"
<1>1. ASSUME RefInv, [Next]_vars, NEW c \in Callers PROVE Backing(c)
  <2> SUFFICES ASSUME reply'[c] # reply[c], reply'[c] # None,
                      reply'[c].kind = "cached", reply'[c].code # 2
               PROVE  /\ Answered(c) /\ work[c].code = reply'[c].code
                      /\ EvidenceHolds(call[c].run)
    BY DEF Answered, EvidenceHolds, Sound
  <2>1. reply \in [Callers -> Reply \cup {None}]
    BY <1>1 DEF RefInv, IInv, TypeInv, TypeOK
  <2>2. CASE AnswerCached(c)
    <3>1. reply'[c].code = IF work[c].code # 2 /\ EvidenceHolds(call[c].run)
                           THEN work[c].code ELSE 2
      BY <2>1, <2>2 DEF AnswerCached, Leave
    <3> QED
      BY <1>1, <2>2, <3>1 DEF AnswerCached, RefInv, AnswersOK, Answering
  <2>3. ASSUME NEW d \in Callers,
               Busy(d) \/ Refuse(d) \/ Report(d) \/ Die(d) \/ (AnswerCached(d) /\ d # c)
        PROVE  FALSE
    <3>1. ASSUME NEW kind, NEW code, Leave(d, kind, code), d = c => kind # "cached"
          PROVE  FALSE
      BY <2>1, <3>1 DEF Leave
    <3>2. CASE Busy(d)
      BY <3>1, <3>2 DEF Busy
    <3>3. CASE Refuse(d)
      BY <3>1, <3>3 DEF Refuse
    <3>4. CASE Report(d)
      BY <3>1, <3>4 DEF Report
    <3>5. CASE Die(d)
      BY <3>1, <3>5 DEF Die
    <3>6. CASE AnswerCached(d) /\ d # c
      BY <3>1, <3>6 DEF AnswerCached
    <3> QED
      BY <2>3, <3>2, <3>3, <3>4, <3>5, <3>6
  <2>4. ASSUME NEW d \in Callers, Invoke(d) PROVE FALSE
    BY <2>1, <2>4 DEF Invoke
  <2>5. UNCHANGED reply => FALSE
    OBVIOUS
  <2>6. \/ \E d \in Callers : Invoke(d) \/ Busy(d) \/ Refuse(d) \/ Report(d) \/ Die(d) \/ AnswerCached(d)
        \/ UNCHANGED reply
    BY <1>1 DEF Next, Execute, vars, Stay, Acquire, Reserve, Replay, NoteInvocation, RejectPreflight,
       Launch, RunSuite, Seal, BlockBaseline, Raise, Finish, EditInputs, AlterEvidence
  <2> QED
    BY <2>2, <2>3, <2>4, <2>5, <2>6
<1>2. RefInv /\ [Next]_vars => [\A c \in Callers : Backing(c)]_vars
  BY <1>1
<1> QED
  BY RefInvariant, <1>2, PTL DEF Spec, CachedAnswerIsBacked

----------------------------------------------------------------------------
(* The refinement: how each step of the ledger looks to the promise.        *)

(* Writing one record changes the status and the result of one request.     *)
Written(r, q, rec) == ledger' = [ledger EXCEPT ![r][q] = rec]

Shown(r, q, rec) == /\ Status' = [Status EXCEPT ![r][q] = StatusOf(rec)]
                    /\ Result' = [Result EXCEPT ![r][q] = ResultOf(rec)]

LEMMA RecordView ==
    ASSUME TypeOK, NEW r \in Runs, NEW q \in Requests, NEW rec, Written(r, q, rec)
    PROVE  Shown(r, q, rec)
<1>1. /\ ledger'[r][q] = rec
      /\ \A s \in Runs, p \in Requests : s # r \/ p # q => ledger'[s][p] = ledger[s][p]
  BY DEF TypeOK, Written
<1>2. Status' = [Status EXCEPT ![r][q] = StatusOf(rec)]
  <2>1. Status[r] = [p \in Requests |-> StatusOf(ledger[r][p])]
    BY DEF Status
  <2>2. [p \in Requests |-> StatusOf(ledger'[r][p])] = [Status[r] EXCEPT ![q] = StatusOf(rec)]
    BY <1>1, <2>1
  <2>3. \A s \in Runs \ {r} : [p \in Requests |-> StatusOf(ledger'[s][p])]
                                = [p \in Requests |-> StatusOf(ledger[s][p])]
    BY <1>1
  <2>4. Status' = [Status EXCEPT ![r] = [Status[r] EXCEPT ![q] = StatusOf(rec)]]
    BY <2>2, <2>3 DEF Status
  <2> QED
    BY <2>4
<1>3. Result' = [Result EXCEPT ![r][q] = ResultOf(rec)]
  <2>1. Result[r] = [p \in Requests |-> ResultOf(ledger[r][p])]
    BY DEF Result
  <2>2. [p \in Requests |-> ResultOf(ledger'[r][p])] = [Result[r] EXCEPT ![q] = ResultOf(rec)]
    BY <1>1, <2>1
  <2>3. \A s \in Runs \ {r} : [p \in Requests |-> ResultOf(ledger'[s][p])]
                                = [p \in Requests |-> ResultOf(ledger[s][p])]
    BY <1>1
  <2>4. Result' = [Result EXCEPT ![r] = [Result[r] EXCEPT ![q] = ResultOf(rec)]]
    BY <2>2, <2>3 DEF Result
  <2> QED
    BY <2>4
<1> QED
  BY <1>2, <1>3 DEF Shown

(* A result that does not change leaves the results alone. *)
LEMMA SameResult ==
    ASSUME NEW r \in Runs, NEW q \in Requests, NEW rec, ResultOf(rec) = ResultOf(ledger[r][q])
    PROVE  [Result EXCEPT ![r][q] = ResultOf(rec)] = Result
BY DEF Result

(* What nobody is told, and what a caller that leaves is told.              *)
LEMMA SameAnswers == UNCHANGED reply => UNCHANGED Told
BY DEF Told

LEMMA LeaveTells ==
    ASSUME TypeInv, NEW c \in Callers, pc[c] # "idle",
           NEW kind \in {"busy", "refused", "cached", "done", "lost"},
           NEW code \in ExitCodes, Leave(c, kind, code)
    PROVE  Promise!Tell(c, call[c].run, call[c].request, code)
<1>1. call[c] \in Call /\ reply \in [Callers -> Reply \cup {None}]
  BY DEF TypeInv, TypeOK, CallersOK
<1> DEFINE new == [kind |-> kind, code |-> code, run |-> call[c].run, request |-> call[c].request]
<1>2. new \in Reply
  BY <1>1 DEF Call, Reply
<1>3. new # None
  BY <1>2, ReplyAssumption
<1>4. new.run = call[c].run /\ new.request = call[c].request /\ new.code = code
  OBVIOUS
<1>5. reply' = [reply EXCEPT ![c] = new]
  BY DEF Leave
<1> HIDE DEF new
<1>6. Told' = [Told EXCEPT ![c] = [run |-> new.run, request |-> new.request, code |-> new.code]]
  BY <1>1, <1>3, <1>5 DEF Told
<1> QED
  BY <1>4, <1>6 DEF Promise!Tell

(* Rewriting an attempt leaves the requests that were executed alone. *)
LEMMA SameExecuted ==
    ASSUME TypeOK, NEW s \in Runs, NEW i \in 1 .. Len(attempts[s]), NEW a,
           a.request = attempts[s][i].request,
           attempts' = [attempts EXCEPT ![s] = [attempts[s] EXCEPT ![i] = a]]
    PROVE  UNCHANGED Executed
<1>1. attempts \in [Runs -> Seq(Attempt)]
  BY DEF TypeOK
<1>2. ASSUME NEW r \in Runs
      PROVE  /\ Len(attempts'[r]) = Len(attempts[r])
             /\ \A j \in 1 .. Len(attempts[r]) : attempts'[r][j].request = attempts[r][j].request
  <2>1. CASE r # s
    BY <1>1, <2>1
  <2>2. CASE r = s
    <3>1. attempts'[r] = [attempts[r] EXCEPT ![i] = a] /\ attempts[r] \in Seq(Attempt)
      BY <1>1, <2>2
    <3>2. \A j \in 1 .. Len(attempts[r]) :
            attempts'[r][j] = IF j = i THEN a ELSE attempts[r][j]
      BY <3>1
    <3> QED
      BY <2>2, <3>1, <3>2
  <2> QED
    BY <2>1, <2>2
<1>3. ASSUME NEW r \in Runs
      PROVE  {attempts'[r][j].request : j \in 1 .. Len(attempts'[r])}
               = {attempts[r][j].request : j \in 1 .. Len(attempts[r])}
  <2>1. 1 .. Len(attempts'[r]) = 1 .. Len(attempts[r])
    BY <1>2
  <2> QED
    BY <1>2, <2>1
<1> QED
  BY <1>3 DEF Executed

(* The view of files that stay the same. *)
LEMMA ExecutedView == UNCHANGED attempts => UNCHANGED Executed
BY DEF Executed

LEMMA LedgerView == UNCHANGED ledger => UNCHANGED <<Status, Result>>
BY DEF Status, Result

(* Settled siblings are what the promise calls quiet. *)
LEMMA SettledIsQuiet ==
    ASSUME TypeOK, NEW r \in Runs, NEW q \in Requests,
           \A p \in Requests \ {q} : Settled(r, p)
    PROVE  Promise!Quiet(r, q)
<1>1. ASSUME NEW p \in Requests \ {q} PROVE Status[r][p] \in {"new", "done"}
  <2>1. ledger[r][p].state \in {"absent", "completed", "rejected"}
    BY DEF TypeOK, Record, States, Terminal, Settled, Uncertain
  <2> QED
    BY <2>1 DEF Status, StatusOf
<1> QED
  BY <1>1 DEF Promise!Quiet

(* Every step is one the promise allows, or one it does not see.            *)
LEMMA StepRefines == RefInv /\ [Next]_vars => [Promise!Next]_(Promise!promised)
<1> SUFFICES ASSUME RefInv, [Next]_vars
             PROVE  Promise!Next \/ UNCHANGED <<Status, Result, Executed, Told>>
  BY DEF Promise!promised
<1> USE DEF Stay, disk
<1>0. /\ TypeInv /\ TypeOK /\ ClaimsOK /\ QuietOK /\ AnswersOK
      /\ attempts \in [Runs -> Seq(Attempt)] /\ work \in [Callers -> Work]
      /\ ledger \in [Runs -> [Requests -> Record]]
  BY DEF RefInv, IInv, TypeInv, TypeOK
<1> TypeOK
  BY <1>0
<1>a. ASSUME NEW c \in Callers, pc[c] # "idle"
      PROVE  call[c].run \in Runs /\ call[c].request \in Requests
  BY <1>0, <1>a DEF TypeInv, CallersOK, Call
<1>b. ASSUME NEW c \in Callers, pc[c] # "idle", UNCHANGED <<ledger, attempts>>,
             NEW kind \in {"busy", "refused", "cached", "done", "lost"},
             NEW code \in ExitCodes, Leave(c, kind, code),
             code # 2 => RecordOf(c).state = "completed" /\ RecordOf(c).exit = code
      PROVE  Promise!Next
  <2>1. call[c].run \in Runs /\ call[c].request \in Requests
    BY <1>a, <1>b
  <2>2. Promise!Tell(c, call[c].run, call[c].request, code)
    BY <1>0, <1>b, LeaveTells
  <2>3. code # 2 => /\ Status[call[c].run][call[c].request] = "done"
                    /\ Result[call[c].run][call[c].request] = code
    BY <1>b, <2>1 DEF Status, Result, StatusOf, ResultOf, RecordOf
  <2>4. Promise!Answer(c, call[c].run, call[c].request)
    BY <1>b, <2>2, <2>3, LedgerView, ExecutedView DEF Promise!Answer, ExitCodes
  <2> QED
    BY <2>1, <2>4 DEF Promise!Next
<1>1. ASSUME NEW c \in Callers, Invoke(c) PROVE Promise!Next
  <2>1. reply' = [reply EXCEPT ![c] = None] /\ reply \in [Callers -> Reply \cup {None}]
    BY <1>0, <1>1 DEF Invoke, TypeOK
  <2>2. Told' = [Told EXCEPT ![c] = None]
    BY <2>1 DEF Told
  <2>3. Promise!Ask(c)
    BY <1>1, <2>2, LedgerView, ExecutedView DEF Invoke, Promise!Ask
  <2> QED
    BY <2>3 DEF Promise!Next
<1>2. ASSUME NEW c \in Callers, Reserve(c) PROVE Promise!Next
  <2>1. PICK r \in Runs, q \in Requests : r = call[c].run /\ q = call[c].request
    BY <1>2, <1>a DEF Reserve
  <2>2. PICK rec : /\ rec.state = "running" /\ rec.exit = None
                   /\ ledger' = [ledger EXCEPT ![r][q] = rec]
    BY <1>2, <2>1 DEF Reserve, NoRecord
  <2>3. ledger[r][q].state = "absent" /\ \A p \in Requests \ {q} : Settled(r, p)
    BY <1>2, <2>1 DEF Reserve, MayReserve, Siblings, Settled, RecordOf
  <2>4. Promise!Quiet(r, q)
    BY <2>3, SettledIsQuiet
  <2>5. Written(r, q, rec)
    BY <2>2 DEF Written
  <2>6. /\ Status' = [Status EXCEPT ![r][q] = StatusOf(rec)]
        /\ Result' = [Result EXCEPT ![r][q] = ResultOf(rec)]
    BY <2>5, RecordView DEF Shown
  <2>7. /\ StatusOf(rec) = "open" /\ ResultOf(rec) = 2
        /\ Status[r][q] = "new" /\ ResultOf(ledger[r][q]) = 2
    BY <2>2, <2>3 DEF Status, StatusOf, ResultOf
  <2>8. UNCHANGED <<Result, Executed, Told>>
    BY <1>2, <2>6, <2>7, SameResult, SameAnswers, ExecutedView DEF Reserve
  <2> QED
    BY <2>4, <2>6, <2>7, <2>8 DEF Promise!Next, Promise!Open
<1>3. ASSUME NEW c \in Callers, Launch(c) PROVE Promise!Next
  <2>1. call[c].run \in Runs /\ call[c].request \in Requests
    BY <1>3, <1>a DEF Launch
  <2>2. PICK a :
          /\ a.request = call[c].request
          /\ attempts' = [attempts EXCEPT ![call[c].run] = Append(attempts[call[c].run], a)]
    BY <1>3 DEF Launch
  <2>3. /\ MayFinish(c)
        /\ \A i \in 1 .. Len(attempts[call[c].run]) :
             attempts[call[c].run][i].request # call[c].request
        /\ \A p \in Requests \ {call[c].request} : Settled(call[c].run, p)
    BY <1>0, <1>3 DEF Launch, ClaimsOK, Claim, Reserved, QuietOK
  <2>4. Status[call[c].run][call[c].request] = "open"
    BY <2>1, <2>3 DEF MayFinish, RecordOf, Status, StatusOf
  <2>5. Promise!Quiet(call[c].run, call[c].request)
    BY <1>0, <2>1, <2>3, SettledIsQuiet
  <2>6. call[c].request \notin Executed[call[c].run]
    BY <2>1, <2>3 DEF Executed
  <2>7. Executed' = [Executed EXCEPT ![call[c].run] = @ \cup {call[c].request}]
    <3>1. ASSUME NEW r \in Runs, r # call[c].run PROVE attempts'[r] = attempts[r]
      BY <1>0, <2>2, <3>1
    <3>2. /\ attempts[call[c].run] \in Seq(Attempt)
          /\ attempts'[call[c].run] = Append(attempts[call[c].run], a)
      BY <1>0, <2>1, <2>2
    <3>3. /\ Len(attempts'[call[c].run]) = Len(attempts[call[c].run]) + 1
          /\ attempts'[call[c].run][Len(attempts[call[c].run]) + 1] = a
          /\ Len(attempts[call[c].run]) \in Nat
          /\ \A i \in 1 .. Len(attempts[call[c].run]) :
               attempts'[call[c].run][i] = attempts[call[c].run][i]
      BY <3>2
    <3>4. {attempts'[call[c].run][i].request : i \in 1 .. Len(attempts'[call[c].run])}
            = {attempts[call[c].run][i].request : i \in 1 .. Len(attempts[call[c].run])}
                \cup {call[c].request}
      <4>1. \A i : i \in 1 .. Len(attempts'[call[c].run]) <=>
                     \/ i \in 1 .. Len(attempts[call[c].run])
                     \/ i = Len(attempts[call[c].run]) + 1
        BY <3>3
      <4> QED
        BY <2>2, <3>3, <4>1
    <3>5. ASSUME NEW r \in Runs
          PROVE  {attempts'[r][i].request : i \in 1 .. Len(attempts'[r])}
                   = IF r = call[c].run
                     THEN {attempts[r][i].request : i \in 1 .. Len(attempts[r])}
                            \cup {call[c].request}
                     ELSE {attempts[r][i].request : i \in 1 .. Len(attempts[r])}
      BY <3>1, <3>4
    <3> QED
      BY <2>1, <3>5 DEF Executed
  <2>8. UNCHANGED <<Status, Result, Told>>
    BY <1>3, LedgerView, SameAnswers DEF Launch
  <2> QED
    BY <2>1, <2>4, <2>5, <2>6, <2>7, <2>8 DEF Promise!Next, Promise!Start
<1>4. ASSUME NEW c \in Callers, Finish(c) PROVE Promise!Next
  <2>0. PICK r \in Runs, q \in Requests : r = call[c].run /\ q = call[c].request
    BY <1>4, <1>a DEF Finish
  <2>1. pc[c] = "finishing" /\ ledger[r][q].state = "running"
    BY <1>4, <2>0 DEF Finish, MayFinish, RecordOf
  <2>2. ledger[r][q] \in Record /\ work[c] \in Work
    BY <1>0
  <2>3. PICK rec :
          /\ rec = [ledger[r][q] EXCEPT !.state = work[c].state, !.exit = work[c].code,
                                        !.attempt = work[c].attempt]
          /\ ledger' = [ledger EXCEPT ![r][q] = rec]
    BY <1>4, <2>0 DEF Finish
  <2>4. rec.state = work[c].state /\ rec.exit = work[c].code
    BY <2>2, <2>3 DEF Record
  <2>5. Written(r, q, rec)
    BY <2>3 DEF Written
  <2>6. /\ Status' = [Status EXCEPT ![r][q] = StatusOf(rec)]
        /\ Result' = [Result EXCEPT ![r][q] = ResultOf(rec)]
    BY <2>5, RecordView DEF Shown
  <2>7. Status[r][q] = "open" /\ ResultOf(ledger[r][q]) = 2
    BY <2>1 DEF Status, StatusOf, ResultOf
  <2>8. UNCHANGED <<Executed, Told>>
    BY <1>4, SameAnswers, ExecutedView DEF Finish
  <2>9. work[c].state \in Terminal /\ work[c].code \in {0, 1, 2}
    BY <1>0, <2>1, <2>2 DEF TypeInv, OutcomesOK, Work, ExitCodes
  <2>10. CASE work[c].state = "interrupted"
    <3>1. StatusOf(rec) = "lost" /\ ResultOf(rec) = 2
      BY <2>4, <2>10 DEF StatusOf, ResultOf
    <3>2. UNCHANGED Result
      BY <2>1, <2>6, <2>7, <3>1, SameResult
    <3> QED
      BY <2>1, <2>6, <2>7, <2>8, <3>1, <3>2 DEF Promise!Next, Promise!Lose
  <2>11. CASE work[c].state \in {"completed", "rejected"}
    <3>1. StatusOf(rec) = "done" /\ ResultOf(rec) = work[c].code
      BY <2>4, <2>11 DEF StatusOf, ResultOf
    <3>2. ASSUME work[c].code # 2 PROVE q \in Executed[r]
      <4>1. work[c].state = "completed" /\ Backed(c)
        BY <1>0, <2>1, <3>2 DEF AnswersOK, ClaimsOK, Claim
      <4> QED
        BY <2>0, <4>1 DEF Backed, Executed
    <3> QED
      BY <2>1, <2>6, <2>7, <2>8, <2>9, <3>1, <3>2 DEF Promise!Next, Promise!Decide
  <2> QED
    BY <2>9, <2>10, <2>11 DEF Terminal
<1>5. ASSUME NEW c \in Callers, Die(c) PROVE Promise!Next
  <2>1. PICK r \in Runs, q \in Requests : r = call[c].run /\ q = call[c].request
    BY <1>5, <1>a DEF Die
  <2>2. pc[c] # "idle" /\ Leave(c, "lost", 2) /\ UNCHANGED attempts
    BY <1>5 DEF Die
  <2>3. CASE UNCHANGED ledger
    BY <1>b, <2>2, <2>3 DEF ExitCodes
  <2>4. CASE /\ \/ pc[c] = "locked" /\ MayReserve(c, None, TRUE)
                \/ pc[c] = "finishing" /\ MayFinish(c)
             /\ ledger' = [ledger EXCEPT ![r][q] = NoRecord("torn")]
    <3>1. PICK rec : rec.state = "torn" /\ ledger' = [ledger EXCEPT ![r][q] = rec]
      BY <2>4 DEF NoRecord
    <3>2. Written(r, q, rec)
      BY <3>1 DEF Written
    <3>3. /\ Status' = [Status EXCEPT ![r][q] = StatusOf(rec)]
          /\ Result' = [Result EXCEPT ![r][q] = ResultOf(rec)]
      BY <3>2, RecordView DEF Shown
    <3>4. StatusOf(rec) = "lost" /\ ResultOf(rec) = 2
      BY <3>1 DEF StatusOf, ResultOf
    <3>5. /\ Status[r][q] \in {"new", "open"} /\ ResultOf(ledger[r][q]) = 2
          /\ Status[r][q] = "new" => Promise!Quiet(r, q)
      <4>1. CASE MayReserve(c, None, TRUE)
        <5>1. ledger[r][q].state = "absent" /\ \A p \in Requests \ {q} : Settled(r, p)
          BY <2>1, <4>1 DEF MayReserve, Siblings, Settled, RecordOf
        <5>2. Promise!Quiet(r, q)
          BY <5>1, SettledIsQuiet
        <5> QED
          BY <5>1, <5>2 DEF Status, StatusOf, ResultOf
      <4>2. CASE MayFinish(c)
        BY <2>1, <4>2 DEF MayFinish, RecordOf, Status, StatusOf, ResultOf
      <4> QED
        BY <2>4, <4>1, <4>2
    <3>6. UNCHANGED <<Result, Executed>>
      BY <2>2, <3>3, <3>4, <3>5, SameResult, ExecutedView
    <3>7. Promise!Tell(c, r, q, 2)
      BY <1>0, <2>1, <2>2, LeaveTells DEF ExitCodes
    <3>8. Promise!Abort(c, r, q)
      BY <3>3, <3>4, <3>5, <3>6, <3>7 DEF Promise!Abort, Promise!Lose
    <3> QED
      BY <3>8 DEF Promise!Next
  <2> QED
    BY <1>5, <2>1, <2>3, <2>4 DEF Die
<1>6. ASSUME NEW c \in Callers, Busy(c) \/ Refuse(c) PROVE Promise!Next
  <2>1. /\ pc[c] # "idle" /\ UNCHANGED <<ledger, attempts>>
        /\ Leave(c, "busy", 2) \/ Leave(c, "refused", 2)
    BY <1>6 DEF Busy, Refuse
  <2> QED
    BY <1>b, <2>1 DEF ExitCodes
<1>7. ASSUME NEW c \in Callers, AnswerCached(c) \/ Report(c) PROVE Promise!Next
  <2>1. /\ pc[c] \in Answering /\ pc[c] # "idle" /\ UNCHANGED <<ledger, attempts>>
        /\ \E kind \in {"cached", "done"}, code \in {work[c].code, 2} : Leave(c, kind, code)
    BY <1>7 DEF AnswerCached, Report, Answering
  <2>2. work[c].code \in ExitCodes /\ 2 \in ExitCodes
    BY <1>0 DEF Work, ExitCodes
  <2>3. work[c].code # 2 => RecordOf(c).state = "completed" /\ RecordOf(c).exit = work[c].code
    BY <1>0, <2>1 DEF AnswersOK, Answered
  <2> QED
    BY <1>b, <2>1, <2>2, <2>3
<1>8. ASSUME NEW c \in Callers, RunSuite(c) \/ Seal(c)
      PROVE  UNCHANGED <<Status, Result, Executed, Told>>
  <2> DEFINE made == attempts[call[c].run]
  <2>1. /\ call[c].run \in Runs
        /\ Len(made) \in 1 .. Len(made) /\ made[Len(made)] \in Attempt
    BY <1>0, <1>8, LastAttempt DEF RunSuite, Seal, Call
  <2>2. \E a : /\ a.request = made[Len(made)].request
               /\ attempts' = [attempts EXCEPT ![call[c].run] = [made EXCEPT ![Len(made)] = a]]
    BY <1>8, <2>1 DEF RunSuite, Seal, Attempt
  <2>3. UNCHANGED Executed
    BY <1>0, <2>1, <2>2, SameExecuted
  <2> QED
    BY <1>8, <2>3, LedgerView, SameAnswers DEF RunSuite, Seal
<1>9. ASSUME NEW s \in Runs, AlterEvidence(s)
      PROVE  UNCHANGED <<Status, Result, Executed, Told>>
  <2>1. PICK i \in 1 .. Len(attempts[s]) :
          attempts' = [attempts EXCEPT ![s] =
                         [attempts[s] EXCEPT ![i] = [attempts[s][i] EXCEPT !.receipt = "changed"]]]
    BY <1>9 DEF AlterEvidence
  <2>2. attempts[s][i] \in Attempt
    BY <1>0, ElementOfSeq
  <2>3. [attempts[s][i] EXCEPT !.receipt = "changed"].request = attempts[s][i].request
    BY <2>2 DEF Attempt
  <2>4. UNCHANGED Executed
    BY <1>0, <2>1, <2>3, SameExecuted
  <2> QED
    BY <1>9, <2>4, LedgerView, SameAnswers DEF AlterEvidence
<1>10. ASSUME \/ \E c \in Callers : \/ Acquire(c) \/ Replay(c) \/ NoteInvocation(c)
                                    \/ RejectPreflight(c) \/ BlockBaseline(c) \/ Raise(c)
              \/ \E s \in Runs : EditInputs(s)
              \/ UNCHANGED vars
       PROVE  UNCHANGED <<Status, Result, Executed, Told>>
  <2>1. UNCHANGED <<ledger, attempts, reply>>
    BY <1>10 DEF vars, Acquire, Replay, NoteInvocation, RejectPreflight, BlockBaseline, Raise, EditInputs
  <2> QED
    BY <2>1, LedgerView, ExecutedView, SameAnswers
<1> QED
  BY <1>1, <1>2, <1>3, <1>4, <1>5, <1>6, <1>7, <1>8, <1>9, <1>10 DEF Next, Execute

(* For any callers, runs and requests, everything the files of the ledger   *)
(* and its callers do is allowed by the promise: one execution per request, *)
(* nothing beside or after a lost one, and only decisions as answers.       *)
THEOREM LedgerKeepsItsPromise == Spec => KeepsPromise
<1>1. Init => Promise!Init
  <2> SUFFICES ASSUME Init PROVE Promise!Init
    OBVIOUS
  <2>1. Status = [r \in Runs |-> [q \in Requests |-> "new"]]
    BY DEF Init, Status, StatusOf, NoRecord
  <2>2. Result = [r \in Runs |-> [q \in Requests |-> 2]]
    BY DEF Init, Result, ResultOf, NoRecord
  <2>3. Executed = [r \in Runs |-> {}]
    BY DEF Init, Executed
  <2>4. Told = [c \in Callers |-> None]
    BY DEF Init, Told
  <2> QED
    BY <2>1, <2>2, <2>3, <2>4 DEF Promise!Init
<1> QED
  BY RefInvariant, StepRefines, <1>1, PTL DEF Spec, KeepsPromise, Promise!Spec
=============================================================================
