--------------------------- MODULE SchedulerProofs ---------------------------
(***************************************************************************)
(* Proofs of the safety properties of Scheduler, for every set of          *)
(* deployments and keys and all limits of the retry policy; and of the     *)
(* record that RequestAudit keeps of requests, for any finite number of    *)
(* calls, any ids and any number of failed writes and crashes.             *)
(*                                                                         *)
(* RecordIsTrue speaks of rows that are closed.  RecordInv says what holds *)
(* on the way there: what the gateway knows of a call at each place it     *)
(* stands at (Shaped), that only calls that got to their finalizers have   *)
(* been billed (Billed), and what there is of the record of an id that     *)
(* nothing spoilt (Kept).  A step of a call touches the record of its own  *)
(* id only (OneRecord).                                                    *)
(***************************************************************************)
EXTENDS MCScheduler, FiniteSetTheorems, TLAPS

-----------------------------------------------------------------------------
(* The decision matrix *)

LEMMA ErrorsAre ==
    Errors = {"invalid", "missing", "rejected", "throttle", "shared", "slow", "broken",
              "timeout", "overload", "unknown", "nokey"}
  BY DEF Errors, Matrix

\* What each decision says of the failure it answers.
LEMMA DecisionFacts ==
    ASSUME NEW e \in UpstreamErrors
    PROVE  /\ Decide(e) \in {"retry", "key", "deployment", "abort"}
           /\ Decide(e) = "retry" => /\ e \in {"slow", "broken", "timeout", "overload"}
                                     /\ retries < RetryLimit
           /\ Decide(e) = "key" => e \in {"rejected", "throttle", "broken"}
           /\ Decide(e) = "deployment" => e \notin {"invalid", "slow"}
           /\ Decide(e) = "abort" => e \in {"invalid", "slow"}
  BY ErrorsAre, SMTT(30) DEF UpstreamErrors, Errors, Decide, Classified, Matrix, Row

LEMMA StatusFacts ==
    /\ \A e \in Errors : Matrix[e].status \in Nat
    /\ \A e \in Errors \cup {None} :
          /\ ExhaustedStatus(e) \in Nat
          /\ ExhaustedStatus(e) # 401
          /\ ExhaustedStatus(e) = 400 => e = "invalid"
          /\ ExhaustedStatus(e) = 504 => e = "timeout"
    /\ Matrix["invalid"].status = 400 /\ Matrix["slow"].status = 408
  BY ErrorsAre DEF Errors, ExhaustedStatus, Matrix, Row

LEMMA LimitFacts == RetryLimit \in Nat
  BY LimitAssumption DEF RetryLimit

-----------------------------------------------------------------------------
(* Types *)

\* Once a candidate is looked at, it is a deployment.
Typed ==
    /\ TypeOK
    /\ phase \notin {"plan", "done"} => dep \in Deployments

LEMMA InitType == Init => Typed
  <1>. SUFFICES ASSUME Init PROVE Typed
    OBVIOUS
  <1>1. last \in Verdict
    BY DEF Init, Verdict, NoError
  <1>2. phase \in Phases /\ retries \in 0..RetryLimit
    BY LimitFacts DEF Init, Phases
  <1>3. tried \in 0..MaxDeployments
    BY LimitAssumption DEF Init
  <1>. QED BY <1>1, <1>2, <1>3 DEF Init, Typed, TypeOK

LEMMA NextType == Typed /\ [Next]_vars => Typed'
  <1>. SUFFICES ASSUME Typed, [Next]_vars PROVE Typed'
    OBVIOUS
  <1>a. CASE UNCHANGED vars
    BY <1>a DEF vars, Typed, TypeOK, RetryLimit
  <1>b. CASE Next
    <2>. USE DEF Typed, TypeOK, RetryLimit, Phases, Verdict, Outcome, Result
    <2>1. ASSUME NEW d \in Deployments, Skip(d)  PROVE  Typed'
      BY <2>1, LimitAssumption DEF Skip
    <2>2. ASSUME NEW d \in Deployments, NoAdapter(d)  PROVE  Typed'
      BY <2>2, ErrorsAre, LimitAssumption DEF NoAdapter, NextCandidate
    <2>3. ASSUME NEW d \in Deployments, TakeKeys(d)  PROVE  Typed'
      BY <2>3, LimitAssumption DEF TakeKeys, NextCandidate, Offers
    <2>4. ASSUME NEW d \in Deployments, QueueForKey(d)  PROVE  Typed'
      BY <2>4, LimitAssumption DEF QueueForKey, NextCandidate
    <2>5. ASSUME NEW d \in Deployments, NoKey(d)  PROVE  Typed'
      BY <2>5, ErrorsAre, LimitAssumption DEF NoKey, NextCandidate, NoKeyOutcome, Record
    <2>6. CASE KeyCameBack
      BY <2>6, LimitAssumption DEF KeyCameBack, Offers
    <2>7. CASE StillNoKey
      BY <2>7, ErrorsAre DEF StillNoKey, NoKeyOutcome, Record
    <2>8. CASE OutOfCandidates
      BY <2>8, StatusFacts DEF OutOfCandidates, Exhausted, Done
    <2>9. ASSUME NEW k \in Credentials, OverQuota(k)  PROVE  Typed'
      BY <2>9 DEF OverQuota
    <2>10. ASSUME NEW k \in Credentials, TryKey(k)  PROVE  Typed'
      BY <2>10, StatusFacts, LimitFacts, LimitAssumption
         DEF TryKey, Send, SendUnchecked, Exhausted, Done
    <2>11. CASE OutOfKeys
      BY <2>11 DEF OutOfKeys
    <2>12. CASE CallAgain
      BY <2>12, StatusFacts, LimitAssumption DEF CallAgain, Send, SendUnchecked, Exhausted, Done
    <2>13. CASE Reply
      BY <2>13 DEF Reply, Record, Done
    <2>14. CASE Open
      BY <2>14 DEF Open
    <2>15. CASE StreamEnds
      BY <2>15 DEF StreamEnds, Record, Done
    <2>16. ASSUME NEW e \in UpstreamErrors, Fail(e)  PROVE  Typed'
      BY <2>16, DecisionFacts, StatusFacts, LimitFacts DEF Fail, Record, Done, UpstreamErrors
    <2>17. ASSUME NEW e \in UpstreamErrors, StreamBreaks(e)  PROVE  Typed'
      BY <2>17 DEF StreamBreaks, Record, Done, UpstreamErrors
    <2>18. CASE Disconnect
      BY <2>18 DEF Disconnect, Record, Done
    <2>19. CASE BudgetSpent
      BY <2>19 DEF BudgetSpent
    <2>. QED BY <1>b, <2>1, <2>2, <2>3, <2>4, <2>5, <2>6, <2>7, <2>8, <2>9, <2>10, <2>11,
              <2>12, <2>13, <2>14, <2>15, <2>16, <2>17, <2>18, <2>19
       DEF Next, Step, Candidates
  <1>. QED BY <1>a, <1>b

-----------------------------------------------------------------------------
(* What the client is told *)

Honest ==
    /\ HonestStatus
    /\ phase # "done" => result = None

LEMMA NextHonest == Typed /\ Honest /\ [Next]_vars => Honest'
  <1>. SUFFICES ASSUME Typed, Honest, [Next]_vars PROVE Honest'
    OBVIOUS
  <1>0. last.err \in Errors \cup {None}
    BY DEF Typed, TypeOK, Verdict
  <1>a. CASE UNCHANGED vars
    BY <1>a DEF vars, Honest, HonestStatus
  <1>b. CASE Next
    <2>. USE DEF Honest, HonestStatus
    <2>1. ASSUME NEW d \in Deployments, Skip(d)  PROVE  Honest'
      BY <2>1 DEF Skip
    <2>2. ASSUME NEW d \in Deployments, NoAdapter(d)  PROVE  Honest'
      BY <2>2 DEF NoAdapter, NextCandidate
    <2>3. ASSUME NEW d \in Deployments, TakeKeys(d)  PROVE  Honest'
      BY <2>3 DEF TakeKeys, NextCandidate
    <2>4. ASSUME NEW d \in Deployments, QueueForKey(d)  PROVE  Honest'
      BY <2>4 DEF QueueForKey, NextCandidate
    <2>5. ASSUME NEW d \in Deployments, NoKey(d)  PROVE  Honest'
      BY <2>5 DEF NoKey, NextCandidate, NoKeyOutcome
    <2>6. CASE KeyCameBack
      BY <2>6 DEF KeyCameBack
    <2>7. CASE StillNoKey
      BY <2>7 DEF StillNoKey, NoKeyOutcome
    <2>8. CASE OutOfCandidates
      BY <2>8, <1>0, StatusFacts DEF OutOfCandidates, Exhausted, Done
    <2>9. ASSUME NEW k \in Credentials, OverQuota(k)  PROVE  Honest'
      BY <2>9 DEF OverQuota
    <2>10. ASSUME NEW k \in Credentials, TryKey(k)  PROVE  Honest'
      BY <2>10, <1>0, StatusFacts DEF TryKey, Send, SendUnchecked, Exhausted, Done
    <2>11. CASE OutOfKeys
      BY <2>11 DEF OutOfKeys
    <2>12. CASE CallAgain
      BY <2>12, <1>0, StatusFacts DEF CallAgain, Send, SendUnchecked, Exhausted, Done
    <2>13. CASE Reply
      BY <2>13 DEF Reply, Done
    <2>14. CASE Open
      BY <2>14 DEF Open
    <2>15. CASE StreamEnds
      BY <2>15 DEF StreamEnds, Done
    <2>16. ASSUME NEW e \in UpstreamErrors, Fail(e)  PROVE  Honest'
      BY <2>16, DecisionFacts, StatusFacts DEF Fail, Done, UpstreamErrors
    <2>17. ASSUME NEW e \in UpstreamErrors, StreamBreaks(e)  PROVE  Honest'
      BY <2>17 DEF StreamBreaks, Done
    <2>18. CASE Disconnect
      BY <2>18 DEF Disconnect, Done
    <2>19. CASE BudgetSpent
      BY <2>19 DEF BudgetSpent
    <2>. QED BY <1>b, <2>1, <2>2, <2>3, <2>4, <2>5, <2>6, <2>7, <2>8, <2>9, <2>10, <2>11,
              <2>12, <2>13, <2>14, <2>15, <2>16, <2>17, <2>18, <2>19
       DEF Next, Step, Candidates
  <1>. QED BY <1>a, <1>b

-----------------------------------------------------------------------------
(* What a failure allows *)

\* No candidate comes twice; the failure that is remembered allows what the request is
\* about to do.
Prudent ==
    /\ FailoverDiscipline
    /\ dep \notin todo /\ last.dep \notin todo
    /\ phase = "wait" => key = None
    /\ phase \in {"keys", "backoff", "sent"} => key \notin keys
    /\ phase \notin {"open", "done"} /\ last.err # None =>
        /\ last.err # "invalid"
        /\ last.err = "slow" => phase \in {"backoff", "sent"} /\ last.dep = dep
        /\ phase = "wait" => last.dep # dep
        /\ phase = "keys" /\ last.dep = dep =>
               last.err \in {"rejected", "throttle", "broken"} /\ last.key \notin keys
        /\ phase = "backoff" =>
               /\ last.dep = dep /\ last.key = key
               /\ last.err \in {"slow", "broken", "timeout", "overload"}

LEMMA NextPrudent == Typed /\ Prudent /\ [Next]_vars => Prudent'
  <1>. SUFFICES ASSUME Typed, Prudent, [Next]_vars PROVE Prudent'
    OBVIOUS
  <1>a. CASE UNCHANGED vars
    BY <1>a DEF vars, Prudent, FailoverDiscipline
  <1>b. CASE Next
    <2>. USE DEF Typed, TypeOK, Prudent, FailoverDiscipline
    <2>1. ASSUME NEW d \in Deployments, Skip(d)  PROVE  Prudent'
      BY <2>1 DEF Skip
    <2>2. ASSUME NEW d \in Deployments, NoAdapter(d)  PROVE  Prudent'
      BY <2>2, LimitAssumption DEF NoAdapter, NextCandidate
    <2>3. ASSUME NEW d \in Deployments, TakeKeys(d)  PROVE  Prudent'
      BY <2>3, LimitAssumption DEF TakeKeys, NextCandidate, Offers
    <2>4. ASSUME NEW d \in Deployments, QueueForKey(d)  PROVE  Prudent'
      BY <2>4, LimitAssumption DEF QueueForKey, NextCandidate
    <2>5. ASSUME NEW d \in Deployments, NoKey(d)  PROVE  Prudent'
      BY <2>5, LimitAssumption DEF NoKey, NextCandidate, NoKeyOutcome
    <2>6. CASE KeyCameBack
      BY <2>6, LimitAssumption DEF KeyCameBack, Offers
    <2>7. CASE StillNoKey
      BY <2>7 DEF StillNoKey, NoKeyOutcome
    <2>8. CASE OutOfCandidates
      BY <2>8 DEF OutOfCandidates, Exhausted, Done
    <2>9. ASSUME NEW k \in Credentials, OverQuota(k)  PROVE  Prudent'
      BY <2>9 DEF OverQuota
    <2>10. ASSUME NEW k \in Credentials, TryKey(k)  PROVE  Prudent'
      BY <2>10, LimitAssumption DEF TryKey, Send, SendUnchecked, Exhausted, Done
    <2>11. CASE OutOfKeys
      BY <2>11 DEF OutOfKeys
    <2>12. CASE CallAgain
      BY <2>12 DEF CallAgain, Send, SendUnchecked, Exhausted, Done
    <2>13. CASE Reply
      BY <2>13 DEF Reply, Done
    <2>14. CASE Open
      BY <2>14 DEF Open
    <2>15. CASE StreamEnds
      BY <2>15 DEF StreamEnds, Done
    <2>16. ASSUME NEW e \in UpstreamErrors, Fail(e)  PROVE  Prudent'
      BY <2>16, DecisionFacts DEF Fail, Done
    <2>17. ASSUME NEW e \in UpstreamErrors, StreamBreaks(e)  PROVE  Prudent'
      BY <2>17 DEF StreamBreaks, Done
    <2>18. CASE Disconnect
      BY <2>18 DEF Disconnect, Done
    <2>19. CASE BudgetSpent
      BY <2>19 DEF BudgetSpent
    <2>. QED BY <1>b, <2>1, <2>2, <2>3, <2>4, <2>5, <2>6, <2>7, <2>8, <2>9, <2>10, <2>11,
              <2>12, <2>13, <2>14, <2>15, <2>16, <2>17, <2>18, <2>19
       DEF Next, Step, Candidates
  <1>. QED BY <1>a, <1>b

-----------------------------------------------------------------------------
(* The audit trail *)

Books ==
    /\ AuditTrail
    /\ IsFiniteSet(log)
    /\ sends <= attempt /\ sends <= MaxTotalAttempts
    /\ phase \in {"sent", "open"} => attempt \notin Numbers /\ sends >= 1
    /\ Cardinality(log) = IF attempt = 0 \/ attempt \in Numbers THEN attempt ELSE attempt - 1

\* An attempt is recorded under a number that is not on record yet.
LEMMA RecordFacts ==
    ASSUME Typed, Books, NEW n \in Nat, n \notin Numbers,
           NEW s \in {"success", "error", "cancelled"}, Record(n, s)
    PROVE  /\ IsFiniteSet(log') /\ Cardinality(log') = Cardinality(log) + 1
           /\ Numbers' = Numbers \cup {n}
           /\ \A o \in log' : o \in log \/ (o.n = n /\ o.status = s)
           /\ \A o, p \in log' : o.n = p.n => o = p
  <1>. DEFINE new == [n |-> n, status |-> s]
  <1>1. log' = log \cup {new}
    BY DEF Record
  <1>2. new.n = n /\ new.status = s
    OBVIOUS
  <1>3. \A o \in log : o.n \in Numbers
    BY DEF Numbers
  <1>4. new \notin log
    BY <1>2, <1>3
  <1>5. \A o, p \in log : o.n = p.n => o = p
    BY DEF Books, AuditTrail
  <1>6. IsFiniteSet(log') /\ Cardinality(log') = Cardinality(log) + 1
    BY <1>1, <1>4, FS_AddElement DEF Books
  <1>7. Numbers' = Numbers \cup {n}
    BY <1>1, <1>2 DEF Numbers
  <1>. HIDE DEF new
  <1>. QED BY <1>1, <1>2, <1>3, <1>5, <1>6, <1>7

LEMMA NumberFacts ==
    ASSUME Typed, Books
    PROVE  /\ attempt \in Nat /\ sends \in Nat /\ Cardinality(log) \in Nat
           /\ Numbers \subseteq 1..attempt
           /\ \A o \in log : o.n \in Numbers
           /\ attempt + 1 \notin Numbers
  BY FS_CardinalityType DEF Typed, TypeOK, Books, AuditTrail, Numbers

LEMMA SameLog == log' = log => /\ Numbers' = Numbers /\ Cardinality(log') = Cardinality(log)
                               /\ IsFiniteSet(log') = IsFiniteSet(log)
  BY DEF Numbers

LEMMA InitBooks == Init => Books
  BY FS_EmptySet, LimitAssumption DEF Init, Books, AuditTrail, Numbers

\* Between two calls every attempt is on record, and none has succeeded.
LEMMA Between ==
    ASSUME Typed, Books, phase \in {"plan", "wait", "keys", "backoff"}
    PROVE  /\ 1..attempt \subseteq Numbers
           /\ Cardinality(log) = attempt
           /\ \A o \in log : o.status # "success"
  <1>1. attempt = 0 \/ attempt \in Numbers
    BY NumberFacts DEF Books, AuditTrail
  <1>. QED BY <1>1, NumberFacts DEF Books, AuditTrail

LEMMA SendBooks ==
    ASSUME Typed, Books, phase \in {"keys", "backoff"}, Send, log' = log
    PROVE  Books'
  <1>. USE NumberFacts, Between, SameLog
  <1>0. \A o, p \in log' : o.n = p.n => o = p
    BY DEF Books, AuditTrail
  <1>1. CASE phase' = "done"
    <2>1. attempt' = attempt /\ sends' = sends
      BY <1>1 DEF Send, SendUnchecked, Done
    <2>. QED BY <1>1, <2>1 DEF Books, AuditTrail
  <1>2. CASE phase' # "done"
    <2>1. /\ phase' = "sent" /\ attempt' = attempt + 1 /\ sends' = sends + 1
          /\ attempt < MaxTotalAttempts
      BY <1>2, LimitAssumption DEF Send, SendUnchecked, Exhausted, Done
    <2>2. Numbers' \subseteq 1..attempt' /\ 1..(attempt' - 1) \subseteq Numbers'
      BY <2>1
    <2>3. \A o \in log' : o.status # "success"
      OBVIOUS
    <2>4. AuditTrail'
      BY <1>0, <2>1, <2>2, <2>3 DEF AuditTrail
    <2>. QED BY <2>1, <2>4, LimitAssumption DEF Books
  <1>. QED BY <1>1, <1>2

LEMMA NextBooks == Typed /\ Honest /\ Books /\ [Next]_vars => Books'
  <1>. SUFFICES ASSUME Typed, Honest, Books, [Next]_vars PROVE Books'
    OBVIOUS
  <1>0. /\ attempt \in Nat /\ sends \in Nat /\ Cardinality(log) \in Nat
        /\ Numbers \subseteq 1..attempt
        /\ \A o \in log : o.n \in Numbers
        /\ attempt + 1 \notin Numbers
    BY NumberFacts
  <1>a. CASE UNCHANGED vars
    BY <1>a, SameLog DEF vars, Books, AuditTrail
  <1>b. CASE Next
    <2>1. ASSUME NEW d \in Deployments, Skip(d)  PROVE  Books'
      BY <2>1, <1>0, SameLog DEF Skip, Books, AuditTrail
    <2>2. ASSUME NEW d \in Deployments, NoAdapter(d)  PROVE  Books'
      BY <2>2, <1>0, SameLog DEF NoAdapter, NextCandidate, Books, AuditTrail
    <2>3. ASSUME NEW d \in Deployments, TakeKeys(d)  PROVE  Books'
      BY <2>3, <1>0, SameLog DEF TakeKeys, NextCandidate, Books, AuditTrail
    <2>4. ASSUME NEW d \in Deployments, QueueForKey(d)  PROVE  Books'
      BY <2>4, <1>0, SameLog DEF QueueForKey, NextCandidate, Books, AuditTrail
    <2>5. ASSUME NEW d \in Deployments, NoKey(d)  PROVE  Books'
      <3>1. Record(attempt + 1, "error") /\ attempt + 1 \notin Numbers
        BY <2>5, <1>0 DEF NoKey, NextCandidate, NoKeyOutcome, Books
      <3>2. /\ IsFiniteSet(log') /\ Cardinality(log') = Cardinality(log) + 1
            /\ Numbers' = Numbers \cup {attempt + 1}
            /\ \A o \in log' : o \in log \/ (o.n = attempt + 1 /\ o.status = "error")
            /\ \A o, p \in log' : o.n = p.n => o = p
        BY <3>1, <1>0, RecordFacts
      <3>. QED BY <2>5, <3>2, <1>0, Between
         DEF NoKey, NextCandidate, NoKeyOutcome, Books, AuditTrail
    <2>6. CASE KeyCameBack
      BY <2>6, <1>0, SameLog DEF KeyCameBack, Books, AuditTrail
    <2>7. CASE StillNoKey
      <3>1. Record(attempt + 1, "error") /\ attempt + 1 \notin Numbers
        BY <2>7, <1>0 DEF StillNoKey, NoKeyOutcome, Books
      <3>2. /\ IsFiniteSet(log') /\ Cardinality(log') = Cardinality(log) + 1
            /\ Numbers' = Numbers \cup {attempt + 1}
            /\ \A o \in log' : o \in log \/ (o.n = attempt + 1 /\ o.status = "error")
            /\ \A o, p \in log' : o.n = p.n => o = p
        BY <3>1, <1>0, RecordFacts
      <3>. QED BY <2>7, <3>2, <1>0, Between DEF StillNoKey, NoKeyOutcome, Books, AuditTrail
    <2>8. CASE OutOfCandidates
      BY <2>8, <1>0, SameLog DEF OutOfCandidates, Exhausted, Done, Books, AuditTrail
    <2>9. ASSUME NEW k \in Credentials, OverQuota(k)  PROVE  Books'
      BY <2>9, <1>0, SameLog DEF OverQuota, Books, AuditTrail
    <2>10. ASSUME NEW k \in Credentials, TryKey(k)  PROVE  Books'
      BY <2>10, SendBooks DEF TryKey
    <2>11. CASE OutOfKeys
      BY <2>11, <1>0, SameLog DEF OutOfKeys, Books, AuditTrail
    <2>12. CASE CallAgain
      BY <2>12, SendBooks DEF CallAgain
    <2>13. CASE Reply
      <3>1. Record(attempt, "success") /\ attempt \notin Numbers
        BY <2>13, <1>0 DEF Reply, Done, Books
      <3>2. /\ IsFiniteSet(log') /\ Cardinality(log') = Cardinality(log) + 1
            /\ Numbers' = Numbers \cup {attempt}
            /\ \A o \in log' : o \in log \/ (o.n = attempt /\ o.status = "success")
            /\ \A o, p \in log' : o.n = p.n => o = p
        BY <3>1, <1>0, RecordFacts
      <3>. QED BY <2>13, <3>2, <1>0 DEF Reply, Done, Books, AuditTrail
    <2>14. CASE Open
      BY <2>14, <1>0, SameLog DEF Open, Books, AuditTrail
    <2>15. CASE StreamEnds
      <3>1. Record(attempt, "success") /\ attempt \notin Numbers
        BY <2>15, <1>0 DEF StreamEnds, Done, Books
      <3>2. /\ IsFiniteSet(log') /\ Cardinality(log') = Cardinality(log) + 1
            /\ Numbers' = Numbers \cup {attempt}
            /\ \A o \in log' : o \in log \/ (o.n = attempt /\ o.status = "success")
            /\ \A o, p \in log' : o.n = p.n => o = p
        BY <3>1, <1>0, RecordFacts
      <3>. QED BY <2>15, <3>2, <1>0 DEF StreamEnds, Done, Books, AuditTrail
    <2>16. ASSUME NEW e \in UpstreamErrors, Fail(e)  PROVE  Books'
      <3>1. Record(attempt, "error") /\ attempt \notin Numbers
        BY <2>16, <1>0 DEF Fail, Done, Books
      <3>2. /\ IsFiniteSet(log') /\ Cardinality(log') = Cardinality(log) + 1
            /\ Numbers' = Numbers \cup {attempt}
            /\ \A o \in log' : o \in log \/ (o.n = attempt /\ o.status = "error")
            /\ \A o, p \in log' : o.n = p.n => o = p
        BY <3>1, <1>0, RecordFacts
      <3>. QED BY <2>16, <3>2, <1>0 DEF Fail, Done, Books, AuditTrail
    <2>17. ASSUME NEW e \in UpstreamErrors, StreamBreaks(e)  PROVE  Books'
      <3>1. Record(attempt, "error") /\ attempt \notin Numbers
        BY <2>17, <1>0 DEF StreamBreaks, Done, Books
      <3>2. /\ IsFiniteSet(log') /\ Cardinality(log') = Cardinality(log) + 1
            /\ Numbers' = Numbers \cup {attempt}
            /\ \A o \in log' : o \in log \/ (o.n = attempt /\ o.status = "error")
            /\ \A o, p \in log' : o.n = p.n => o = p
        BY <3>1, <1>0, RecordFacts
      <3>. QED BY <2>17, <3>2, <1>0 DEF StreamBreaks, Done, Books, AuditTrail
    <2>18. CASE Disconnect
      <3>1. CASE phase = "sent"
        <4>1. Record(attempt, "cancelled") /\ attempt \notin Numbers
          BY <2>18, <3>1, <1>0 DEF Disconnect, Books
        <4>2. /\ IsFiniteSet(log') /\ Cardinality(log') = Cardinality(log) + 1
              /\ Numbers' = Numbers \cup {attempt}
              /\ \A o \in log' : o \in log \/ (o.n = attempt /\ o.status = "cancelled")
              /\ \A o, p \in log' : o.n = p.n => o = p
          BY <4>1, <1>0, RecordFacts
        <4>. QED BY <2>18, <3>1, <4>2, <1>0 DEF Disconnect, Done, Books, AuditTrail
      <3>2. CASE phase # "sent"
        BY <2>18, <3>2, <1>0, SameLog DEF Disconnect, Done, Books, AuditTrail
      <3>. QED BY <3>1, <3>2
    <2>19. CASE BudgetSpent
      BY <2>19, <1>0, SameLog DEF BudgetSpent, Books, AuditTrail
    <2>. QED BY <1>b, <2>1, <2>2, <2>3, <2>4, <2>5, <2>6, <2>7, <2>8, <2>9, <2>10, <2>11,
              <2>12, <2>13, <2>14, <2>15, <2>16, <2>17, <2>18, <2>19
       DEF Next, Step, Candidates
  <1>. QED BY <1>a, <1>b

-----------------------------------------------------------------------------
(* Safety *)

IInv == Typed /\ Honest /\ Prudent /\ Books

LEMMA InitIInv == Init => IInv
  <1>. SUFFICES ASSUME Init PROVE IInv
    OBVIOUS
  <1>1. Honest
    BY DEF Init, Honest, HonestStatus
  <1>2. Prudent
    BY LimitAssumption DEF Init, Prudent, FailoverDiscipline, NoError
  <1>. QED BY <1>1, <1>2, InitType, InitBooks DEF IInv

LEMMA NextIInv == IInv /\ [Next]_vars => IInv'
  BY NextType, NextHonest, NextPrudent, NextBooks DEF IInv

\* The invariant the safety theorems follow from: types, what the remembered failure
\* allows, and books in which every attempt has one outcome.
THEOREM Inductive == Spec => []IInv
  BY InitIInv, NextIInv, PTL DEF Spec

\* Failover depth, retries and statuses stay in their ranges.
THEOREM RequestTypeCorrect == Spec => []TypeOK
  <1>1. IInv => TypeOK
    BY DEF IInv, Typed
  <1>. QED BY <1>1, Inductive, PTL

\* For any deployments, keys and limits, a failure is followed only by what it allows.
THEOREM FailoverIsDisciplined == Spec => []FailoverDiscipline
  <1>1. IInv => FailoverDiscipline
    BY DEF IInv, Prudent
  <1>. QED BY <1>1, Inductive, PTL

\* The gateway's own 401 never reaches a client, a 400 only for its own fault.
THEOREM StatusIsHonest == Spec => []HonestStatus
  <1>1. IInv => HonestStatus
    BY DEF IInv, Honest
  <1>. QED BY <1>1, Inductive, PTL

\* Attempt numbers are consecutive, one outcome each, and only the last may be missing.
THEOREM TrailIsComplete == Spec => []AuditTrail
  <1>1. IInv => AuditTrail
    BY DEF IInv, Books
  <1>. QED BY <1>1, Inductive, PTL

\* The three together.
THEOREM ConductIsHonest == Spec => []HonestConduct
  <1>1. FailoverDiscipline /\ HonestStatus /\ AuditTrail => HonestConduct
    BY DEF HonestConduct
  <1>. QED BY <1>1, FailoverIsDisciplined, StatusIsHonest, TrailIsComplete, PTL

-----------------------------------------------------------------------------
(* Refinement of RequestContract *)

Balance == Settled = IF attempt = 0 \/ attempt \in Numbers THEN sends ELSE sends - 1

LEMMA BooksBalance == Typed /\ Books => Balance
  <1>. SUFFICES ASSUME Typed, Books PROVE Balance
    OBVIOUS
  <1>1. attempt = 0 => sends = 0
    BY NumberFacts DEF Books
  <1>. QED BY <1>1, NumberFacts DEF Books, Balance, Settled

\* What the books say between calls and during one.
LEMMA BalanceFacts ==
    ASSUME Typed, Books
    PROVE  /\ sends \in Nat /\ Balance
           /\ phase \in {"plan", "wait", "keys", "backoff"} => Settled = sends
           /\ phase \in {"sent", "open"} => Settled = sends - 1 /\ sends >= 1
  <1>1. phase \in {"plan", "wait", "keys", "backoff"} => Settled = sends
    <2>. SUFFICES ASSUME phase \in {"plan", "wait", "keys", "backoff"} PROVE Settled = sends
      OBVIOUS
    <2>. QED BY NumberFacts, Between DEF Settled
  <1>2. phase \in {"sent", "open"} => Settled = sends - 1 /\ sends >= 1
    <2>. SUFFICES ASSUME phase \in {"sent", "open"}
                  PROVE  Settled = sends - 1 /\ sends >= 1
      OBVIOUS
    <2>. QED BY NumberFacts, BooksBalance DEF Books, Balance
  <1>. QED BY <1>1, <1>2, NumberFacts, BooksBalance

LEMMA Recorded ==
    ASSUME NEW s, Record(attempt, s)
    PROVE  attempt \in Numbers'
  <1>1. [n |-> attempt, status |-> s] \in log'
    BY DEF Record
  <1>. QED BY <1>1 DEF Numbers

LEMMA NextContract == IInv /\ IInv' /\ [Next]_vars => [Contract!Next]_(Contract!vars)
  <1>. SUFFICES ASSUME IInv, IInv', [Next]_vars PROVE [Contract!Next]_(Contract!vars)
    OBVIOUS
  <1>0. /\ sends \in Nat /\ sends <= MaxTotalAttempts /\ attempt \in Nat
        /\ phase \in {"plan", "wait", "keys", "backoff"} => Settled = sends
        /\ phase \in {"sent", "open"} => Settled = sends - 1 /\ sends >= 1
    BY BalanceFacts DEF IInv, Books, Typed, TypeOK
  <1>1. (Typed /\ Books => Balance)'
    BY BooksBalance, PTL
  <1>2. Settled' = IF attempt' = 0 \/ attempt' \in Numbers' THEN sends' ELSE sends' - 1
    BY <1>1 DEF IInv, Balance
  <1>3. sends' <= MaxTotalAttempts
    BY DEF IInv, Books
  <1>4. log' = log /\ attempt' = attempt /\ sends' = sends => Settled' = Settled
    BY DEF Settled
  <1>. DEFINE Goal == [Contract!Next]_(Contract!vars)
  <1>a. CASE UNCHANGED vars
    BY <1>a, <1>4 DEF vars, Contract!vars
  <1>b. CASE Next
    <2>1. ASSUME NEW d \in Deployments, Skip(d)  PROVE  Goal
      BY <2>1, <1>4 DEF Skip, Contract!vars
    <2>2. ASSUME NEW d \in Deployments, NoAdapter(d)  PROVE  Goal
      BY <2>2, <1>4 DEF NoAdapter, NextCandidate, Contract!vars
    <2>3. ASSUME NEW d \in Deployments, TakeKeys(d)  PROVE  Goal
      BY <2>3, <1>4 DEF TakeKeys, NextCandidate, Contract!vars
    <2>4. ASSUME NEW d \in Deployments, QueueForKey(d)  PROVE  Goal
      BY <2>4, <1>4 DEF QueueForKey, NextCandidate, Contract!vars
    <2>5. ASSUME NEW d \in Deployments, NoKey(d)  PROVE  Goal
      <3>1. /\ phase \in {"plan", "wait"} /\ phase' = "plan" /\ attempt' = attempt + 1
            /\ sends' = sends /\ late' = late /\ Record(attempt', "error")
        BY <2>5 DEF NoKey, NextCandidate, NoKeyOutcome
      <3>2. attempt' \in Numbers'
        <4>1. [n |-> attempt', status |-> "error"] \in log'
          BY <3>1 DEF Record
        <4>. QED BY <4>1 DEF Numbers
      <3>. QED BY <3>1, <3>2, <1>0, <1>2 DEF Contract!vars
    <2>6. CASE KeyCameBack
      BY <2>6, <1>4 DEF KeyCameBack, Contract!vars
    <2>7. CASE StillNoKey
      <3>1. /\ phase \in {"plan", "wait"} /\ phase' = "plan" /\ attempt' = attempt + 1
            /\ sends' = sends /\ late' = late /\ Record(attempt', "error")
        BY <2>7 DEF StillNoKey, NoKeyOutcome
      <3>2. attempt' \in Numbers'
        <4>1. [n |-> attempt', status |-> "error"] \in log'
          BY <3>1 DEF Record
        <4>. QED BY <4>1 DEF Numbers
      <3>. QED BY <3>1, <3>2, <1>0, <1>2 DEF Contract!vars
    <2>8. CASE OutOfCandidates
      BY <2>8, <1>4
         DEF OutOfCandidates, Exhausted, Done, Contract!vars, Contract!Next, Contract!Close
    <2>9. ASSUME NEW k \in Credentials, OverQuota(k)  PROVE  Goal
      BY <2>9, <1>4 DEF OverQuota, Contract!vars
    <2>10. ASSUME NEW k \in Credentials, TryKey(k)  PROVE  Goal
      <3>1. CASE phase' = "done"
        <4>1. sends' = sends /\ attempt' = attempt /\ log' = log /\ late' = late
          BY <2>10, <3>1 DEF TryKey, Send, SendUnchecked, Done
        <4>2. Contract!Close
          BY <2>10, <3>1, <4>1, <1>4 DEF TryKey, Contract!Close
        <4>. QED BY <4>2 DEF Contract!Next
      <3>2. CASE phase' # "done"
        <4>1. /\ phase' = "sent" /\ ~late /\ late' = late /\ log' = log
              /\ sends' = sends + 1 /\ attempt' = attempt + 1
          BY <2>10, <3>2 DEF TryKey, Send, SendUnchecked, Exhausted, Done
        <4>2. Settled' = Settled
          BY <4>1, <1>0, NumberFacts DEF IInv, Settled
        <4>3. Contract!Call
          BY <2>10, <4>1, <4>2, <1>0, <1>3, LimitAssumption DEF TryKey, Contract!Call
        <4>. QED BY <4>3 DEF Contract!Next
      <3>. QED BY <3>1, <3>2
    <2>11. CASE OutOfKeys
      BY <2>11, <1>4 DEF OutOfKeys, Contract!vars
    <2>12. CASE CallAgain
      <3>1. CASE phase' = "done"
        <4>1. sends' = sends /\ attempt' = attempt /\ log' = log /\ late' = late
          BY <2>12, <3>1 DEF CallAgain, Send, SendUnchecked, Done
        <4>2. Contract!Close
          BY <2>12, <3>1, <4>1, <1>4 DEF CallAgain, Contract!Close
        <4>. QED BY <4>2 DEF Contract!Next
      <3>2. CASE phase' # "done"
        <4>1. /\ phase' = "sent" /\ ~late /\ late' = late /\ log' = log
              /\ sends' = sends + 1 /\ attempt' = attempt + 1
          BY <2>12, <3>2 DEF CallAgain, Send, SendUnchecked, Exhausted, Done
        <4>2. Settled' = Settled
          BY <4>1, <1>0, NumberFacts DEF IInv, Settled
        <4>3. Contract!Call
          BY <2>12, <4>1, <4>2, <1>0, <1>3, LimitAssumption DEF CallAgain, Contract!Call
        <4>. QED BY <4>3 DEF Contract!Next
      <3>. QED BY <3>1, <3>2
    <2>13. CASE Reply
      <3>1. /\ phase = "sent" /\ phase' = "done"
            /\ sends' = sends /\ attempt' = attempt /\ late' = late /\ Record(attempt, "success")
        BY <2>13 DEF Reply, Done
      <3>2. attempt' \in Numbers'
        BY <3>1, Recorded
      <3>3. Contract!Settle
        BY <3>1, <3>2, <1>0, <1>2 DEF Contract!Settle
      <3>. QED BY <3>3 DEF Contract!Next
    <2>14. CASE Open
      BY <2>14, <1>0, <1>4 DEF Open, Contract!vars, Contract!Next, Contract!FirstByte
    <2>15. CASE StreamEnds
      <3>1. /\ phase = "open" /\ phase' = "done"
            /\ sends' = sends /\ attempt' = attempt /\ late' = late /\ Record(attempt, "success")
        BY <2>15 DEF StreamEnds, Done
      <3>2. attempt' \in Numbers'
        BY <3>1, Recorded
      <3>3. Contract!Settle
        BY <3>1, <3>2, <1>0, <1>2 DEF Contract!Settle
      <3>. QED BY <3>3 DEF Contract!Next
    <2>16. ASSUME NEW e \in UpstreamErrors, Fail(e)  PROVE  Goal
      <3>1. /\ phase = "sent" /\ phase' \in {"backoff", "keys", "plan", "done"}
            /\ sends' = sends /\ attempt' = attempt /\ late' = late /\ Record(attempt, "error")
        BY <2>16 DEF Fail, Done
      <3>2. attempt' \in Numbers'
        BY <3>1, Recorded
      <3>3. Contract!Settle
        BY <3>1, <3>2, <1>0, <1>2 DEF Contract!Settle
      <3>. QED BY <3>3 DEF Contract!Next
    <2>17. ASSUME NEW e \in UpstreamErrors, StreamBreaks(e)  PROVE  Goal
      <3>1. /\ phase = "open" /\ phase' = "done"
            /\ sends' = sends /\ attempt' = attempt /\ late' = late /\ Record(attempt, "error")
        BY <2>17 DEF StreamBreaks, Done
      <3>2. attempt' \in Numbers'
        BY <3>1, Recorded
      <3>3. Contract!Settle
        BY <3>1, <3>2, <1>0, <1>2 DEF Contract!Settle
      <3>. QED BY <3>3 DEF Contract!Next
    <2>18. CASE Disconnect
      <3>1. /\ phase' = "done" /\ sends' = sends /\ attempt' = attempt /\ late' = late
        BY <2>18 DEF Disconnect, Done
      <3>2. CASE phase = "sent"
        <4>1. attempt' \in Numbers'
          BY <2>18, <3>1, <3>2, Recorded DEF Disconnect
        <4>2. Contract!Settle
          BY <3>1, <3>2, <4>1, <1>0, <1>2 DEF Contract!Settle
        <4>. QED BY <4>2 DEF Contract!Next
      <3>3. CASE phase # "sent"
        BY <2>18, <3>1, <3>3, <1>4 DEF Disconnect, Contract!Next, Contract!Close
      <3>. QED BY <3>2, <3>3
    <2>19. CASE BudgetSpent
      BY <2>19, <1>4 DEF BudgetSpent, Contract!Next, Contract!TimeUp
    <2>. QED BY <1>b, <2>1, <2>2, <2>3, <2>4, <2>5, <2>6, <2>7, <2>8, <2>9, <2>10, <2>11,
              <2>12, <2>13, <2>14, <2>15, <2>16, <2>17, <2>18, <2>19
       DEF Next, Step, Candidates
  <1>. QED BY <1>a, <1>b

\* Scheduler implements RequestContract, whatever the limits and the failures.
THEOREM ContractKept == Spec => KeepsContract
  <1>1. Init => Contract!Init
    <2>. SUFFICES ASSUME Init PROVE Contract!Init
      OBVIOUS
    <2>1. Settled = 0
      BY FS_EmptySet DEF Init, Settled
    <2>. QED BY <2>1 DEF Init, Contract!Init
  <1>. QED BY <1>1, Inductive, NextContract, PTL DEF Spec, KeepsContract, Contract!Spec

-----------------------------------------------------------------------------
(* The record of a request *)

Streaming(c) == kind[c] \in {"chat", "events"}

\* What the flags of a call whose end is being written down say of what happened to it.
FlagsTell(c) ==
    /\ "cancelled" \in flags[c] => left[c] \/ (kind[c] = "events" /\ fate[c] = "failed")
    /\ "cancelled" \notin flags[c] =>
        fate[c] = IF "meta" \in flags[c] /\ "error" \notin flags[c] THEN "answered" ELSE "failed"
    /\ "meta" \in flags[c] => made[c] > 0 /\ (Streaming(c) => known[c] = made[c])

\* Where a call stands tells what the gateway knows of it.
Shape(c) ==
    /\ pc[c] = "idle" => made[c] = 0 /\ ~left[c]
    /\ pc[c] \in {"idle", "start", "gate", "upstream", "chunks"} =>
        flags[c] = {} /\ fate[c] = "open"
    /\ pc[c] \in {"idle", "start", "gate", "upstream"} => known[c] = made[c]
    /\ pc[c] \in {"chunks", "broken"} => Streaming(c) /\ known[c] + 1 = made[c]
    /\ pc[c] = "broken" => flags[c] = {"error"} /\ fate[c] = "failed"
    /\ pc[c] \in {"usage", "meta", "end"} =>
        /\ Streaming(c) /\ known[c] = made[c] /\ made[c] > 0
        /\ "cancelled" \notin flags[c]
        /\ fate[c] = IF "error" \in flags[c] THEN "failed" ELSE "answered"
    /\ pc[c] \in {"meta", "end"} => "meta" \in flags[c]
    /\ pc[c] \in {"bill", "trail", "close"} => FlagsTell(c)

Shaped ==
    /\ ~up => \A c \in Calls : ~Audit!Live(c)
    /\ \A c \in Calls : Shape(c)

\* The calls that may have been billed.
Booked(i) ==
    {c \in Calls : rid[c] = i /\ made[c] > 0 /\ pc[c] \in {"trail", "close", "over"}}

Billed == \A i \in Ids : bill[i] <= Cardinality(Booked(i))

\* A call that has been started has a row, and one whose answer has been booked a bill.
Backed(i, c) ==
    /\ Audit!Live(c) /\ pc[c] # "start" => row[i].status # "none"
    /\ pc[c] \in {"trail", "close"} /\ "meta" \in flags[c] => bill[i] > 0

\* The record of an id that nothing spoilt: there from the start of its first call on, and
\* billed before it says success.
OnRecord(i) ==
    /\ row[i].status = "none" => bill[i] = 0 /\ trail[i] = 0
    /\ (\A c \in Calls : rid[c] = i => pc[c] = "idle") => row[i].status = "none"
    /\ row[i].status = "success" => bill[i] > 0
    /\ \A c \in Calls : rid[c] = i => Backed(i, c)

\* What a closed row says of the call it is about.
Told(i, c) ==
    /\ row[i].count = trail[i]
    /\ row[i].status = "success" => fate[c] = "answered"
    /\ row[i].status = "error" => fate[c] = "failed"
    /\ row[i].status = "cancelled" => left[c] \/ (kind[c] = "events" /\ fate[c] = "failed")

Alone(i, c) ==
    /\ pc[c] \notin {"close", "over"} => trail[i] = 0
    /\ pc[c] = "close" => trail[i] = known[c]
    /\ pc[c] # "over" => ~Audit!Closed(i)
    /\ Audit!Closed(i) => Told(i, c)

Kept ==
    \A i \in Ids \ spoilt :
        /\ OnRecord(i)
        /\ \A c \in Calls : Audit!Sole(i, c) => Alone(i, c)

RecordInv == Audit!TypeOK /\ Shaped /\ Billed /\ Kept

-----------------------------------------------------------------------------
(* Steps of one call *)

SameCall(d) ==
    /\ pc'[d] = pc[d] /\ made'[d] = made[d] /\ known'[d] = known[d]
    /\ flags'[d] = flags[d] /\ fate'[d] = fate[d] /\ left'[d] = left[d]

\* What a step of call c leaves alone, and that a call does not go back.
StepOf(c) ==
    /\ up /\ up' /\ kind' = kind /\ rid' = rid
    /\ \A d \in Calls : d # c => SameCall(d)
    /\ pc[c] # "over" /\ pc'[c] # "idle"
    /\ pc[c] \in {"trail", "close"} => pc'[c] \in {"close", "over"} /\ made'[c] = made[c]
    /\ \A i \in Ids : i # rid[c] => row'[i] = row[i] /\ trail'[i] = trail[i] /\ bill'[i] = bill[i]
    /\ spoilt \subseteq spoilt'

LEMMA StepShapes ==
    ASSUME NEW c \in Calls, Shaped, StepOf(c), Shape(c)'
    PROVE  Shaped'
  <1>1. ASSUME NEW d \in Calls, d # c PROVE Shape(d)'
    BY <1>1 DEF Shaped, StepOf, SameCall, Shape, FlagsTell, Streaming
  <1>. QED BY <1>1 DEF Shaped, StepOf

LEMMA BookedFinite == ASSUME NEW i PROVE IsFiniteSet(Booked(i)) /\ Cardinality(Booked(i)) \in Nat
  <1>1. Booked(i) \subseteq Calls
    BY DEF Booked
  <1>. QED BY <1>1, CallsAssumption, FS_Subset, FS_CardinalityType

LEMMA StepBooks ==
    ASSUME NEW c \in Calls, StepOf(c), NEW i \in Ids
    PROVE  Booked(i) \subseteq Booked(i)'
  <1>1. ASSUME NEW d \in Booked(i) PROVE d \in Booked(i)'
    <2>1. CASE d = c
      BY <2>1 DEF Booked, StepOf
    <2>2. CASE d # c
      BY <2>2 DEF Booked, StepOf, SameCall
    <2>. QED BY <2>1, <2>2
  <1>. QED BY <1>1

LEMMA BookedNext == \A i : IsFiniteSet(Booked(i)') /\ Cardinality(Booked(i)') \in Nat
  <1>1. ASSUME NEW i PROVE IsFiniteSet(Booked(i)') /\ Cardinality(Booked(i)') \in Nat
    <2>1. Booked(i)' \subseteq Calls
      BY DEF Booked
    <2>. QED BY <2>1, CallsAssumption, FS_Subset, FS_CardinalityType
  <1>. QED BY <1>1

\* A step that books nothing leaves no bill too many.
LEMMA NothingBilled ==
    ASSUME Audit!TypeOK, Audit!TypeOK', Billed,
           \A i \in Ids : bill'[i] <= bill[i] /\ Booked(i) \subseteq Booked(i)'
    PROVE  Billed'
  <1>1. ASSUME NEW i \in Ids PROVE bill'[i] <= Cardinality(Booked(i)')
    <2>1. Cardinality(Booked(i)) <= Cardinality(Booked(i)')
      BY BookedNext, BookedFinite, FS_Subset
    <2>2. bill[i] \in Nat /\ bill'[i] \in Nat /\ bill[i] <= Cardinality(Booked(i))
      BY DEF Audit!TypeOK, Billed
    <2>. QED BY <2>1, <2>2, BookedFinite, BookedNext
  <1>. QED BY <1>1 DEF Billed

\* The records of the other ids are left alone, so it is enough to look at the one of the call.
LEMMA OneRecord ==
    ASSUME NEW c \in Calls, rid[c] \in Ids, Kept, StepOf(c),
           rid[c] \notin spoilt' =>
             /\ row'[rid[c]].status = "none" =>
                  row[rid[c]].status = "none" /\ bill'[rid[c]] = 0 /\ trail'[rid[c]] = 0
             /\ bill[rid[c]] > 0 => bill'[rid[c]] > 0
             /\ row'[rid[c]].status = "success" => bill'[rid[c]] > 0
             /\ Backed(rid[c], c)'
             /\ Audit!Sole(rid[c], c)' => Alone(rid[c], c)'
    PROVE  Kept'
  <1>. SUFFICES ASSUME NEW i \in Ids, i \notin spoilt'
                PROVE  OnRecord(i)' /\ \A d \in Calls : Audit!Sole(i, d)' => Alone(i, d)'
    BY DEF Kept
  <1>0. /\ i \notin spoilt /\ OnRecord(i)
        /\ \A d \in Calls : Audit!Sole(i, d) => Alone(i, d)
    BY DEF StepOf, Kept
  <1>1. CASE i # rid[c]
    <2>1. row'[i] = row[i] /\ trail'[i] = trail[i] /\ bill'[i] = bill[i]
      BY <1>1 DEF StepOf
    <2>2. \A d \in Calls : rid'[d] = i => rid[d] = i /\ d # c /\ SameCall(d)
      BY <1>1 DEF StepOf
    <2>3. OnRecord(i)'
      <3>1. (\A d \in Calls : rid'[d] = i => pc'[d] = "idle") =>
              \A d \in Calls : rid[d] = i => pc[d] = "idle"
        BY <2>2, <1>1 DEF StepOf, SameCall
      <3>2. ASSUME NEW d \in Calls, rid'[d] = i PROVE Backed(i, d)'
        BY <3>2, <2>1, <2>2, <1>0 DEF OnRecord, Backed, SameCall, Audit!Live
      <3>. QED BY <3>1, <3>2, <2>1, <1>0 DEF OnRecord
    <2>4. ASSUME NEW d \in Calls, Audit!Sole(i, d)' PROVE Alone(i, d)'
      <3>1. {e \in Calls : pc'[e] # "idle" /\ rid'[e] = i} =
              {e \in Calls : pc[e] # "idle" /\ rid[e] = i}
        BY <2>2, <1>1 DEF StepOf, SameCall
      <3>2. Audit!Sole(i, d) /\ rid'[d] = i
        BY <3>1, <2>4 DEF Audit!Sole
      <3>3. Alone(i, d)
        BY <3>2, <1>0
      <3>. QED BY <3>3, <3>2, <2>1, <2>2 DEF Alone, Told, SameCall, Audit!Closed, StepOf
    <2>. QED BY <2>3, <2>4
  <1>2. CASE i = rid[c]
    <2>1. OnRecord(i)'
      <3>1. ASSUME NEW d \in Calls, rid'[d] = i, d # c PROVE Backed(i, d)'
        BY <3>1, <1>2, <1>0 DEF OnRecord, Backed, StepOf, SameCall, Audit!Live
      <3>2. rid'[c] = i /\ pc'[c] # "idle" /\ Backed(i, c)'
        BY <1>2 DEF StepOf
      <3>. QED BY <3>1, <3>2, <1>2 DEF OnRecord
    <2>2. ASSUME NEW d \in Calls, Audit!Sole(i, d)' PROVE Alone(i, d)'
      <3>1. d = c
        BY <2>2, <1>2 DEF Audit!Sole, StepOf
      <3>. QED BY <3>1, <2>2, <1>2 DEF StepOf
    <2>. QED BY <2>1, <2>2
  <1>. QED BY <1>1, <1>2

\* Who is alone was alone before, unless it has just come.
LEMMA SoleBefore ==
    ASSUME NEW c \in Calls, StepOf(c), Audit!Sole(rid[c], c)'
    PROVE  /\ pc[c] # "idle" => Audit!Sole(rid[c], c)
           /\ pc[c] = "idle" => \A d \in Calls : rid[d] = rid[c] => pc[d] = "idle"
  <1>1. \A d \in Calls : rid[d] = rid[c] /\ d # c => pc[d] = "idle"
    BY DEF StepOf, SameCall, Audit!Sole
  <1>. QED BY <1>1 DEF Audit!Sole

\* A step that writes nothing down.
Quiet(c) ==
    /\ StepOf(c) /\ row' = row /\ trail' = trail /\ bill' = bill /\ spoilt' = spoilt
    /\ pc[c] # "idle" /\ pc'[c] # "close"
    /\ pc'[c] # "start" => pc[c] \notin {"start", "close", "trail"}
    /\ pc'[c] = "start" => pc[c] = "start"
    /\ pc'[c] = "trail" => "meta" \notin flags'[c]

LEMMA QuietKeeps ==
    ASSUME NEW c \in Calls, RecordInv, Audit!TypeOK', Quiet(c), Shape(c)'
    PROVE  RecordInv'
  <1>0. rid[c] \in Ids
    BY DEF RecordInv, Audit!TypeOK
  <1>1. Shaped'
    BY StepShapes DEF RecordInv, Quiet
  <1>2. Billed'
    <2>1. \A i \in Ids : bill'[i] <= bill[i]
      BY DEF Quiet, RecordInv, Audit!TypeOK
    <2>2. \A i \in Ids : Booked(i) \subseteq Booked(i)'
      BY StepBooks DEF Quiet
    <2>. QED BY <2>1, <2>2, NothingBilled DEF RecordInv
  <1>3. Kept'
    <2>. SUFFICES ASSUME rid[c] \notin spoilt'
                  PROVE  /\ row'[rid[c]].status = "none" =>
                              row[rid[c]].status = "none" /\ bill'[rid[c]] = 0 /\ trail'[rid[c]] = 0
                         /\ bill[rid[c]] > 0 => bill'[rid[c]] > 0
                         /\ row'[rid[c]].status = "success" => bill'[rid[c]] > 0
                         /\ Backed(rid[c], c)'
                         /\ Audit!Sole(rid[c], c)' => Alone(rid[c], c)'
      BY <1>0, OneRecord DEF RecordInv, Quiet
    <2>1. OnRecord(rid[c]) /\ Backed(rid[c], c) /\ (Audit!Sole(rid[c], c) => Alone(rid[c], c))
      BY <1>0 DEF RecordInv, Kept, Quiet, OnRecord
    <2>2. Backed(rid[c], c)'
      BY <2>1 DEF Backed, Quiet, StepOf, Audit!Live
    <2>3. ASSUME Audit!Sole(rid[c], c)' PROVE Alone(rid[c], c)'
      <3>1. Alone(rid[c], c)
        BY <2>1, <2>3, SoleBefore DEF Quiet
      <3>2. pc[c] # "over" /\ ~Audit!Closed(rid[c]) /\ ~Audit!Closed(rid[c])'
        BY <3>1 DEF Quiet, StepOf, Alone, Audit!Closed
      <3>. QED BY <3>1, <3>2 DEF Quiet, StepOf, Alone
    <2>. QED BY <2>1, <2>2, <2>3 DEF Quiet, OnRecord
  <1>. QED BY <1>1, <1>2, <1>3 DEF RecordInv

-----------------------------------------------------------------------------
(* The steps that write nothing down *)

LEMMA CallTypes ==
    ASSUME Audit!TypeOK, NEW c \in Calls
    PROVE  /\ pc[c] \in {"idle", "start", "gate", "upstream", "chunks", "broken", "usage", "meta",
                         "end", "bill", "trail", "close", "over"}
           /\ kind[c] \in {"whole", "chat", "events"} /\ rid[c] \in Ids
           /\ made[c] \in 0..Attempts /\ known[c] \in 0..Attempts
           /\ flags[c] \subseteq {"meta", "error", "cancelled", "terminated"}
           /\ left[c] \in BOOLEAN /\ row[rid[c]] \in [status : Audit!Statuses, count : 0..Attempts]
           /\ trail[rid[c]] \in Nat /\ bill[rid[c]] \in Nat
  BY DEF Audit!TypeOK, Audit!Streams

LEMMA GateQuiet ==
    ASSUME RecordInv, NEW c \in Calls, Audit!Gate(c)
    PROVE  Audit!TypeOK' /\ Quiet(c) /\ Shape(c)'
  <1>. USE CallsAssumption DEF Audit!Gate, Audit!At, Audit!Goto, Audit!Ends, Audit!Flag,
               Audit!Whole, Audit!tables, Audit!hist
  <1>0. Audit!TypeOK /\ Shape(c)
    BY CallTypes DEF RecordInv, Shaped
  <1>1. CASE pc' = [pc EXCEPT ![c] = "upstream"]
    <2>1. pc[c] = "gate" /\ pc'[c] = "upstream" /\ flags' = flags /\ fate' = fate
      BY <1>0, <1>1 DEF Audit!TypeOK
    <2>2. Audit!TypeOK'
      BY <1>0, <1>1, <2>1 DEF Audit!TypeOK
    <2>3. Quiet(c)
      BY <1>0, <1>1, <2>1, CallTypes DEF Quiet, StepOf, SameCall, Audit!TypeOK
    <2>4. Shape(c)'
      BY <1>0, <2>1 DEF Shape, FlagsTell, Streaming
    <2>. QED BY <2>2, <2>3, <2>4
  <1>2. CASE pc' = [pc EXCEPT ![c] = "bill"]
    <2>1. /\ pc[c] = "gate" /\ pc'[c] = "bill" /\ fate' = [fate EXCEPT ![c] = "failed"]
          /\ flags' = [flags EXCEPT ![c] = flags[c] \cup {"error"}]
      BY <1>0, <1>2 DEF Audit!TypeOK
    <2>2. Audit!TypeOK'
      BY <1>0, <1>2, <2>1 DEF Audit!TypeOK
    <2>3. Quiet(c)
      BY <1>0, <1>2, <2>1, CallTypes DEF Quiet, StepOf, SameCall, Audit!TypeOK
    <2>4. Shape(c)'
      <3>1. flags'[c] = {"error"} /\ fate'[c] = "failed"
        BY <1>0, <2>1 DEF Audit!TypeOK, Shape
      <3>. QED BY <1>0, <2>1, <3>1 DEF Shape, FlagsTell, Streaming
    <2>. QED BY <2>2, <2>3, <2>4
  <1>. QED BY <1>1, <1>2

LEMMA AttemptFailsQuiet ==
    ASSUME RecordInv, NEW c \in Calls, Audit!AttemptFails(c)
    PROVE  Audit!TypeOK' /\ Quiet(c) /\ Shape(c)'
  <1>. USE CallsAssumption DEF Audit!AttemptFails, Audit!At, Audit!Goto, Audit!Ends, Audit!Flag,
               Audit!Whole, Audit!tables, Audit!hist
  <1>0. Audit!TypeOK /\ Shape(c) /\ known[c] \in 0..Attempts /\ made[c] \in 0..Attempts
    BY CallTypes DEF RecordInv, Shaped
  <1>a. pc[c] = "upstream" /\ known[c] + 1 \in 0..Attempts /\ known[c] \in Nat /\ made[c] \in Nat
    BY <1>0 DEF Shape
  <1>b. made[c] + 1 \in 0..Attempts /\ made' = [made EXCEPT ![c] = made[c] + 1]
    BY <1>0
  <1>c. known' = known \/ known' = [known EXCEPT ![c] = known[c] + 1]
    BY <1>0
  <1>d. made' \in [Calls -> 0..Attempts] /\ known' \in [Calls -> 0..Attempts]
    BY ONLY <1>a, <1>b, <1>c, <1>0 DEF Audit!TypeOK
  <1>1. Audit!TypeOK'
    BY <1>0, <1>d, CallTypes DEF Audit!TypeOK
  <1>2. Quiet(c)
    BY <1>0, CallTypes DEF Quiet, StepOf, SameCall, Audit!TypeOK
  <1>3. Shape(c)'
    <2>1. /\ c \in DOMAIN pc /\ c \in DOMAIN made /\ c \in DOMAIN known
          /\ c \in DOMAIN flags /\ c \in DOMAIN fate
      BY <1>0 DEF Audit!TypeOK
    <2>. QED BY <1>0, <1>a, <1>b, <2>1, CallTypes DEF Shape, FlagsTell, Streaming
  <1>. QED BY <1>1, <1>2, <1>3

LEMMA GivesUpQuiet ==
    ASSUME RecordInv, NEW c \in Calls, Audit!GivesUp(c)
    PROVE  Audit!TypeOK' /\ Quiet(c) /\ Shape(c)'
  <1>. USE CallsAssumption DEF Audit!GivesUp, Audit!At, Audit!Goto, Audit!Ends, Audit!Flag,
               Audit!Whole, Audit!tables, Audit!hist
  <1>0. Audit!TypeOK /\ Shape(c) /\ known[c] \in 0..Attempts /\ made[c] \in 0..Attempts
    BY CallTypes DEF RecordInv, Shaped
  <1>1. Audit!TypeOK'
    BY <1>0, CallTypes DEF Audit!TypeOK, Shape, Streaming
  <1>2. Quiet(c)
    BY <1>0, CallTypes DEF Quiet, StepOf, SameCall, Shape, Audit!TypeOK
  <1>3. Shape(c)'
    BY <1>0, CallTypes DEF Shape, FlagsTell, Streaming, Audit!TypeOK
  <1>. QED BY <1>1, <1>2, <1>3

LEMMA OpensQuiet ==
    ASSUME RecordInv, NEW c \in Calls, Audit!Opens(c)
    PROVE  Audit!TypeOK' /\ Quiet(c) /\ Shape(c)'
  <1>. USE CallsAssumption DEF Audit!Opens, Audit!At, Audit!Goto, Audit!Ends, Audit!Flag,
               Audit!Whole, Audit!tables, Audit!hist
  <1>0. Audit!TypeOK /\ Shape(c) /\ known[c] \in 0..Attempts /\ made[c] \in 0..Attempts
    BY CallTypes DEF RecordInv, Shaped
  <1>a. pc[c] = "upstream" /\ known[c] + 1 \in 0..Attempts /\ known[c] \in Nat /\ made[c] \in Nat
    BY <1>0 DEF Shape
  <1>b. made[c] + 1 \in 0..Attempts /\ made' = [made EXCEPT ![c] = made[c] + 1]
    BY <1>0
  <1>c. known' = known \/ known' = [known EXCEPT ![c] = known[c] + 1]
    BY <1>0
  <1>d. made' \in [Calls -> 0..Attempts] /\ known' \in [Calls -> 0..Attempts]
    BY ONLY <1>a, <1>b, <1>c, <1>0 DEF Audit!TypeOK
  <1>1. Audit!TypeOK'
    <2>1. CASE kind[c] = "whole"
      <3>1. /\ pc' = [pc EXCEPT ![c] = "bill"] /\ fate' = [fate EXCEPT ![c] = "answered"]
            /\ flags' = [flags EXCEPT ![c] = flags[c] \cup {"meta"}]
        BY <2>1
      <3>. QED BY <1>0, <1>d, <3>1 DEF Audit!TypeOK
    <2>2. CASE kind[c] # "whole"
      BY <1>0, <1>d, <2>2 DEF Audit!TypeOK
    <2>. QED BY <2>1, <2>2
  <1>2. Quiet(c)
    BY <1>0, CallTypes DEF Quiet, StepOf, SameCall, Audit!TypeOK
  <1>3. Shape(c)'
    <2>1. /\ c \in DOMAIN pc /\ c \in DOMAIN made /\ c \in DOMAIN known
          /\ c \in DOMAIN flags /\ c \in DOMAIN fate
      BY <1>0 DEF Audit!TypeOK
    <2>. QED BY <1>0, <1>a, <1>b, <2>1, CallTypes DEF Shape, FlagsTell, Streaming
  <1>. QED BY <1>1, <1>2, <1>3

LEMMA StreamEndsQuiet ==
    ASSUME RecordInv, NEW c \in Calls, Audit!StreamEnds(c)
    PROVE  Audit!TypeOK' /\ Quiet(c) /\ Shape(c)'
  <1>. USE CallsAssumption DEF Audit!StreamEnds, Audit!At, Audit!Goto, Audit!Ends, Audit!Flag,
               Audit!Whole, Audit!tables, Audit!hist
  <1>0. Audit!TypeOK /\ Shape(c) /\ known[c] \in 0..Attempts /\ made[c] \in 0..Attempts
    BY CallTypes DEF RecordInv, Shaped
  <1>a. pc[c] = "chunks" /\ known[c] + 1 \in 0..Attempts /\ known[c] \in Nat /\ made[c] \in Nat
    BY <1>0 DEF Shape
  <1>b. made' = made
    BY <1>0
  <1>c. known' = known \/ known' = [known EXCEPT ![c] = known[c] + 1]
    BY <1>0
  <1>d. made' \in [Calls -> 0..Attempts] /\ known' \in [Calls -> 0..Attempts]
    BY ONLY <1>a, <1>b, <1>c, <1>0 DEF Audit!TypeOK
  <1>1. Audit!TypeOK'
    BY <1>0, <1>d, CallTypes DEF Audit!TypeOK
  <1>2. Quiet(c)
    BY <1>0, CallTypes DEF Quiet, StepOf, SameCall, Audit!TypeOK
  <1>3. Shape(c)'
    <2>1. /\ c \in DOMAIN pc /\ c \in DOMAIN made /\ c \in DOMAIN known
          /\ c \in DOMAIN flags /\ c \in DOMAIN fate
      BY <1>0 DEF Audit!TypeOK
    <2>. QED BY <1>0, <1>a, <1>b, <2>1, CallTypes DEF Shape, FlagsTell, Streaming
  <1>. QED BY <1>1, <1>2, <1>3

LEMMA StreamBreaksQuiet ==
    ASSUME RecordInv, NEW c \in Calls, Audit!StreamBreaks(c)
    PROVE  Audit!TypeOK' /\ Quiet(c) /\ Shape(c)'
  <1>. USE CallsAssumption DEF Audit!StreamBreaks, Audit!At, Audit!Goto, Audit!Ends, Audit!Flag,
               Audit!Whole, Audit!tables, Audit!hist
  <1>0. Audit!TypeOK /\ Shape(c) /\ known[c] \in 0..Attempts /\ made[c] \in 0..Attempts
    BY CallTypes DEF RecordInv, Shaped
  <1>1. Audit!TypeOK'
    BY <1>0, CallTypes DEF Audit!TypeOK, Shape, Streaming
  <1>2. Quiet(c)
    BY <1>0, CallTypes DEF Quiet, StepOf, SameCall, Audit!TypeOK
  <1>3. Shape(c)'
    BY <1>0, CallTypes DEF Shape, FlagsTell, Streaming, Audit!TypeOK
  <1>. QED BY <1>1, <1>2, <1>3

LEMMA ErrorReadQuiet ==
    ASSUME RecordInv, NEW c \in Calls, Audit!ErrorRead(c)
    PROVE  Audit!TypeOK' /\ Quiet(c) /\ Shape(c)'
  <1>. USE CallsAssumption DEF Audit!ErrorRead, Audit!At, Audit!Goto, Audit!Flag, Audit!tables,
               Audit!hist
  <1>0. Audit!TypeOK /\ Shape(c) /\ pc[c] = "broken"
    BY CallTypes DEF RecordInv, Shaped
  <1>1. /\ Streaming(c) /\ known[c] + 1 = made[c] /\ flags[c] = {"error"} /\ fate[c] = "failed"
        /\ known[c] \in Nat /\ made[c] \in 0..Attempts /\ made[c] > 0
    BY <1>0, CallTypes DEF Shape
  <1>2. CASE kind[c] = "chat"
    <2>1. /\ pc' = [pc EXCEPT ![c] = "usage"] /\ known' = [known EXCEPT ![c] = made[c]]
          /\ pc'[c] = "usage" /\ known'[c] = made[c] /\ flags' = flags
      BY <1>0, <1>1, <1>2 DEF Audit!TypeOK
    <2>2. Audit!TypeOK'
      BY <1>0, <1>1, <2>1 DEF Audit!TypeOK
    <2>3. Quiet(c)
      BY <1>0, <2>1 DEF Quiet, StepOf, SameCall, Audit!TypeOK
    <2>4. Shape(c)'
      BY <1>0, <1>1, <2>1 DEF Shape, FlagsTell, Streaming
    <2>. QED BY <2>2, <2>3, <2>4
  <1>3. CASE kind[c] # "chat"
    <2>1. /\ pc' = [pc EXCEPT ![c] = "bill"]
          /\ flags' = [flags EXCEPT ![c] = flags[c] \cup {"cancelled"}]
          /\ pc'[c] = "bill" /\ flags'[c] = {"error", "cancelled"} /\ known' = known
      BY <1>0, <1>1, <1>3 DEF Audit!TypeOK
    <2>2. Audit!TypeOK'
      BY <1>0, <1>1, <2>1 DEF Audit!TypeOK
    <2>3. Quiet(c)
      BY <1>0, <2>1 DEF Quiet, StepOf, SameCall, Audit!TypeOK
    <2>4. kind[c] = "events" /\ kind' = kind /\ fate' = fate
      BY <1>0, <1>1, <1>3 DEF Streaming
    <2>5. Shape(c)'
      BY <1>1, <2>1, <2>4 DEF Shape, FlagsTell, Streaming
    <2>. QED BY <2>2, <2>3, <2>5
  <1>. QED BY <1>2, <1>3

LEMMA UsageReadQuiet ==
    ASSUME RecordInv, NEW c \in Calls, Audit!UsageRead(c)
    PROVE  Audit!TypeOK' /\ Quiet(c) /\ Shape(c)'
  <1>. USE CallsAssumption DEF Audit!UsageRead, Audit!At, Audit!Goto, Audit!Ends, Audit!Flag,
               Audit!Whole, Audit!tables, Audit!hist
  <1>0. Audit!TypeOK /\ Shape(c) /\ known[c] \in 0..Attempts /\ made[c] \in 0..Attempts
    BY CallTypes DEF RecordInv, Shaped
  <1>1. Audit!TypeOK'
    BY <1>0, CallTypes DEF Audit!TypeOK, Shape, Streaming
  <1>2. Quiet(c)
    BY <1>0, CallTypes DEF Quiet, StepOf, SameCall, Audit!TypeOK
  <1>3. Shape(c)'
    BY <1>0, CallTypes DEF Shape, FlagsTell, Streaming, Audit!TypeOK
  <1>. QED BY <1>1, <1>2, <1>3

LEMMA MetaReadQuiet ==
    ASSUME RecordInv, NEW c \in Calls, Audit!MetaRead(c)
    PROVE  Audit!TypeOK' /\ Quiet(c) /\ Shape(c)'
  <1>. USE CallsAssumption DEF Audit!MetaRead, Audit!At, Audit!Goto, Audit!Ends, Audit!Flag,
               Audit!Whole, Audit!tables, Audit!hist
  <1>0. Audit!TypeOK /\ Shape(c) /\ known[c] \in 0..Attempts /\ made[c] \in 0..Attempts
    BY CallTypes DEF RecordInv, Shaped
  <1>1. Audit!TypeOK'
    BY <1>0, CallTypes DEF Audit!TypeOK, Shape, Streaming
  <1>2. Quiet(c)
    BY <1>0, CallTypes DEF Quiet, StepOf, SameCall, Audit!TypeOK
  <1>3. Shape(c)'
    BY <1>0, CallTypes DEF Shape, FlagsTell, Streaming, Audit!TypeOK
  <1>. QED BY <1>1, <1>2, <1>3

LEMMA EndReadQuiet ==
    ASSUME RecordInv, NEW c \in Calls, Audit!EndRead(c)
    PROVE  Audit!TypeOK' /\ Quiet(c) /\ Shape(c)'
  <1>. USE CallsAssumption DEF Audit!EndRead, Audit!At, Audit!Goto, Audit!Ends, Audit!Flag,
               Audit!Whole, Audit!tables, Audit!hist
  <1>0. Audit!TypeOK /\ Shape(c) /\ known[c] \in 0..Attempts /\ made[c] \in 0..Attempts
    BY CallTypes DEF RecordInv, Shaped
  <1>1. Audit!TypeOK'
    BY <1>0, CallTypes DEF Audit!TypeOK, Shape, Streaming
  <1>2. Quiet(c)
    BY <1>0, CallTypes DEF Quiet, StepOf, SameCall, Audit!TypeOK
  <1>3. Shape(c)'
    BY <1>0, CallTypes DEF Shape, FlagsTell, Streaming, Audit!TypeOK
  <1>. QED BY <1>1, <1>2, <1>3

LEMMA LeaveQuiet ==
    ASSUME RecordInv, NEW c \in Calls, Audit!Leave(c)
    PROVE  Audit!TypeOK' /\ Quiet(c) /\ Shape(c)'
  <1>. USE CallsAssumption DEF Audit!At, Audit!Goto, Audit!Flag, Audit!Ends, Audit!Whole,
               Audit!tables, Audit!hist
  <1>0. Audit!TypeOK /\ Shape(c) /\ made[c] \in 0..Attempts /\ known[c] \in 0..Attempts
    BY CallTypes DEF RecordInv, Shaped
  <1>1. /\ left' = [left EXCEPT ![c] = TRUE] /\ left'[c] = TRUE
        /\ kind' = kind /\ rid' = rid /\ UNCHANGED <<row, trail, bill, up, mishaps, spoilt>>
    BY <1>0 DEF Audit!Leave, Audit!TypeOK
  <1>2. CASE Audit!LeaveAtStart(c)
    <2>. USE DEF Audit!LeaveAtStart
    <2>1. Audit!TypeOK'
      BY <1>0, <1>1, <1>2 DEF Audit!TypeOK
    <2>2. Quiet(c)
      BY <1>0, <1>1, <1>2 DEF Quiet, StepOf, SameCall, Audit!TypeOK
    <2>3. Shape(c)'
      BY <1>0, <1>1, <1>2 DEF Shape, FlagsTell, Streaming
    <2>. QED BY <2>1, <2>2, <2>3
  <1>3. CASE Audit!LeaveUpstream(c)
    <2>1. PICK n \in {0, 1} :
            /\ made[c] + n <= Attempts /\ made' = [made EXCEPT ![c] = made[c] + n]
            /\ known' = [known EXCEPT ![c] = IF kind[c] = "whole" THEN 0 ELSE known[c] + n]
      BY <1>3 DEF Audit!LeaveUpstream
    <2>2. /\ up /\ pc[c] = "upstream" /\ known[c] = made[c]
          /\ pc' = [pc EXCEPT ![c] = IF kind[c] = "whole" THEN "trail" ELSE "bill"]
          /\ flags' = [flags EXCEPT ![c] = flags[c] \cup {"cancelled"}]
          /\ fate' = [fate EXCEPT ![c] = "left"] /\ flags[c] = {}
      BY <1>0, <1>3 DEF Audit!LeaveUpstream, Shape
    <2>3. known'[c] \in 0..Attempts /\ made'[c] \in 0..Attempts
      BY <1>0, <2>1, <2>2 DEF Audit!TypeOK
    <2>4. made' \in [Calls -> 0..Attempts] /\ known' \in [Calls -> 0..Attempts]
      BY <1>0, <2>1, <2>3 DEF Audit!TypeOK
    <2>5. Audit!TypeOK'
      BY <1>0, <1>1, <2>2, <2>4 DEF Audit!TypeOK
    <2>6. Quiet(c)
      BY <1>0, <1>1, <2>1, <2>2 DEF Quiet, StepOf, SameCall, Audit!TypeOK
    <2>7. flags'[c] = {"cancelled"} /\ pc'[c] \in {"trail", "bill"}
      BY <1>0, <2>2 DEF Audit!TypeOK
    <2>8. Shape(c)'
      BY <1>1, <2>7 DEF Shape, FlagsTell, Streaming
    <2>. QED BY <2>5, <2>6, <2>8
  <1>4. CASE Audit!LeaveStream(c)
    <2>1. /\ up /\ pc[c] \in {"chunks", "broken", "usage", "meta"}
          /\ pc' = [pc EXCEPT ![c] = "bill"] /\ made' = made /\ known' = known
          /\ flags' = [flags EXCEPT ![c] = flags[c] \cup {"cancelled"}]
          /\ fate' = [fate EXCEPT ![c] = IF fate[c] = "open" THEN "left" ELSE fate[c]]
      BY <1>4 DEF Audit!LeaveStream
    <2>2. /\ fate[c] \in {"open", "answered", "failed", "left", "cut"}
          /\ flags[c] \subseteq {"meta", "error", "cancelled", "terminated"}
      BY <1>0, CallTypes DEF Audit!TypeOK
    <2>3. Audit!TypeOK'
      BY <1>0, <1>1, <2>1, <2>2 DEF Audit!TypeOK
    <2>4. Quiet(c)
      BY <1>0, <1>1, <2>1 DEF Quiet, StepOf, SameCall, Audit!TypeOK
    <2>5. /\ pc'[c] = "bill" /\ flags'[c] = flags[c] \cup {"cancelled"}
          /\ made'[c] = made[c] /\ known'[c] = known[c]
      BY <1>0, <2>1 DEF Audit!TypeOK
    <2>6. "meta" \in flags[c] => made[c] > 0 /\ known[c] = made[c]
      BY <1>0, <2>1 DEF Shape
    <2>7. Shape(c)'
      BY <1>1, <2>5, <2>6 DEF Shape, FlagsTell, Streaming
    <2>. QED BY <2>3, <2>4, <2>7
  <1>5. CASE Audit!LeaveBooking(c)
    <2>1. /\ up /\ pc[c] = "bill" /\ pc' = [pc EXCEPT ![c] = "over"]
          /\ fate' = [fate EXCEPT ![c] = "cut"] /\ UNCHANGED <<made, known, flags>>
      BY <1>5 DEF Audit!LeaveBooking
    <2>2. Audit!TypeOK'
      BY <1>0, <1>1, <2>1 DEF Audit!TypeOK
    <2>3. Quiet(c)
      BY <1>0, <1>1, <2>1 DEF Quiet, StepOf, SameCall, Audit!TypeOK
    <2>4. pc'[c] = "over"
      BY <1>0, <2>1 DEF Audit!TypeOK
    <2>5. Shape(c)'
      BY <2>4 DEF Shape
    <2>. QED BY <2>2, <2>3, <2>5
  <1>. QED BY <1>2, <1>3, <1>4, <1>5 DEF Audit!Leave

-----------------------------------------------------------------------------
(* The steps that write *)

LEMMA ArriveKeeps ==
    ASSUME RecordInv, NEW c \in Calls, Audit!Arrive(c)
    PROVE  RecordInv'
  <1>. USE CallsAssumption DEF Audit!At, Audit!Goto, Audit!Ends, Audit!Whole, Audit!tables,
               Audit!hist
  <1>0. Audit!TypeOK /\ Shape(c) /\ up /\ pc[c] = "idle" /\ rid[c] \in Ids
    BY CallTypes DEF RecordInv, Shaped, Audit!Arrive
  <1>1. \/ pc' = [pc EXCEPT ![c] = "start"] /\ fate' = fate
        \/ pc' = [pc EXCEPT ![c] = "over"] /\ fate' = [fate EXCEPT ![c] = "failed"]
    BY DEF Audit!Arrive
  <1>2. UNCHANGED <<kind, rid, made, known, flags, left, row, trail, bill, up, mishaps, spoilt>>
    BY DEF Audit!Arrive
  <1>3. Audit!TypeOK'
    BY <1>0, <1>1, <1>2 DEF Audit!TypeOK
  <1>4. pc'[c] \in {"start", "over"}
    BY <1>0, <1>1 DEF Audit!TypeOK
  <1>5. StepOf(c)
    BY <1>0, <1>1, <1>2, <1>4 DEF StepOf, SameCall, Audit!TypeOK
  <1>6. Shape(c)'
    BY <1>0, <1>1, <1>2, <1>4 DEF Shape, Audit!TypeOK
  <1>7. Shaped'
    BY <1>5, <1>6, StepShapes DEF RecordInv
  <1>8. Billed'
    <2>1. \A i \in Ids : bill'[i] <= bill[i]
      BY <1>0, <1>2 DEF Audit!TypeOK
    <2>2. \A i \in Ids : Booked(i) \subseteq Booked(i)'
      BY <1>5, StepBooks
    <2>. QED BY <2>1, <2>2, <1>3, NothingBilled DEF RecordInv
  <1>9. Kept'
    <2>. SUFFICES ASSUME rid[c] \notin spoilt'
                  PROVE  /\ row'[rid[c]].status = "none" =>
                              row[rid[c]].status = "none" /\ bill'[rid[c]] = 0 /\ trail'[rid[c]] = 0
                         /\ bill[rid[c]] > 0 => bill'[rid[c]] > 0
                         /\ row'[rid[c]].status = "success" => bill'[rid[c]] > 0
                         /\ Backed(rid[c], c)'
                         /\ Audit!Sole(rid[c], c)' => Alone(rid[c], c)'
      BY <1>0, <1>5, OneRecord DEF RecordInv
    <2>1. OnRecord(rid[c])
      BY <1>0, <1>2 DEF RecordInv, Kept
    <2>2. Backed(rid[c], c)'
      BY <1>4 DEF Backed, Audit!Live
    <2>3. ASSUME Audit!Sole(rid[c], c)' PROVE Alone(rid[c], c)'
      <3>1. row[rid[c]].status = "none" /\ trail[rid[c]] = 0
        BY <2>1, <2>3, <1>0, <1>5, SoleBefore DEF OnRecord
      <3>. QED BY <3>1, <1>2, <1>4 DEF Alone, Audit!Closed
    <2>. QED BY <2>1, <2>2, <2>3, <1>2 DEF OnRecord
  <1>. QED BY <1>3, <1>7, <1>8, <1>9 DEF RecordInv

\* A write is made, or the id is spoilt.
LEMMA Writes ==
    ASSUME Audit!TypeOK, NEW c \in Calls, NEW OK, Audit!Write(c, OK)
    PROVE  /\ spoilt' \in {spoilt, spoilt \cup {rid[c]}} /\ spoilt' \subseteq Ids
           /\ mishaps' \in 0..Mishaps
           /\ OK \/ (UNCHANGED <<row, trail, bill>> /\ rid[c] \in spoilt')
           /\ rid[c] \notin spoilt' => OK
  <1>1. rid[c] \in Ids /\ spoilt \subseteq Ids /\ mishaps \in 0..Mishaps
    BY CallTypes DEF Audit!TypeOK
  <1>2. CASE OK /\ UNCHANGED <<mishaps, spoilt>>
    BY <1>1, <1>2
  <1>3. CASE /\ mishaps < Mishaps /\ mishaps' = mishaps + 1
             /\ spoilt' = spoilt \cup {rid[c]}
             /\ UNCHANGED Audit!tables
    BY <1>1, <1>3, CallsAssumption DEF Audit!tables
  <1>. QED BY <1>2, <1>3 DEF Audit!Write

\* What a write leaves behind that is a step of call c.
LEMMA WriteKeeps ==
    ASSUME NEW c \in Calls, RecordInv, Audit!TypeOK', StepOf(c), Shape(c)', Billed',
           rid[c] \notin spoilt' =>
             /\ row'[rid[c]].status = "none" =>
                  row[rid[c]].status = "none" /\ bill'[rid[c]] = 0 /\ trail'[rid[c]] = 0
             /\ bill[rid[c]] > 0 => bill'[rid[c]] > 0
             /\ row'[rid[c]].status = "success" => bill'[rid[c]] > 0
             /\ Backed(rid[c], c)'
             /\ Audit!Sole(rid[c], c)' => Alone(rid[c], c)'
    PROVE  RecordInv'
  <1>1. rid[c] \in Ids
    BY CallTypes DEF RecordInv
  <1>2. Kept'
    BY <1>1, OneRecord DEF RecordInv
  <1>3. Shaped'
    BY StepShapes DEF RecordInv
  <1>. QED BY <1>2, <1>3 DEF RecordInv

LEMMA StartKeeps ==
    ASSUME RecordInv, NEW c \in Calls, Audit!Start(c)
    PROVE  RecordInv'
  <1>. DEFINE i == rid[c]
              OK == IF row[i].status = "none"
                    THEN /\ row' = [row EXCEPT ![i] = [Audit!NoRow EXCEPT !.status = "pending"]]
                         /\ UNCHANGED <<trail, bill>>
                    ELSE UNCHANGED Audit!tables
  <1>0. /\ Audit!TypeOK /\ Shape(c) /\ up /\ up' /\ pc[c] = "start" /\ i \in Ids
        /\ pc' = [pc EXCEPT ![c] = IF kind[c] = "whole" THEN "upstream" ELSE "gate"]
        /\ UNCHANGED <<kind, rid, made, known, flags, fate, left>>
        /\ Audit!Write(c, OK)
    BY CallTypes DEF RecordInv, Shaped, Audit!Start, Audit!At, Audit!Goto, Audit!Whole
  <1>1. pc'[c] \in {"upstream", "gate"}
    BY <1>0 DEF Audit!TypeOK
  <1>2. /\ trail' = trail /\ bill' = bill
        /\ \/ row' = row
           \/ /\ row[i].status = "none"
              /\ row' = [row EXCEPT ![i] = [status |-> "pending", count |-> 0]]
        /\ i \notin spoilt' => row'[i].status # "none"
        /\ spoilt' \in {spoilt, spoilt \cup {i}} /\ spoilt' \subseteq Ids /\ mishaps' \in 0..Mishaps
    <2>1. [Audit!NoRow EXCEPT !.status = "pending"] = [status |-> "pending", count |-> 0]
      BY DEF Audit!NoRow
    <2>2. OK => /\ trail' = trail /\ bill' = bill
                /\ \/ row' = row /\ row[i].status # "none"
                   \/ /\ row[i].status = "none"
                      /\ row' = [row EXCEPT ![i] = [status |-> "pending", count |-> 0]]
      BY <2>1 DEF Audit!tables
    <2>3. OK => row'[i].status # "none"
      BY <2>2, <1>0 DEF Audit!TypeOK
    <2>. HIDE DEF OK
    <2>4. /\ spoilt' \in {spoilt, spoilt \cup {i}} /\ spoilt' \subseteq Ids
          /\ mishaps' \in 0..Mishaps
          /\ OK \/ (UNCHANGED <<row, trail, bill>> /\ i \in spoilt')
          /\ i \notin spoilt' => OK
      BY <1>0, Writes
    <2>. QED BY <2>2, <2>3, <2>4
  <1>. HIDE DEF OK, i
  <1>3. Audit!TypeOK'
    <2>1. row' \in [Ids -> [status : Audit!Statuses, count : 0..Attempts]]
      <3>1. [status |-> "pending", count |-> 0] \in [status : Audit!Statuses, count : 0..Attempts]
        BY CallsAssumption DEF Audit!Statuses
      <3>. QED BY <3>1, <1>0, <1>2 DEF Audit!TypeOK
    <2>2. pc' \in [Calls -> {"idle", "start", "gate", "upstream", "chunks", "broken", "usage",
                             "meta", "end", "bill", "trail", "close", "over"}]
      BY <1>0 DEF Audit!TypeOK
    <2>. QED BY <2>1, <2>2, <1>0, <1>2 DEF Audit!TypeOK
  <1>4. StepOf(c)
    BY <1>0, <1>1, <1>2 DEF StepOf, SameCall, Audit!TypeOK, i
  <1>5. Shape(c)'
    BY <1>0, <1>1 DEF Shape
  <1>6. Billed'
    <2>1. \A j \in Ids : bill'[j] <= bill[j]
      BY <1>0, <1>2 DEF Audit!TypeOK
    <2>2. \A j \in Ids : Booked(j) \subseteq Booked(j)'
      BY <1>4, StepBooks
    <2>. QED BY <2>1, <2>2, <1>3, NothingBilled DEF RecordInv
  <1>7. ASSUME i \notin spoilt'
        PROVE  /\ row'[i].status # "none" /\ trail'[i] = trail[i] /\ bill'[i] = bill[i]
               /\ row'[i].status = "success" => bill'[i] > 0
               /\ Backed(rid[c], c)'
               /\ Audit!Sole(rid[c], c)' => Alone(rid[c], c)'
    <2>1. OnRecord(i) /\ (Audit!Sole(i, c) => Alone(i, c)) /\ row'[i].status # "none"
      BY <1>0, <1>2, <1>7 DEF RecordInv, Kept
    <2>2. row'[i].status = row[i].status \/ row'[i].status = "pending"
      BY <1>0, <1>2 DEF Audit!TypeOK
    <2>3. Backed(rid[c], c)'
      BY <1>0, <1>1, <2>1 DEF Backed, i
    <2>4. ASSUME Audit!Sole(rid[c], c)' PROVE Alone(rid[c], c)'
      <3>1. Alone(i, c)
        BY <2>1, <2>4, <1>0, <1>4, SoleBefore DEF i
      <3>2. trail[i] = 0 /\ row'[i].status \notin {"success", "error", "cancelled"}
        BY <3>1, <2>2, <1>0 DEF Alone, Audit!Closed
      <3>. QED BY <3>2, <1>0, <1>1, <1>2 DEF Alone, Audit!Closed, i
    <2>. QED BY <2>1, <2>2, <2>3, <2>4, <1>2 DEF OnRecord
  <1>. QED BY <1>3, <1>4, <1>5, <1>6, <1>7, <1>2, WriteKeeps DEF i

LEMMA BillKeeps ==
    ASSUME RecordInv, NEW c \in Calls, Audit!Bill(c)
    PROVE  RecordInv'
  <1>. DEFINE i == rid[c]
              OK == bill' = [bill EXCEPT ![i] = bill[i] + 1] /\ UNCHANGED <<row, trail>>
  <1>0. /\ Audit!TypeOK /\ Shape(c) /\ up /\ up' /\ pc[c] = "bill" /\ i \in Ids
        /\ pc' = [pc EXCEPT ![c] = "trail"]
        /\ UNCHANGED <<kind, rid, made, known, flags, fate, left>>
        /\ IF "meta" \in flags[c] THEN Audit!Write(c, OK)
           ELSE UNCHANGED <<row, trail, bill, mishaps, spoilt>>
    BY CallTypes DEF RecordInv, Shaped, Audit!Bill, Audit!At, Audit!Goto, Audit!tables
  <1>1. pc'[c] = "trail" /\ FlagsTell(c)
    BY <1>0 DEF Audit!TypeOK, Shape
  <1>2. Shape(c)'
    BY <1>0, <1>1 DEF Shape, FlagsTell, Streaming
  <1>3. CASE "meta" \notin flags[c]
    <2>1. Audit!TypeOK'
      BY <1>0, <1>3 DEF Audit!TypeOK
    <2>2. Quiet(c)
      BY <1>0, <1>1, <1>3 DEF Quiet, StepOf, SameCall, Audit!TypeOK
    <2>. QED BY <2>1, <2>2, <1>2, QuietKeeps
  <1>4. CASE "meta" \in flags[c]
    <2>1. /\ row' = row /\ trail' = trail
          /\ bill' = bill \/ bill' = [bill EXCEPT ![i] = bill[i] + 1]
          /\ i \notin spoilt' => bill' = [bill EXCEPT ![i] = bill[i] + 1]
          /\ spoilt' \in {spoilt, spoilt \cup {i}} /\ spoilt' \subseteq Ids
          /\ mishaps' \in 0..Mishaps
      <3>1. OK => row' = row /\ trail' = trail /\ bill' = [bill EXCEPT ![i] = bill[i] + 1]
        OBVIOUS
      <3>. HIDE DEF OK
      <3>2. /\ spoilt' \in {spoilt, spoilt \cup {i}} /\ spoilt' \subseteq Ids
            /\ mishaps' \in 0..Mishaps
            /\ OK \/ (UNCHANGED <<row, trail, bill>> /\ i \in spoilt')
            /\ i \notin spoilt' => OK
        BY <1>0, <1>4, Writes
      <3>. QED BY <3>1, <3>2
    <2>. HIDE DEF OK, i
    <2>2. Audit!TypeOK'
      BY <1>0, <2>1 DEF Audit!TypeOK
    <2>3. StepOf(c)
      BY <1>0, <1>1, <2>1 DEF StepOf, SameCall, Audit!TypeOK, i
    <2>4. Billed'
      <3>1. ASSUME NEW j \in Ids PROVE bill'[j] <= Cardinality(Booked(j)')
        <4>1. bill[j] \in Nat /\ bill[j] <= Cardinality(Booked(j)) /\ Booked(j) \subseteq Booked(j)'
          BY <1>0, <2>3, StepBooks DEF RecordInv, Billed, Audit!TypeOK
        <4>2. Cardinality(Booked(j)) <= Cardinality(Booked(j)')
          BY <4>1, BookedFinite, BookedNext, FS_Subset
        <4>3. CASE bill'[j] = bill[j]
          BY <4>1, <4>2, <4>3, BookedFinite, BookedNext
        <4>4. CASE bill'[j] # bill[j]
          <5>1. j = i /\ bill'[j] = bill[j] + 1
            BY <4>4, <2>1, <1>0 DEF Audit!TypeOK
          <5>2. made[c] > 0
            BY <1>1, <1>4 DEF FlagsTell
          <5>3. c \in Booked(j)' /\ c \notin Booked(j)
            BY <5>1, <5>2, <1>0, <1>1 DEF Booked, i
          <5>4. Cardinality(Booked(j) \cup {c}) = Cardinality(Booked(j)) + 1
            BY <5>3, BookedFinite, FS_AddElement
          <5>5. Cardinality(Booked(j) \cup {c}) <= Cardinality(Booked(j)')
            BY <5>3, <4>1, BookedNext, FS_Subset
          <5>. QED BY <5>1, <5>4, <5>5, <4>1, BookedFinite, BookedNext
        <4>. QED BY <4>3, <4>4
      <3>. QED BY <3>1 DEF Billed
    <2>5. ASSUME i \notin spoilt'
          PROVE  /\ row'[i].status = "none" =>
                      row[i].status = "none" /\ bill'[i] = 0 /\ trail'[i] = 0
                 /\ bill'[i] > 0
                 /\ Backed(rid[c], c)'
                 /\ Audit!Sole(rid[c], c)' => Alone(rid[c], c)'
      <3>1. OnRecord(i) /\ Backed(i, c) /\ (Audit!Sole(i, c) => Alone(i, c))
        BY <1>0, <2>1, <2>5 DEF RecordInv, Kept, OnRecord, i
      <3>2. bill'[i] > 0
        BY <1>0, <2>1, <2>5 DEF Audit!TypeOK
      <3>3. row'[i].status # "none"
        BY <3>1, <2>1, <1>0 DEF Backed, Audit!Live
      <3>4. Backed(rid[c], c)'
        BY <3>2, <3>3, <1>0 DEF Backed, i
      <3>5. ASSUME Audit!Sole(rid[c], c)' PROVE Alone(rid[c], c)'
        <4>1. Alone(i, c)
          BY <3>1, <3>5, <1>0, <2>3, SoleBefore DEF i
        <4>. QED BY <4>1, <1>0, <1>1, <2>1 DEF Alone, Audit!Closed, i
      <3>. QED BY <3>2, <3>3, <3>4, <3>5
    <2>. QED BY <2>2, <2>3, <2>4, <2>5, <1>2, WriteKeeps DEF i
  <1>. QED BY <1>3, <1>4

LEMMA TrailKeeps ==
    ASSUME RecordInv, NEW c \in Calls, Audit!Trail(c)
    PROVE  RecordInv'
  <1>. DEFINE i == rid[c]
  <1>0. /\ Audit!TypeOK /\ Shape(c) /\ up /\ up' /\ pc[c] = "trail" /\ i \in Ids
        /\ UNCHANGED <<kind, rid, made, known, flags, fate, left, row, bill>>
        /\ known[c] \in 0..Attempts /\ trail[i] \in Nat
    BY CallTypes DEF RecordInv, Shaped, Audit!Trail, Audit!At, Audit!tables
  <1>1. \/ /\ known[c] = 0 /\ trail' = trail /\ UNCHANGED <<mishaps, spoilt>>
           /\ pc' = [pc EXCEPT ![c] = "close"]
        \/ /\ trail' = [trail EXCEPT ![i] = trail[i] + known[c]] /\ UNCHANGED <<mishaps, spoilt>>
           /\ pc' = [pc EXCEPT ![c] = "close"]
        \/ /\ trail' = trail /\ spoilt' = spoilt \cup {i} /\ mishaps' \in 0..Mishaps
           /\ pc' = [pc EXCEPT ![c] = IF kind[c] = "whole" THEN "close" ELSE "over"]
    <2>1. mishaps < Mishaps /\ mishaps' = mishaps + 1 => mishaps' \in 0..Mishaps
      BY <1>0, CallsAssumption DEF Audit!TypeOK
    <2>2. mishaps' = mishaps => mishaps' \in 0..Mishaps
      BY <1>0 DEF Audit!TypeOK
    <2>. QED BY <2>1, <2>2 DEF Audit!Trail, Audit!Goto, Audit!Whole, Audit!tables
  <1>2. pc'[c] \in {"close", "over"}
    BY <1>0, <1>1 DEF Audit!TypeOK
  <1>3. trail' \in [Ids -> Nat] /\ trail'[i] \in Nat
    <2>1. trail[i] + known[c] \in Nat
      BY <1>0
    <2>. QED BY <2>1, <1>0, <1>1 DEF Audit!TypeOK
  <1>4. Audit!TypeOK'
    BY <1>0, <1>1, <1>3 DEF Audit!TypeOK
  <1>5. Shape(c)'
    BY <1>0, <1>2 DEF Shape, FlagsTell, Streaming
  <1>6. StepOf(c)
    BY <1>0, <1>1, <1>2 DEF StepOf, SameCall, Audit!TypeOK
  <1>7. Billed'
    <2>1. \A j \in Ids : bill'[j] <= bill[j]
      BY <1>0 DEF Audit!TypeOK
    <2>2. \A j \in Ids : Booked(j) \subseteq Booked(j)'
      BY <1>6, StepBooks
    <2>. QED BY <2>1, <2>2, <1>4, NothingBilled DEF RecordInv
  <1>8. ASSUME i \notin spoilt'
        PROVE  /\ row'[i].status # "none"
               /\ row'[i].status = "success" => bill'[i] > 0
               /\ Backed(rid[c], c)'
               /\ Audit!Sole(rid[c], c)' => Alone(rid[c], c)'
    <2>1. OnRecord(i) /\ Backed(i, c) /\ (Audit!Sole(i, c) => Alone(i, c))
      BY <1>0, <1>1, <1>8 DEF RecordInv, Kept, OnRecord
    <2>2. row'[i].status # "none"
      BY <2>1, <1>0 DEF Backed, Audit!Live
    <2>3. Backed(rid[c], c)'
      BY <2>1, <2>2, <1>0 DEF Backed
    <2>4. ASSUME Audit!Sole(rid[c], c)' PROVE Alone(rid[c], c)'
      <3>1. Alone(i, c)
        BY <2>1, <2>4, <1>0, <1>6, SoleBefore
      <3>2. trail[i] = 0 /\ ~Audit!Closed(i)
        BY <3>1, <1>0 DEF Alone
      <3>3. pc'[c] = "close" /\ trail'[i] = known[c]
        BY <3>2, <1>0, <1>1, <1>8 DEF Audit!TypeOK
      <3>. QED BY <3>2, <3>3, <1>0 DEF Alone, Audit!Closed
    <2>. QED BY <2>1, <2>2, <2>3, <2>4, <1>0 DEF OnRecord
  <1>. QED BY <1>4, <1>5, <1>6, <1>7, <1>8, <1>0, WriteKeeps

LEMMA CloseKeeps ==
    ASSUME RecordInv, NEW c \in Calls, Audit!Close(c)
    PROVE  RecordInv'
  <1>. DEFINE i == rid[c]
              closed == [status |-> Audit!Verdict(c), count |-> Audit!Count(c)]
              OK == /\ row' = IF row[i].status = "none" THEN row ELSE [row EXCEPT ![i] = closed]
                    /\ UNCHANGED <<trail, bill>>
  <1>0. /\ Audit!TypeOK /\ Shape(c) /\ up /\ up' /\ pc[c] = "close" /\ i \in Ids
        /\ pc' = [pc EXCEPT ![c] = "over"]
        /\ UNCHANGED <<kind, rid, made, known, flags, fate, left>>
        /\ Audit!Write(c, OK)
        /\ known[c] \in 0..Attempts /\ made[c] \in 0..Attempts
    BY CallTypes DEF RecordInv, Shaped, Audit!Close, Audit!At, Audit!Goto
  <1>1. /\ trail' = trail /\ bill' = bill
        /\ row' = row \/ row' = [row EXCEPT ![i] = closed]
        /\ i \notin spoilt' =>
             row' = IF row[i].status = "none" THEN row ELSE [row EXCEPT ![i] = closed]
        /\ spoilt' \in {spoilt, spoilt \cup {i}} /\ spoilt' \subseteq Ids /\ mishaps' \in 0..Mishaps
    <2>1. OK => /\ trail' = trail /\ bill' = bill
                /\ row' = IF row[i].status = "none" THEN row ELSE [row EXCEPT ![i] = closed]
      OBVIOUS
    <2>. HIDE DEF OK, closed
    <2>2. /\ spoilt' \in {spoilt, spoilt \cup {i}} /\ spoilt' \subseteq Ids
          /\ mishaps' \in 0..Mishaps
          /\ OK \/ (UNCHANGED <<row, trail, bill>> /\ i \in spoilt')
          /\ i \notin spoilt' => OK
      BY <1>0, Writes
    <2>. QED BY <2>1, <2>2
  <1>2. pc'[c] = "over" /\ FlagsTell(c)
    BY <1>0 DEF Audit!TypeOK, Shape
  <1>3. closed.status \in {"cancelled", "success", "error"} /\ closed.count \in 0..Attempts
    BY <1>0 DEF Audit!Verdict, Audit!Count
  <1>4. closed \in [status : Audit!Statuses, count : 0..Attempts]
    BY <1>3 DEF Audit!Statuses
  <1>. HIDE DEF OK, closed
  <1>5. Audit!TypeOK'
    <2>1. row' \in [Ids -> [status : Audit!Statuses, count : 0..Attempts]]
      BY <1>0, <1>1, <1>4 DEF Audit!TypeOK
    <2>. QED BY <2>1, <1>0, <1>1 DEF Audit!TypeOK
  <1>6. Shape(c)'
    BY <1>2 DEF Shape
  <1>7. StepOf(c)
    BY <1>0, <1>1, <1>2 DEF StepOf, SameCall, Audit!TypeOK
  <1>8. Billed'
    <2>1. \A j \in Ids : bill'[j] <= bill[j]
      BY <1>0, <1>1 DEF Audit!TypeOK
    <2>2. \A j \in Ids : Booked(j) \subseteq Booked(j)'
      BY <1>7, StepBooks
    <2>. QED BY <2>1, <2>2, <1>5, NothingBilled DEF RecordInv
  <1>9. ASSUME i \notin spoilt'
        PROVE  /\ row'[i].status # "none"
               /\ row'[i].status = "success" => bill'[i] > 0
               /\ Backed(rid[c], c)'
               /\ Audit!Sole(rid[c], c)' => Alone(rid[c], c)'
    <2>1. OnRecord(i) /\ Backed(i, c) /\ (Audit!Sole(i, c) => Alone(i, c))
      BY <1>0, <1>1, <1>9 DEF RecordInv, Kept, OnRecord
    <2>2. row[i].status # "none"
      BY <2>1, <1>0 DEF Backed, Audit!Live
    <2>3. row'[i] = closed
      BY <2>2, <1>0, <1>1, <1>9 DEF Audit!TypeOK
    <2>4. closed.status = "success" => "meta" \in flags[c] /\ bill[i] > 0
      BY <2>1, <1>0 DEF Backed, closed, Audit!Verdict
    <2>5. Backed(rid[c], c)'
      BY <1>2 DEF Backed, Audit!Live
    <2>6. ASSUME Audit!Sole(rid[c], c)' PROVE Alone(rid[c], c)'
      <3>1. Alone(i, c)
        BY <2>1, <2>6, <1>0, <1>7, SoleBefore
      <3>2. trail[i] = known[c]
        BY <3>1, <1>0 DEF Alone
      <3>3. closed.count = known[c]
        BY <1>0, <1>2, CallTypes DEF closed, Audit!Count, Audit!Whole, FlagsTell, Streaming
      <3>4. /\ closed.status = "success" => fate[c] = "answered"
            /\ closed.status = "error" => fate[c] = "failed"
            /\ closed.status = "cancelled" => left[c] \/ (kind[c] = "events" /\ fate[c] = "failed")
        BY <1>2 DEF closed, Audit!Verdict, FlagsTell
      <3>5. Told(i, c)'
        BY <2>3, <3>2, <3>3, <3>4, <1>0, <1>1 DEF Told
      <3>6. Told(rid[c], c)'
        BY <3>5, <1>0 DEF Told
      <3>. QED BY <3>6, <1>2 DEF Alone
    <2>. QED BY <2>3, <2>4, <2>5, <2>6, <1>1, <1>3
  <1>. QED BY <1>5, <1>6, <1>7, <1>8, <1>9, <1>1, <1>0, WriteKeeps

-----------------------------------------------------------------------------
(* The process and the clock *)

LEMMA CrashKeeps == RecordInv /\ Audit!Crash => RecordInv'
  <1>. SUFFICES ASSUME RecordInv, Audit!Crash PROVE RecordInv'
    OBVIOUS
  <1>0. /\ Audit!TypeOK /\ ~up'
        /\ pc' = [c \in Calls |-> IF Audit!Live(c) THEN "over" ELSE pc[c]]
        /\ UNCHANGED <<kind, rid, made, known, flags, fate, left, row, trail, bill>>
        /\ spoilt' = spoilt \cup {rid[c] : c \in {d \in Calls : Audit!Live(d)}}
    BY DEF RecordInv, Audit!Crash, Audit!tables
  <1>1. Audit!TypeOK'
    <2>0. mishaps \in 0..Mishaps /\ mishaps < Mishaps /\ mishaps' = mishaps + 1 /\ up' = FALSE
      BY DEF RecordInv, Audit!TypeOK, Audit!Crash
    <2>a. mishaps' \in 0..Mishaps
      BY <2>0, CallsAssumption
    <2>b. up' \in BOOLEAN
      BY <2>0
    <2>1. mishaps' \in 0..Mishaps /\ up' \in BOOLEAN
      BY <2>a, <2>b
    <2>2. spoilt' \subseteq Ids
      BY <1>0 DEF Audit!TypeOK
    <2>3. pc' \in [Calls -> {"idle", "start", "gate", "upstream", "chunks", "broken", "usage",
                             "meta", "end", "bill", "trail", "close", "over"}]
      BY <1>0 DEF Audit!TypeOK
    <2>. QED BY <1>0, <2>1, <2>2, <2>3 DEF Audit!TypeOK
  <1>2. Shaped'
    <2>1. ASSUME NEW c \in Calls PROVE ~Audit!Live(c)' /\ Shape(c)'
      <3>1. CASE Audit!Live(c)
        <4>1. pc'[c] = "over"
          BY <1>0, <3>1
        <4>. QED BY <4>1 DEF Shape, Audit!Live
      <3>2. CASE ~Audit!Live(c)
        <4>1. pc'[c] = pc[c] /\ pc[c] \in {"idle", "over"} /\ Shape(c)
          BY <1>0, <3>2 DEF Audit!Live, RecordInv, Shaped
        <4>. QED BY <4>1, <1>0 DEF Shape, Audit!Live
      <3>. QED BY <3>1, <3>2
    <2>. QED BY <2>1 DEF Shaped
  <1>3. Billed'
    <2>1. \A i \in Ids : bill'[i] <= bill[i]
      BY <1>0 DEF Audit!TypeOK
    <2>2. \A i \in Ids : Booked(i) \subseteq Booked(i)'
      BY <1>0 DEF Booked, Audit!Live
    <2>. QED BY <2>1, <2>2, <1>0, <1>1, NothingBilled DEF RecordInv
  <1>4. Kept'
    <2>. SUFFICES ASSUME NEW i \in Ids, i \notin spoilt'
                  PROVE  OnRecord(i)' /\ \A c \in Calls : Audit!Sole(i, c)' => Alone(i, c)'
      BY DEF Kept
    <2>1. OnRecord(i) /\ \A c \in Calls : Audit!Sole(i, c) => Alone(i, c)
      BY <1>0 DEF RecordInv, Kept
    <2>2. ASSUME NEW c \in Calls, rid[c] = i PROVE pc'[c] = pc[c] /\ ~Audit!Live(c)
      BY <2>2, <1>0
    <2>3. OnRecord(i)'
      BY <2>1, <2>2, <1>0 DEF OnRecord, Backed, Audit!Live
    <2>4. ASSUME NEW c \in Calls, Audit!Sole(i, c)' PROVE Alone(i, c)'
      <3>1. {d \in Calls : pc'[d] # "idle" /\ rid'[d] = i} =
              {d \in Calls : pc[d] # "idle" /\ rid[d] = i}
        BY <2>2, <1>0
      <3>2. Audit!Sole(i, c) /\ rid[c] = i
        BY <3>1, <2>4, <1>0 DEF Audit!Sole
      <3>3. Alone(i, c) /\ pc'[c] = pc[c]
        BY <3>2, <2>1, <2>2
      <3>. QED BY <3>3, <1>0 DEF Alone, Told, Audit!Closed
    <2>. QED BY <2>3, <2>4
  <1>. QED BY <1>1, <1>2, <1>3, <1>4 DEF RecordInv

LEMMA RestartKeeps == RecordInv /\ Audit!Restart => RecordInv'
  <1>. SUFFICES ASSUME RecordInv, Audit!Restart PROVE RecordInv'
    OBVIOUS
  <1>0. /\ Audit!TypeOK /\ ~up /\ up'
        /\ UNCHANGED <<pc, kind, rid, made, known, flags, fate, left, mishaps>>
    BY DEF RecordInv, Audit!Restart, Audit!callVars
  <1>1. PICK stale \in SUBSET Ids : \E old \in SUBSET stale :
            LET stuck == {i \in stale : row[i].status = "pending"}
            IN  /\ Audit!Prune(old, [i \in Ids |->
                      IF i \in stuck THEN [row[i] EXCEPT !.status = "cancelled"] ELSE row[i]])
                /\ spoilt' = spoilt \cup stuck
    BY DEF Audit!Restart
  <1>. DEFINE stuck == {i \in stale : row[i].status = "pending"}
              swept == [i \in Ids |->
                          IF i \in stuck THEN [row[i] EXCEPT !.status = "cancelled"] ELSE row[i]]
  <1>2. PICK old \in SUBSET stale : Audit!Prune(old, swept) /\ spoilt' = spoilt \cup stuck
    BY <1>1
  <1>3. \A i \in Ids : swept[i] \in [status : Audit!Statuses, count : 0..Attempts]
    <2>1. ASSUME NEW i \in Ids PROVE swept[i] \in [status : Audit!Statuses, count : 0..Attempts]
      <3>1. row[i] \in [status : Audit!Statuses, count : 0..Attempts]
        BY <1>0 DEF Audit!TypeOK
      <3>2. [row[i] EXCEPT !.status = "cancelled"]
              \in [status : Audit!Statuses, count : 0..Attempts]
        BY <3>1 DEF Audit!Statuses
      <3>3. swept[i] \in {row[i], [row[i] EXCEPT !.status = "cancelled"]}
        OBVIOUS
      <3>. QED BY ONLY <3>1, <3>2, <3>3
    <2>. QED BY <2>1
  <1>4. \A i \in Ids : i \notin stuck => swept[i] = row[i]
    OBVIOUS
  <1>5. stuck \subseteq Ids
    OBVIOUS
  <1>. HIDE DEF swept, stuck
  <1>6. /\ row' = [i \in Ids |-> IF i \in old THEN Audit!NoRow ELSE swept[i]]
        /\ trail' = [i \in Ids |-> IF i \in old THEN 0 ELSE trail[i]]
        /\ bill' = [i \in Ids |-> IF i \in old /\ row[i] # Audit!NoRow THEN 0 ELSE bill[i]]
    BY <1>2 DEF Audit!Prune
  <1>7. Audit!TypeOK'
    <2>1. Audit!NoRow \in [status : Audit!Statuses, count : 0..Attempts]
      BY CallsAssumption DEF Audit!NoRow, Audit!Statuses
    <2>2. row' \in [Ids -> [status : Audit!Statuses, count : 0..Attempts]]
      BY <2>1, <1>3, <1>6
    <2>3. trail' \in [Ids -> Nat] /\ bill' \in [Ids -> Nat]
      BY <1>0, <1>6 DEF Audit!TypeOK
    <2>4. spoilt' \subseteq Ids
      BY <1>0, <1>2, <1>5 DEF Audit!TypeOK
    <2>. QED BY <2>2, <2>3, <2>4, <1>0 DEF Audit!TypeOK
  <1>8. \A c \in Calls : ~Audit!Live(c)
    BY <1>0 DEF RecordInv, Shaped
  <1>9. Shaped'
    <2>1. ASSUME NEW c \in Calls PROVE Shape(c)'
      <3>1. Shape(c)
        BY DEF RecordInv, Shaped
      <3>. QED BY <3>1, <1>0 DEF Shape, FlagsTell, Streaming
    <2>. QED BY <2>1, <1>0 DEF Shaped
  <1>10. Billed'
    <2>1. \A i \in Ids : bill'[i] <= bill[i]
      BY <1>0, <1>6 DEF Audit!TypeOK
    <2>2. \A i \in Ids : Booked(i) \subseteq Booked(i)'
      BY <1>0 DEF Booked
    <2>. QED BY <2>1, <2>2, <1>0, <1>7, NothingBilled DEF RecordInv
  <1>11. Kept'
    <2>. SUFFICES ASSUME NEW i \in Ids, i \notin spoilt'
                  PROVE  OnRecord(i)' /\ \A c \in Calls : Audit!Sole(i, c)' => Alone(i, c)'
      BY DEF Kept
    <2>1. OnRecord(i) /\ \A c \in Calls : Audit!Sole(i, c) => Alone(i, c)
      BY <1>2 DEF RecordInv, Kept
    <2>2. i \notin stuck /\ swept[i] = row[i]
      BY <1>2, <1>4
    <2>3. \/ row'[i] = row[i] /\ trail'[i] = trail[i] /\ bill'[i] = bill[i]
          \/ row'[i].status = "none" /\ trail'[i] = 0 /\ bill'[i] = 0
      <3>1. CASE i \notin old
        BY <3>1, <2>2, <1>6
      <3>2. CASE i \in old
        <4>1. row'[i] = Audit!NoRow /\ trail'[i] = 0 /\ Audit!NoRow.status = "none"
          BY <3>2, <1>6 DEF Audit!NoRow
        <4>2. row[i] = Audit!NoRow => bill[i] = 0
          BY <2>1, <4>1 DEF OnRecord
        <4>3. bill'[i] = 0
          BY <3>2, <4>2, <1>6
        <4>. QED BY <4>1, <4>3
      <3>. QED BY <3>1, <3>2
    <2>4. OnRecord(i)'
      BY <2>1, <2>3, <1>0, <1>8 DEF OnRecord, Backed, Audit!Live
    <2>5. ASSUME NEW c \in Calls, Audit!Sole(i, c)' PROVE Alone(i, c)'
      <3>1. Audit!Sole(i, c)
        BY <2>5, <1>0 DEF Audit!Sole
      <3>2. Alone(i, c) /\ pc[c] = "over"
        BY <3>1, <2>1, <1>8 DEF Audit!Sole, Audit!Live
      <3>. QED BY <3>2, <2>3, <1>0 DEF Alone, Told, Audit!Closed
    <2>. QED BY <2>4, <2>5
  <1>. QED BY <1>7, <1>9, <1>10, <1>11 DEF RecordInv

LEMMA InitRecord == Audit!Init => RecordInv
  <1>. SUFFICES ASSUME Audit!Init PROVE RecordInv
    OBVIOUS
  <1>1. Audit!TypeOK
    <2>1. Audit!NoRow \in [status : Audit!Statuses, count : 0..Attempts]
      BY CallsAssumption DEF Audit!NoRow, Audit!Statuses
    <2>. QED BY <2>1, CallsAssumption DEF Audit!Init, Audit!TypeOK
  <1>2. \A c \in Calls : /\ pc[c] = "idle" /\ made[c] = 0 /\ known[c] = 0 /\ left[c] = FALSE
                         /\ flags[c] = {} /\ fate[c] = "open"
    BY DEF Audit!Init
  <1>3. \A i \in Ids : row[i].status = "none" /\ trail[i] = 0 /\ bill[i] = 0
    BY DEF Audit!Init, Audit!NoRow
  <1>4. Shaped
    BY <1>2 DEF Audit!Init, Shaped, Shape, FlagsTell
  <1>5. Billed
    <2>1. ASSUME NEW i \in Ids PROVE bill[i] <= Cardinality(Booked(i))
      BY <1>3, BookedFinite
    <2>. QED BY <2>1 DEF Billed
  <1>6. Kept
    BY <1>2, <1>3 DEF Kept, OnRecord, Backed, Alone, Told, Audit!Live, Audit!Closed
  <1>. QED BY <1>1, <1>4, <1>5, <1>6 DEF RecordInv

LEMMA NextRecord == RecordInv /\ [RequestNext \/ AuditNext]_all => RecordInv'
  <1>. SUFFICES ASSUME RecordInv, [RequestNext \/ AuditNext]_all PROVE RecordInv'
    OBVIOUS
  <1>1. CASE UNCHANGED auditVars
    BY <1>1 DEF auditVars, RecordInv, Audit!TypeOK, Shaped, Shape, FlagsTell, Streaming, Billed,
                Booked, Kept, OnRecord, Backed, Alone, Told, Audit!Sole, Audit!Live, Audit!Closed
  <1>2. ASSUME NEW c \in Calls, Audit!Arrive(c) \/ Audit!Step(c) \/ Audit!Leave(c) PROVE RecordInv'
    <2>1. CASE \/ Audit!Gate(c) \/ Audit!AttemptFails(c) \/ Audit!GivesUp(c) \/ Audit!Opens(c)
               \/ Audit!StreamEnds(c) \/ Audit!StreamBreaks(c) \/ Audit!ErrorRead(c)
               \/ Audit!UsageRead(c) \/ Audit!MetaRead(c) \/ Audit!EndRead(c) \/ Audit!Leave(c)
      <3>1. Audit!TypeOK' /\ Quiet(c) /\ Shape(c)'
        BY <2>1, GateQuiet, AttemptFailsQuiet, GivesUpQuiet, OpensQuiet, StreamEndsQuiet,
           StreamBreaksQuiet, ErrorReadQuiet, UsageReadQuiet, MetaReadQuiet, EndReadQuiet,
           LeaveQuiet
      <3>. QED BY <3>1, QuietKeeps
    <2>2. CASE \/ Audit!Arrive(c) \/ Audit!Start(c) \/ Audit!Bill(c) \/ Audit!Trail(c)
               \/ Audit!Close(c)
      BY <2>2, ArriveKeeps, StartKeeps, BillKeeps, TrailKeeps, CloseKeeps
    <2>. QED BY <1>2, <2>1, <2>2 DEF Audit!Step
  <1>3. CASE Audit!Crash \/ Audit!Restart
    BY <1>3, CrashKeeps, RestartKeeps
  <1>4. RequestNext => UNCHANGED auditVars
    BY DEF RequestNext
  <1>5. AuditNext => Audit!Next
    BY DEF AuditNext
  <1>6. Audit!Next => RecordInv'
    BY <1>2, <1>3 DEF Audit!Next
  <1>. QED BY <1>1, <1>4, <1>5, <1>6 DEF all

\* What the invariant says of a record: it is true.
LEMMA RecordHolds == RecordInv => RecordIsTrue
  <1>. SUFFICES ASSUME RecordInv PROVE RecordIsTrue
    OBVIOUS
  <1>1. Audit!HonestAudit
    BY DEF RecordInv, Kept, Alone, Told, Audit!HonestAudit, Audit!Closed
  <1>2. Audit!AuditAddsUp
    BY DEF RecordInv, Kept, Alone, Told, Audit!AuditAddsUp
  <1>3. Audit!BillsAgree
    <2>1. \A S : Audit!Cardinality(S) = Cardinality(S)
      BY DEF Audit!Cardinality, Cardinality
    <2>2. ASSUME NEW i \in Ids
          PROVE  bill[i] <= Audit!Cardinality({c \in Calls : rid[c] = i /\ made[c] > 0})
      <3>. DEFINE billable == {c \in Calls : rid[c] = i /\ made[c] > 0}
      <3>1. IsFiniteSet(billable)
        BY CallsAssumption, FS_Subset
      <3>2. Booked(i) \subseteq billable
        BY DEF Booked
      <3>3. Cardinality(Booked(i)) <= Cardinality(billable) /\ Cardinality(billable) \in Nat
        BY <3>1, <3>2, FS_Subset, FS_CardinalityType
      <3>4. bill[i] \in Nat /\ bill[i] <= Cardinality(Booked(i))
        BY DEF RecordInv, Billed, Audit!TypeOK
      <3>5. bill[i] <= Cardinality(billable)
        BY <3>3, <3>4, BookedFinite
      <3>. QED BY <3>5, <2>1
    <2>3. ASSUME NEW i \in Ids, i \notin spoilt
          PROVE  /\ row[i].status = "success" => bill[i] > 0
                 /\ row[i].status = "none" => bill[i] = 0 /\ trail[i] = 0
      BY <2>3 DEF RecordInv, Kept, OnRecord
    <2>. QED BY <2>2, <2>3 DEF Audit!BillsAgree
  <1>. QED BY <1>1, <1>2, <1>3 DEF RecordIsTrue

\* The record of a request is true, for any calls with any ids in any order, whatever writes
\* fail and whenever the process dies (RequestAudit, in request_service.py and usage_service.py):
\* what a closed row says, that its attempts add up, and what has been billed.
THEOREM RecordsAreTrue == MCSpec => []RecordIsTrue
  <1>1. MCInit => RecordInv
    BY InitRecord DEF MCInit
  <1>. QED BY <1>1, NextRecord, RecordHolds, PTL DEF MCSpec

=============================================================================
