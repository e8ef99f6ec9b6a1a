----------------------------- MODULE TucpProofs -----------------------------
(***************************************************************************)
(* Proofs about the transport: its type invariant, and the promises it     *)
(* makes to its callers until the first USB error, for any commands, any   *)
(* number of retries and of calls.                                         *)
(***************************************************************************)
EXTENDS Tucp, SequenceTheorems, TLAPS

USE CommandsAssumption, ReportsAssumption, RetriesAssumption, CallsAssumption,
    FaultsAssumption

\* What stands where after an Append, a Tail and a concatenation.
LEMMA AppendIndices ==
  ASSUME NEW S, NEW s \in Seq(S), NEW e \in S
  PROVE  /\ Append(s, e) \in Seq(S)
         /\ Len(Append(s, e)) = Len(s) + 1
         /\ \A j \in 1..Len(Append(s, e)) :
               \/ j \in 1..Len(s) /\ Append(s, e)[j] = s[j]
               \/ j = Len(s) + 1 /\ Append(s, e)[j] = e
  BY AppendProperties

LEMMA TailIndices ==
  ASSUME NEW S, NEW s \in Seq(S), s # << >>
  PROVE  /\ Tail(s) \in Seq(S)
         /\ Len(Tail(s)) = Len(s) - 1
         /\ 1 \in 1..Len(s) /\ Head(s) = s[1] /\ s[1] \in S
         /\ \A j \in 1..Len(Tail(s)) :
               j + 1 \in 1..Len(s) /\ Tail(s)[j] = s[j + 1]
  BY HeadTailProperties

\* The lengths that rpacket[0] can announce are positive.
LEMMA LengthsArePositive == Lengths \subseteq Nat \ {0}
  BY DEF Lengths

\* The head rpacket is reset to is one.
LEMMA NoHeaderIsAHeader == NoHeader \in Headers
  BY DEF NoHeader, Headers, Kinds, Codes, NACKCodes, Lengths

\* Every error code has a return value.
LEMMA ErrorOfIsAResult == \A code \in Codes : ErrorOf(code) \in Results
  BY DEF ErrorOf, Results

-----------------------------------------------------------------------------

\* A reply of the watch is appended to the pipe as reports.
LEMMA AnswerType ==
  ASSUME NEW q \in Requests, NEW kind, NEW code, NEW n \in Lengths,
         replies \in Seq(Reports), Answer(q, kind, code, n)
  PROVE  replies' \in Seq(Reports)
<1>1. PICK h \in Arrives(q.call, kind, code, n), m \in Delivered(n) :
         replies' = replies \o [k \in 1..m |-> [k |-> k, h |-> h]]
  BY DEF Answer
<1>2. h \in Headers
  BY DEF Arrives
<1>3. m \in Nat
  BY LengthsArePositive DEF Delivered
<1>4. [k \in 1..m |-> [k |-> k, h |-> h]] \in Seq(Reports)
  BY <1>2, <1>3 DEF Reports
<1> QED
  BY <1>1, <1>4

\* A call that returns leaves its variables well typed.
LEMMA ReturnType ==
  ASSUME TypeOK, pc # "idle", NEW r \in Results, Return(r)
  PROVE  /\ pc' = "idle" /\ cur' = cur /\ issued' = issued
         /\ try' = 0 /\ sent' = 0 /\ hdr' \in Headers /\ need' = 0
         /\ result' \in [Calls -> Results \cup {"none"}]
  BY NoHeaderIsAHeader DEF TypeOK, Return

\* Every step keeps the types.
LEMMA TypeStep == TypeOK /\ [Next]_vars => TypeOK'
<1> SUFFICES ASSUME TypeOK, [Next]_vars PROVE TypeOK'
  OBVIOUS
<1> USE DEF TypeOK
<1>0. pc # "idle" => cur \in Calls /\ cmd \in Commands
  BY DEF Calls, cmd
<1>a. ASSUME NEW c \in Commands, Begin(c) PROVE TypeOK'
  <2>1. cur + 1 \in Calls
    BY <1>a DEF Begin, Calls
  <2>2. issued' \in [Calls -> Commands \cup {-1}]
    BY <1>a, <2>1 DEF Begin
  <2>3. \A d \in 1..cur' : issued'[d] \in Commands
    BY <1>a, <2>1 DEF Begin, Calls
  <2>4. cur' \in 0..MaxCalls /\ cur' > 0 /\ pc' = "send"
    BY <1>a DEF Begin
  <2> QED BY <1>a, <2>2, <2>3, <2>4 DEF Begin
<1>1. CASE Call
  BY <1>1, <1>a DEF Call
<1>2. CASE SendIdle
  BY <1>2, <1>a DEF SendIdle
<1>3. CASE SendReport
  <2> DEFINE q == [call |-> cur, cmd |-> cmd, whole |-> TRUE]
  <2>1. q \in Requests
    BY <1>0, <1>3 DEF SendReport, Requests
  <2>2. requests' = requests \/ requests' = Append(requests, q)
    BY <1>3 DEF SendReport
  <2>3. requests' \in Seq(Requests)
    <3> HIDE DEF q
    <3>1. Append(requests, q) \in Seq(Requests)
      BY <2>1
    <3> QED BY <2>2, <3>1
  <2> QED BY <1>3, <2>3 DEF SendReport
<1>4. CASE SendFails
  <2>1. [call |-> cur, cmd |-> cmd, whole |-> FALSE] \in Requests
    BY <1>0, <1>4 DEF SendFails, Requests
  <2>2. requests' \in Seq(Requests)
    BY <1>4, <2>1 DEF SendFails
  <2>3. "ERR_USB" \in Results
    BY DEF Results
  <2>4. pc # "idle" /\ Return("ERR_USB")
    BY <1>4 DEF SendFails
  <2> QED BY <1>4, <2>2, <2>3, <2>4, ReturnType DEF SendFails
<1>5. CASE ReadFirst
  <2>1. PICK h \in Headers : /\ hdr' = h /\ need' = h.n - 1
                             /\ pc' = IF h.n = 1 THEN "judge" ELSE "more"
    BY <1>5 DEF ReadFirst
  <2>2. h.n \in Nat \ {0}
    BY LengthsArePositive DEF Headers
  <2>3. need' \in Nat /\ (pc' = "more" => need' > 0)
    BY <2>1, <2>2
  <2>4. pc' \in {"more", "judge"} /\ hdr' \in Headers
    BY <2>1
  <2> QED BY <1>5, <2>3, <2>4 DEF ReadFirst
<1>6. CASE ReadMore
  <2> DEFINE r == Head(replies)
  <2>1. r \in Reports
    BY <1>6 DEF ReadMore
  <2>2. hdr' \in Headers
    BY <1>6 DEF ReadMore, Headers
  <2> QED BY <1>6, <2>2 DEF ReadMore
<1>7. CASE ReadFails
  <2>1. "ERR_USB" \in Results /\ pc # "idle" /\ Return("ERR_USB")
    BY <1>7 DEF Results, ReadFails
  <2> QED BY <1>7, <2>1, ReturnType DEF ReadFails
<1>8. CASE Accept
  <2>1. "OK" \in Results /\ pc # "idle" /\ Return("OK")
    BY <1>8 DEF Results, Accept
  <2> QED BY <1>8, <2>1, ReturnType DEF Accept
<1>9. CASE NoAckNack
  <2>1. "ERR_COMM" \in Results /\ pc # "idle" /\ Return("ERR_COMM")
    BY <1>9 DEF Results, NoAckNack
  <2> QED BY <1>9, <2>1, ReturnType DEF NoAckNack
<1>10. CASE Retry
  BY <1>10, NoHeaderIsAHeader DEF Retry, SendAgain
<1>11. CASE Refused
  <2>1. ErrorOf(hdr.code) \in Results
    BY ErrorOfIsAResult DEF Headers
  <2>2. pc # "idle" /\ Return(ErrorOf(hdr.code))
    BY <1>11 DEF Refused
  <2> QED BY <1>11, <2>1, <2>2, ReturnType DEF Refused
<1>12. CASE WatchRuns
  <2>1. Head(requests) \in Requests /\ requests' \in Seq(Requests)
    BY <1>12 DEF WatchRuns
  <2>2. execs' \in [Calls -> Nat]
    BY <1>12, <2>1 DEF WatchRuns, Requests
  <2>3. AckReports[Head(requests).cmd] \in Lengths
    BY <2>1 DEF Lengths, Requests
  <2>4. replies' \in Seq(Reports)
    BY <1>12, <2>1, <2>3, AnswerType DEF WatchRuns
  <2> QED BY <1>12, <2>1, <2>2, <2>4 DEF WatchRuns, host
<1>13. CASE WatchRefuses
  <2>1. Head(requests) \in Requests /\ requests' \in Seq(Requests)
    BY <1>13 DEF WatchRefuses
  <2>2. 1 \in Lengths
    BY DEF Lengths
  <2>3. replies' \in Seq(Reports)
    BY <1>13, <2>1, <2>2, AnswerType DEF WatchRefuses
  <2> QED BY <1>13, <2>1, <2>3 DEF WatchRefuses, host
<1>14. CASE UNCHANGED vars
  BY <1>14 DEF vars, host
<1> QED
  BY <1>1, <1>2, <1>3, <1>4, <1>5, <1>6, <1>7, <1>8, <1>9, <1>10, <1>11,
     <1>12, <1>13, <1>14 DEF Next, HostStep, WatchStep

\* The initial values have the types.
LEMMA TypeInit == Init => TypeOK
<1> SUFFICES ASSUME Init PROVE TypeOK
  OBVIOUS
<1>1. /\ requests \in Seq(Requests) /\ replies \in Seq(Reports)
      /\ hdr \in Headers /\ try \in 0..(NUM_RETRIES - 1)
  BY NoHeaderIsAHeader DEF Init
<1>2. /\ issued \in [Calls -> Commands \cup {-1}]
      /\ result \in [Calls -> Results \cup {"none"}]
      /\ execs \in [Calls -> Nat]
  BY DEF Init
<1>3. cur = 0 /\ pc = "idle" /\ sent = 0 /\ need = 0
  BY DEF Init
<1>4. rlenOdd \in BOOLEAN
  BY DEF Init
<1>5. \A c \in 1..cur : issued[c] \in Commands
  BY <1>3
<1> QED
  BY <1>1, <1>2, <1>3, <1>4, <1>5 DEF TypeOK

\* Every variable keeps its type: in particular the loop's counter stays
\* below NUM_RETRIES and what is left to read is never negative.
THEOREM TypeCorrect == Spec => []TypeOK
  BY TypeInit, TypeStep, PTL DEF Spec

-----------------------------------------------------------------------------

\* What a step does to what is history: results change from "none" only, and
\* nothing is known of calls not made yet.
LEMMA HistoryStep == TypeOK /\ TypeOK' /\ History /\ [Next]_vars => History'
<1> SUFFICES ASSUME TypeOK, TypeOK', History, [Next]_vars PROVE History'
  OBVIOUS
<1> USE DEF TypeOK, History, Calls
<1>0. \A j \in 1..Len(requests) : requests[j].call \in Calls
  <2>1. \A j \in 1..Len(requests) : requests[j] \in Requests
    OBVIOUS
  <2> QED BY <2>1 DEF Requests
<1>a. ASSUME NEW c \in Commands, Begin(c) PROVE History'
  <2>1. /\ pc = "idle" /\ cur' = cur + 1 /\ requests' = requests
        /\ execs' = execs /\ result' = result /\ cur + 1 \in Calls
        /\ issued' = [issued EXCEPT ![cur + 1] = c]
    BY <1>a DEF Begin
  <2>2. cur \in Calls \cup {0} /\ cur \in Nat /\ cur + 1 \in Nat
    BY CallsAssumption
  <2>3. \A n \in Calls : n <= cur => issued'[n] = issued[n] /\ n <= cur + 1
    BY <2>1, <2>2
  <2>4. \A j \in 1..Len(requests) :
           /\ requests[j].call \in Calls /\ requests[j].call <= cur
           /\ requests[j].cmd = issued[requests[j].call]
    BY <1>0
  <2> HIDE DEF TypeOK, History, Calls
  <2>5. \A j \in 1..Len(requests) : /\ requests[j].call <= cur + 1
                                   /\ requests[j].cmd = issued'[requests[j].call]
    BY <2>3, <2>4, Zenon
  <2>6. \A n \in Calls : n > cur => result[n] = "none" /\ execs[n] = 0
    BY DEF History
  <2>7. \A n \in Calls : n > cur + 1 => n > cur
    BY <2>2 DEF Calls
  <2>8. cur + 1 > cur
    BY <2>2
  <2>9. result[cur + 1] = "none"
    BY <2>1, <2>6, <2>8
  <2> QED BY <2>1, <2>5, <2>6, <2>7, <2>9 DEF History
<1>b. ASSUME NEW r, pc # "idle", Return(r), requests' = requests,
             execs' = execs
      PROVE  History'
  BY <1>b DEF Return
<1>1. CASE Call \/ SendIdle
  BY <1>1, <1>a DEF Call, SendIdle
<1>2. CASE SendReport
  <2>1. \A j \in 1..Len(requests') : /\ requests'[j].call <= cur
                                    /\ requests'[j].cmd = issued[requests'[j].call]
    <3> DEFINE q == [call |-> cur, cmd |-> cmd, whole |-> TRUE]
    <3>1. q.call = cur /\ q.cmd = issued[cur] /\ q \in Requests
      BY <1>2 DEF SendReport, cmd, Requests
    <3>2. requests' = requests \/ requests' = Append(requests, q)
      BY <1>2 DEF SendReport
    <3> HIDE DEF q
    <3>3. CASE requests' = requests
      BY <3>3
    <3>4. CASE requests' = Append(requests, q)
      <4>1. \A j \in 1..Len(requests') :
               \/ j \in 1..Len(requests) /\ requests'[j] = requests[j]
               \/ requests'[j] = q
        BY <3>1, <3>4, AppendIndices
      <4>2. cur <= cur
        OBVIOUS
      <4> QED BY <3>1, <4>1, <4>2, Zenon
    <3> QED BY <3>2, <3>3, <3>4
  <2>2. pc # "idle" /\ cur' = cur /\ issued' = issued /\ execs' = execs
        /\ result' = result
    BY <1>2 DEF SendReport
  <2> QED BY <2>1, <2>2
<1>3. CASE SendFails
  <2>1. pc' = "idle" /\ cur' = cur /\ issued' = issued /\ execs' = execs
        /\ \A n \in Calls : n > cur => result'[n] = "none"
    BY <1>3 DEF SendFails, Return
  <2>2. \A j \in 1..Len(requests') : /\ requests'[j].call <= cur
                                    /\ requests'[j].cmd = issued[requests'[j].call]
    BY <1>3 DEF SendFails, cmd
  <2> QED BY <2>1, <2>2
<1>4. CASE ReadFirst
  BY <1>4 DEF ReadFirst
<1>5. CASE ReadMore
  BY <1>5 DEF ReadMore
<1>6. CASE ReadFails
  BY <1>6, <1>b DEF ReadFails
<1>7. CASE Accept
  BY <1>7, <1>b DEF Accept
<1>8. CASE NoAckNack
  BY <1>8, <1>b DEF NoAckNack
<1>9. CASE Retry
  BY <1>9 DEF Retry, SendAgain
<1>10. CASE Refused
  BY <1>10, <1>b DEF Refused
<1>11. CASE WatchRuns
  <2>1. Head(requests) = requests[1] /\ Len(requests) > 0
    BY <1>11 DEF WatchRuns
  <2>2. requests[1].call <= cur
    BY <2>1
  <2>3. \A n \in Calls : n > cur => execs'[n] = 0
    <3>1. execs' = [execs EXCEPT ![requests[1].call] = @ + 1]
      BY <1>11, <2>1 DEF WatchRuns
    <3>2. \A n \in Calls : n > cur => n # requests[1].call
      BY <1>0, <2>1, <2>2
    <3> QED BY <3>1, <3>2
  <2>4. \A j \in 1..Len(requests') : requests'[j] = requests[j + 1]
                                     /\ j + 1 \in 1..Len(requests)
    BY <1>11, <2>1 DEF WatchRuns
  <2> QED BY <1>11, <2>3, <2>4 DEF WatchRuns, host
<1>12. CASE WatchRefuses
  <2>1. \A j \in 1..Len(requests') : requests'[j] = requests[j + 1]
                                     /\ j + 1 \in 1..Len(requests)
    BY <1>12 DEF WatchRefuses
  <2> QED BY <1>12, <2>1 DEF WatchRefuses, host
<1>13. CASE UNCHANGED vars
  BY <1>13 DEF vars, host
<1> QED
  BY <1>1, <1>2, <1>3, <1>4, <1>5, <1>6, <1>7, <1>8, <1>9, <1>10, <1>11,
     <1>12, <1>13 DEF Next, HostStep, WatchStep

\* Trust once lost is not regained.
LEMMA TrustStep ==
  ASSUME TypeOK, History, [Next]_vars, Trusted(cur + 1)'
  PROVE  Trusted(cur + 1)
<1> USE DEF TypeOK, History, Calls, Trusted
<1>a. ASSUME NEW r, pc # "idle", Return(r)
      PROVE  Trusted(cur + 1)
  BY <1>a DEF Return
<1>1. CASE Call \/ SendIdle
  <2>1. cur' = cur + 1 /\ result' = result
    BY <1>1 DEF Call, SendIdle, Begin
  <2> QED BY <2>1
<1>2. CASE SendReport \/ ReadFirst \/ ReadMore \/ Retry
  BY <1>2 DEF SendReport, ReadFirst, ReadMore, Retry, SendAgain
<1>3. CASE SendFails \/ ReadFails \/ Accept \/ NoAckNack \/ Refused
  <2>1. pc # "idle" /\ \E r : Return(r)
    BY <1>3 DEF SendFails, ReadFails, Accept, NoAckNack, Refused
  <2> QED BY <2>1, <1>a
<1>4. CASE WatchStep
  BY <1>4 DEF WatchStep, WatchRuns, WatchRefuses, host
<1>5. CASE UNCHANGED vars
  BY <1>5 DEF vars, host
<1> QED
  BY <1>1, <1>2, <1>3, <1>4, <1>5 DEF Next, HostStep

-----------------------------------------------------------------------------

\* What is in an empty pipe after the watch has answered.
LEMMA AnswerContents ==
  ASSUME NEW q \in Requests, NEW kind, NEW code, NEW n \in Lengths,
         "length" \notin Faults, replies = << >>, Answer(q, kind, code, n)
  PROVE  \E h \in Headers :
            /\ h.n = n
            /\ h.good => h.kind = kind /\ h.code = code
            /\ "code" \notin Faults => h.code = code
            /\ Len(replies') \in 0..n
            /\ \A j \in 1..Len(replies') : replies'[j].k = j /\ replies'[j].h = h
<1>1. PICK h \in Arrives(q.call, kind, code, n), m \in Delivered(n) :
         replies' = replies \o [k \in 1..m |-> [k |-> k, h |-> h]]
  BY DEF Answer
<1>2. n \in Nat \ {0}
  BY LengthsArePositive
<1>3. m \in 0..n
  BY <1>2 DEF Delivered
<1>4. h \in Headers
  BY DEF Arrives
<1> DEFINE s == [k \in 1..m |-> [k |-> k, h |-> h]]
<1>5. s \in Seq(Reports) /\ Len(s) = m
  BY <1>3, <1>4 DEF Reports
<1>6. replies' = s
  <2> HIDE DEF s
  <2>1. replies' = << >> \o s
    BY <1>1 DEF s
  <2> QED BY <1>5, <2>1, ConcatEmptySeq
<1>7. /\ h.n = n
      /\ h.good => h.kind = kind /\ h.code = code
      /\ "code" \notin Faults => h.code = code
  BY DEF Arrives
<1>8. \A j \in 1..m : s[j].k = j /\ s[j].h = h
  OBVIOUS
<1>9. Len(replies') \in 0..n /\
      \A j \in 1..Len(replies') : replies'[j].k = j /\ replies'[j].h = h
  BY <1>3, <1>5, <1>6, <1>8
<1> QED
  BY <1>4, <1>7, <1>9

\* A USB error ends the trust.
LEMMA UsbErrorEndsTrust ==
  ASSUME TypeOK, pc # "idle", Return("ERR_USB")
  PROVE  ~Trusted(cur + 1)'
  BY DEF TypeOK, Return, Trusted, Calls

\* One step keeps the channel invariant.
LEMMA ChannelStep ==
  ASSUME "length" \notin Faults, TypeOK, History, ChannelInv, [Next]_vars
  PROVE  ChannelInv'
<1> SUFFICES ASSUME Trusted(cur + 1)' PROVE Channel'
  BY DEF ChannelInv
<1>0. Channel
  BY TrustStep DEF ChannelInv
<1>t. /\ requests \in Seq(Requests) /\ replies \in Seq(Reports)
      /\ cur \in Nat /\ need \in Nat /\ hdr \in Headers
      /\ execs \in [Calls -> Nat]
      /\ pc \in {"idle", "send", "read", "more", "judge"}
      /\ pc # "idle" => cur \in Calls
  BY DEF TypeOK, Calls
<1>r. \A j \in 1..Len(requests) : requests[j] \in Requests
  BY <1>t
<1>1. CASE Call \/ SendIdle
  <2>1. /\ pc = "idle" /\ pc' = "send"
        /\ requests' = requests /\ replies' = replies
    BY <1>1 DEF Call, SendIdle, Begin
  <2> QED BY <1>0, <2>1 DEF Channel
<1>2. CASE SendReport
  <2>1. requests = << >> /\ replies = << >> /\ replies' = replies
        /\ cur' = cur
    BY <1>0, <1>2 DEF SendReport, Channel
  <2>2. CASE pc' = "send" /\ requests' = requests
    BY <2>1, <2>2 DEF Channel
  <2>3. CASE pc' = "read" /\ requests' = Append(requests,
                               [call |-> cur, cmd |-> cmd, whole |-> TRUE])
    <3>1. Len(requests') = 1 /\ requests'[1].call = cur
      BY <2>1, <2>3
    <3> QED BY <2>1, <2>3, <3>1 DEF Channel
  <2> QED BY <1>2, <2>2, <2>3 DEF SendReport
<1>3. CASE SendFails
  BY <1>3, UsbErrorEndsTrust DEF SendFails
<1>4. CASE ReadFirst
  <2>1. /\ requests = << >> /\ replies # << >> /\ replies[1].k = 1
        /\ Len(replies) <= replies[1].h.n
        /\ \A j \in 1..Len(replies) : Truthful(replies[j].h)
        /\ requests' = requests /\ replies' = Tail(replies)
        /\ execs' = execs /\ cur' = cur
    BY <1>0, <1>4 DEF ReadFirst, Channel
  <2>2. /\ 1 \in 1..Len(replies) /\ Head(replies) = replies[1]
        /\ Len(Tail(replies)) = Len(replies) - 1
        /\ \A j \in 1..Len(Tail(replies)) :
              j + 1 \in 1..Len(replies) /\ Tail(replies)[j] = replies[j + 1]
        /\ replies[1] \in Reports
    BY <1>t, <2>1, TailIndices
  <2>3. /\ hdr' = replies[1].h
        /\ need' = replies[1].h.n - 1
        /\ pc' = IF replies[1].h.n = 1 THEN "judge" ELSE "more"
    BY <1>4, <2>1, <2>2 DEF ReadFirst
  <2>4. replies[1].h.n \in Nat \ {0}
    BY <2>2, LengthsArePositive DEF Reports, Headers
  <2>5. /\ pc' \in {"judge", "more"}
        /\ Len(replies') <= need'
        /\ pc' = "judge" => need' = 0
    BY <1>t, <2>1, <2>2, <2>3, <2>4
  <2>6. Truthful(hdr)' /\ \A j \in 1..Len(replies') : Truthful(replies[j].h)'
    BY <2>1, <2>2, <2>3 DEF Truthful
  <2>7. Len(requests') = 0
    BY <2>1
  <2> QED BY <2>1, <2>5, <2>6, <2>7 DEF Channel
<1>5. CASE ReadMore
  <2>1. /\ pc = "more" /\ requests = << >> /\ replies # << >>
        /\ Len(replies) <= need /\ Truthful(hdr)
        /\ \A j \in 1..Len(replies) : Truthful(replies[j].h)
        /\ requests' = requests /\ replies' = Tail(replies)
        /\ need' = need - 1 /\ pc' = IF need = 1 THEN "judge" ELSE "more"
        /\ execs' = execs /\ cur' = cur
    BY <1>0, <1>5 DEF ReadMore, Channel
  <2>2. /\ Len(Tail(replies)) = Len(replies) - 1
        /\ \A j \in 1..Len(Tail(replies)) :
              j + 1 \in 1..Len(replies) /\ Tail(replies)[j] = replies[j + 1]
    BY <1>t, <2>1, TailIndices
  <2>3. hdr'.kind = hdr.kind /\ (hdr'.good => hdr.good)
    BY <1>5, <1>t DEF ReadMore, Headers
  <2>4. /\ pc' \in {"judge", "more"}
        /\ Len(replies') <= need'
        /\ pc' = "judge" => need' = 0
    BY <1>t, <2>1, <2>2
  <2>5. Truthful(hdr)' /\ \A j \in 1..Len(replies') : Truthful(replies[j].h)'
    BY <2>1, <2>2, <2>3 DEF Truthful
  <2>6. Len(requests') = 0
    BY <2>1
  <2> QED BY <2>1, <2>4, <2>5, <2>6 DEF Channel
<1>6. CASE ReadFails
  BY <1>6, UsbErrorEndsTrust DEF ReadFails
<1>7. CASE Accept \/ NoAckNack \/ Refused \/ Retry
  <2>1. /\ pc = "judge" /\ pc' \in {"idle", "send"}
        /\ requests' = requests /\ replies' = replies
    BY <1>7 DEF Accept, NoAckNack, Refused, Retry, SendAgain, Return
  <2>2. requests = << >> /\ Len(replies) = 0
    BY <1>0, <1>t, <2>1 DEF Channel
  <2>3. replies = << >>
    BY <1>t, <2>2
  <2> QED BY <2>1, <2>2, <2>3 DEF Channel
<1>8. CASE WatchStep
  <2>1. /\ requests # << >> /\ requests' = Tail(requests)
        /\ pc' = pc /\ cur' = cur /\ need' = need /\ hdr' = hdr
    BY <1>8 DEF WatchStep, WatchRuns, WatchRefuses, host
  <2>2. pc = "read" /\ Len(requests) <= 1 /\ replies = << >>
    BY <1>0, <1>t, <2>1 DEF Channel
  <2>3. /\ requests' \in Seq(Requests) /\ Len(requests') = 0
        /\ Head(requests) = requests[1] /\ requests[1] \in Requests
        /\ 1 \in 1..Len(requests)
    <3>1. /\ Tail(requests) \in Seq(Requests)
          /\ Len(Tail(requests)) = Len(requests) - 1
          /\ 1 \in 1..Len(requests) /\ Head(requests) = requests[1]
          /\ requests[1] \in Requests
      BY <1>t, <2>1, TailIndices
    <3> QED BY <2>1, <2>2, <3>1
  <2>4. requests[1].call = cur
    BY <1>0, <2>3 DEF Channel
  <2> DEFINE q == Head(requests)
  <2>5. q \in Requests
    BY <2>3
  <2>6. PICK h \in Headers :
          /\ Len(replies') \in 0..h.n
          /\ \A j \in 1..Len(replies') : replies'[j].k = j /\ replies'[j].h = h
          /\ h.kind = "ACK" /\ h.good => execs'[cur] > 0
    <3>1. CASE WatchRuns
      <4>1. Answer(q, "ACK", q.cmd, AckReports[q.cmd])
            /\ execs' = [execs EXCEPT ![q.call] = @ + 1]
        BY <3>1 DEF WatchRuns
      <4>2. AckReports[q.cmd] \in Lengths
        BY <2>5 DEF Lengths, Requests
      <4>3. execs'[cur] > 0
        BY <1>t, <2>2, <2>3, <2>4, <4>1
      <4> QED
        BY <2>2, <2>5, <4>1, <4>2, <4>3, AnswerContents
    <3>2. CASE WatchRefuses
      <4>1. PICK code \in NACKCodes : Answer(q, "NACK", code, 1)
        BY <3>2 DEF WatchRefuses
      <4>2. 1 \in Lengths
        BY DEF Lengths
      <4> QED
        BY <2>2, <2>5, <4>1, <4>2, AnswerContents
    <3> QED BY <1>8, <3>1, <3>2 DEF WatchStep
  <2>7. requests' = << >>
    BY <2>3
  <2>8. replies' # << >> => replies'[1].k = 1 /\ Len(replies') <= replies'[1].h.n
    <3>1. TypeOK'
      BY TypeStep
    <3>2. replies' # << >> => 1 \in 1..Len(replies')
      BY <3>1 DEF TypeOK
    <3>3. \A j \in 1..Len(replies') : replies'[j].k = j /\ replies'[j].h = h
      BY <2>6
    <3>4. Len(replies') <= h.n
      BY <2>6, LengthsArePositive DEF Headers
    <3> QED BY <3>2, <3>3, <3>4
  <2>9. \A j \in 1..Len(replies') : Truthful(replies[j].h)'
    <3>1. \A j \in 1..Len(replies') : replies'[j].h = h
      BY <2>6
    <3> QED BY <2>1, <2>6, <3>1 DEF Truthful
  <2> QED BY <2>1, <2>2, <2>3, <2>7, <2>8, <2>9 DEF Channel
<1>9. CASE UNCHANGED vars
  BY <1>0, <1>9 DEF vars, host, Channel, Truthful
<1> QED
  BY <1>1, <1>2, <1>3, <1>4, <1>5, <1>6, <1>7, <1>8, <1>9
     DEF Next, HostStep

-----------------------------------------------------------------------------

\* A result only changes when the current call returns, and only an accepted
\* ACK makes it "OK".
LEMMA ResultStep ==
  ASSUME TypeOK, [Next]_vars, NEW m \in Calls, result'[m] # result[m]
  PROVE  /\ m = cur /\ pc # "idle" /\ execs' = execs
         /\ result'[m] = "OK" => pc = "judge" /\ Accepted
<1>0. result \in [Calls -> Results \cup {"none"}]
  BY DEF TypeOK
<1>1. CASE Call \/ SendIdle \/ SendReport \/ ReadFirst \/ ReadMore \/ Retry
  BY <1>1 DEF Call, SendIdle, Begin, SendReport, ReadFirst, ReadMore, Retry, SendAgain
<1>2. CASE SendFails \/ ReadFails
  BY <1>0, <1>2 DEF SendFails, ReadFails, Return
<1>3. CASE Accept
  BY <1>0, <1>3 DEF Accept, Return
<1>4. CASE NoAckNack
  BY <1>0, <1>4 DEF NoAckNack, Return
<1>5. CASE Refused
  <2>1. ErrorOf(hdr.code) # "OK"
    BY DEF ErrorOf
  <2> QED BY <1>0, <1>5, <2>1 DEF Refused, Return
<1>6. CASE WatchStep \/ UNCHANGED vars
  BY <1>6 DEF WatchStep, WatchRuns, WatchRefuses, host, vars
<1> QED
  BY <1>1, <1>2, <1>3, <1>4, <1>5, <1>6 DEF Next, HostStep

\* The trust in a call already made does not change.
LEMMA TrustOfCalls ==
  ASSUME TypeOK, [Next]_vars
  PROVE  \A n \in 1..cur : Trusted(n)' <=> Trusted(n)
<1>1. cur \in 0..MaxCalls
  BY DEF TypeOK
<1>2. \A m \in Calls : m # cur => result'[m] = result[m]
  BY ResultStep
<1>3. \A m \in 1..(cur - 1) : result'[m] = result[m]
  BY <1>1, <1>2 DEF Calls
<1> QED
  BY <1>1, <1>3 DEF Trusted

\* A call in progress has not failed yet.
LEMMA TrustInProgress ==
  ASSUME TypeOK, History, pc # "idle", Trusted(cur)
  PROVE  Trusted(cur + 1)
<1>1. cur \in Nat /\ result[cur] = "none"
  BY DEF TypeOK, History
<1>2. \A m \in 1..((cur + 1) - 1) : m \in 1..(cur - 1) \/ m = cur
  BY <1>1
<1> QED
  BY <1>1, <1>2 DEF Trusted

\* Executions are only ever added.
LEMMA ExecsGrow ==
  ASSUME TypeOK, [Next]_vars
  PROVE  \A n \in Calls : execs'[n] >= execs[n]
<1>1. CASE WatchRuns
  <2>1. /\ requests # << >> /\ requests \in Seq(Requests)
        /\ execs' = [execs EXCEPT ![Head(requests).call] = @ + 1]
    BY <1>1 DEF WatchRuns, TypeOK
  <2> QED BY <2>1 DEF TypeOK
<1>2. CASE execs' = execs
  BY <1>2 DEF TypeOK
<1> QED
  BY <1>1, <1>2 DEF Next, Call, SendIdle, Begin, HostStep, SendReport,
     SendFails, ReadFirst, ReadMore, ReadFails, Accept, NoAckNack, Retry, SendAgain,
     Refused, WatchStep, WatchRefuses, vars

\* No call that returns "OK" is left out: its ACK was sound, so its command
\* has run.
LEMMA ExecutedStep ==
  ASSUME TypeOK, History, ChannelInv, SuccessMeansExecuted, [Next]_vars
  PROVE  SuccessMeansExecuted'
<1> SUFFICES ASSUME NEW n \in Calls, result'[n] = "OK", Trusted(n)'
             PROVE  execs'[n] > 0
  BY DEF SuccessMeansExecuted, Calls
<1>1. execs \in [Calls -> Nat] /\ execs' \in [Calls -> Nat]
      /\ execs'[n] >= execs[n]
  BY TypeStep, ExecsGrow DEF TypeOK
<1>2. CASE result'[n] = result[n]
  <2>1. n \in 1..cur
    BY <1>2 DEF History, TypeOK, Calls
  <2>2. Trusted(n)
    BY <2>1, TrustOfCalls
  <2>3. execs[n] > 0
    BY <1>2, <2>2 DEF SuccessMeansExecuted
  <2> QED BY <1>1, <2>3
<1>3. CASE result'[n] # result[n]
  <2>1. /\ n = cur /\ pc # "idle" /\ execs' = execs
        /\ pc = "judge" /\ Accepted
    BY <1>3, ResultStep
  <2>2. Trusted(cur)
    BY <2>1, TrustOfCalls DEF TypeOK, Calls
  <2>3. Trusted(cur + 1)
    BY <2>1, <2>2, TrustInProgress
  <2>4. Truthful(hdr)
    BY <2>1, <2>3 DEF ChannelInv, Channel
  <2> QED BY <2>1, <2>4 DEF Accepted, Truthful
<1> QED
  BY <1>2, <1>3

\* Success means execution (send_read_tucp_packet, its break): as long as the
\* length byte of a reply arrives undamaged, and until a call has returned
\* ERR_USB, a call that returns 0 was run by the watch, however many attempts
\* it took, whatever was lost, refused or damaged on the way.
THEOREM SuccessIsExecution ==
  ASSUME "length" \notin Faults
  PROVE  Spec => [](SuccessMeansExecuted /\ ChannelInv)
<1> DEFINE IInv == TypeOK /\ History /\ ChannelInv /\ SuccessMeansExecuted
<1>1. Init => IInv
  BY TypeInit DEF Init, History, ChannelInv, Channel, SuccessMeansExecuted
<1>2. IInv /\ [Next]_vars => IInv'
  BY TypeStep, HistoryStep, ChannelStep, ExecutedStep
<1> QED
  BY <1>1, <1>2, PTL DEF Spec

\* Whenever a command is about to be sent the line is clean, under the same
\* conditions: no reply of an earlier command or attempt waits to be taken for
\* the reply to this one.
THEOREM StaysInStep ==
  ASSUME "length" \notin Faults
  PROVE  Spec => []InStep
<1>1. ChannelInv => InStep
  BY DEF ChannelInv, Channel, InStep
<1> QED
  BY <1>1, SuccessIsExecution, PTL

-----------------------------------------------------------------------------

\* Adding the packet of the current call to an empty or foreign queue keeps the
\* packets of call n apart.
LEMMA OnceSend ==
  ASSUME TypeOK, History, ChannelInv, pc = "send",
         NEW n \in 1..cur, Trusted(n), Once(n),
         NEW q \in Requests, q.call = cur
  PROVE  LET s == Append(requests, q) IN
         \A j \in 1..Len(s) :
            s[j].call = n =>
               /\ execs[n] = 0
               /\ \A i \in 1..Len(s) : s[i].call = n => i = j
<1> DEFINE s == Append(requests, q)
<1>1. \A j \in 1..Len(s) :
         \/ j \in 1..Len(requests) /\ s[j] = requests[j]
         \/ j = Len(requests) + 1 /\ s[j] = q
  BY AppendIndices DEF TypeOK
<1>2. \A j \in 1..Len(requests) :
         requests[j].call = n =>
            /\ execs[n] = 0
            /\ \A i \in 1..Len(requests) : requests[i].call = n => i = j
  BY DEF Once
<1> HIDE DEF s
<1>3. CASE n # cur
  <2>1. \A j \in 1..Len(s) : s[j].call = n =>
           j \in 1..Len(requests) /\ s[j] = requests[j]
    BY <1>1, <1>3
  <2> QED BY <1>2, <2>1, Zenon DEF s
<1>4. CASE n = cur
  <2>1. Len(requests) = 0
    BY <1>4, TrustInProgress DEF ChannelInv, Channel
  <2>2. \A j \in 1..Len(s) : j = 1
    BY <1>1, <2>1
  <2>3. execs[n] = 0
    BY <1>4 DEF Once
  <2> QED BY <2>2, <2>3, Zenon DEF s
<1> QED
  BY <1>3, <1>4

\* One step keeps the invariant behind AtMostOnce.
LEMMA OnceStep ==
  ASSUME {"length", "code"} \cap Faults = {},
         TypeOK, History, ChannelInv, OnceInv, [Next]_vars
  PROVE  OnceInv'
<1> SUFFICES ASSUME NEW n \in 1..cur', Trusted(n)', issued'[n] \notin Retryable
             PROVE  Once(n)'
  BY DEF OnceInv
<1>t. /\ requests \in Seq(Requests) /\ replies \in Seq(Reports)
      /\ cur \in Nat /\ hdr \in Headers /\ execs \in [Calls -> Nat]
      /\ pc \in {"idle", "send", "read", "more", "judge"}
      /\ issued \in [Calls -> Commands \cup {-1}] /\ cur \in 0..MaxCalls
  BY DEF TypeOK
<1>1. CASE Call \/ SendIdle
  <2>1. PICK c \in Commands : Begin(c)
    BY <1>1 DEF Call, SendIdle
  <2>2. /\ pc' = "send" /\ cur' = cur + 1 /\ execs' = execs
        /\ requests' = requests /\ replies' = replies
        /\ issued' = [issued EXCEPT ![cur + 1] = c] /\ cur + 1 \in Calls
    BY <2>1, <1>t DEF Begin, Calls
  <2>3. CASE n = cur + 1
    <3>1. execs[n] = 0
      BY <1>t, <2>2, <2>3 DEF History
    <3>2. \A j \in 1..Len(requests) : requests[j].call # n
      <4>1. \A j \in 1..Len(requests) : requests[j] \in Requests
        BY <1>t
      <4>2. \A j \in 1..Len(requests) : requests[j].call \in Nat
        BY <4>1 DEF Requests, Calls
      <4> QED BY <1>t, <2>3, <4>2 DEF History
    <3> QED BY <2>2, <3>1, <3>2 DEF Once
  <2>4. CASE n # cur + 1
    <3>1. n \in 1..cur /\ n # cur'
      BY <1>t, <2>2, <2>4
    <3>2. issued'[n] = issued[n]
      BY <1>t, <2>2, <2>4, <3>1 DEF Calls
    <3>3. Once(n)
      BY <3>1, <3>2, TrustOfCalls DEF OnceInv
    <3> QED BY <2>2, <3>1, <3>3 DEF Once
  <2> QED BY <2>3, <2>4
<1>2. CASE ~(Call \/ SendIdle)
  <2>1. cur' = cur /\ issued' = issued
    BY <1>2 DEF Next, HostStep, SendReport, SendFails, ReadFirst, ReadMore,
       ReadFails, Accept, NoAckNack, Retry, SendAgain, Refused, Return, WatchStep,
       WatchRuns, WatchRefuses, host, vars
  <2>2. n \in 1..cur /\ Trusted(n) /\ issued[n] \notin Retryable
    BY <2>1, TrustOfCalls
  <2>3. Once(n)
    BY <2>2 DEF OnceInv
  <2>4. n = cur /\ pc # "idle" => Channel
    BY <2>2, TrustInProgress DEF ChannelInv
  <2>5. CASE SendReport
    <3>1. pc = "send" /\ execs' = execs /\ replies' = replies
      BY <2>5 DEF SendReport
    <3>2. CASE pc' = "send" /\ requests' = requests
      BY <2>1, <2>3, <3>1, <3>2 DEF Once
    <3>3. CASE pc' = "read" /\ requests' = Append(requests,
                                [call |-> cur, cmd |-> cmd, whole |-> TRUE])
      <4> DEFINE q == [call |-> cur, cmd |-> cmd, whole |-> TRUE]
      <4>1. q \in Requests /\ q.call = cur
        BY <3>1 DEF TypeOK, Requests, Calls, cmd
      <4> HIDE DEF q
      <4>2. requests' = Append(requests, q)
        BY <3>3 DEF q
      <4>3. \A j \in 1..Len(requests') : requests'[j].call = n =>
               /\ execs[n] = 0
               /\ \A i \in 1..Len(requests') : requests'[i].call = n => i = j
        BY <2>2, <2>3, <3>1, <4>1, <4>2, OnceSend
      <4>4. execs[n] <= 1 /\ (n = cur => execs[n] = 0)
        BY <2>3, <3>1 DEF Once
      <4>5. execs'[n] > 0 => n # cur
        BY <3>1, <4>4
      <4> QED BY <2>1, <3>1, <3>3, <4>3, <4>4, <4>5 DEF Once
    <3> QED BY <2>5, <3>2, <3>3 DEF SendReport
  <2>6. CASE SendFails
    <3>1. pc = "send" /\ pc' = "idle" /\ execs' = execs
      BY <2>6 DEF SendFails, Return
    <3>2. CASE requests' = requests
      BY <2>3, <3>1, <3>2 DEF Once
    <3>3. CASE requests' = Append(requests,
                             [call |-> cur, cmd |-> cmd, whole |-> FALSE])
      <4> DEFINE q == [call |-> cur, cmd |-> cmd, whole |-> FALSE]
      <4>1. q \in Requests /\ q.call = cur
        BY <3>1 DEF TypeOK, Requests, Calls, cmd
      <4> HIDE DEF q
      <4>2. requests' = Append(requests, q)
        BY <3>3 DEF q
      <4>3. \A j \in 1..Len(requests') : requests'[j].call = n =>
               /\ execs[n] = 0
               /\ \A i \in 1..Len(requests') : requests'[i].call = n => i = j
        BY <2>2, <2>3, <3>1, <4>1, <4>2, OnceSend
      <4>4. execs[n] <= 1
        BY <2>3 DEF Once
      <4> QED BY <3>1, <4>3, <4>4 DEF Once
    <3> QED BY <2>6, <3>2, <3>3 DEF SendFails
  <2>7. CASE ReadFirst
    <3>1. /\ pc = "read" /\ pc' \in {"more", "judge"} /\ replies # << >>
          /\ requests' = requests /\ execs' = execs
      BY <2>7 DEF ReadFirst
    <3>2. n = cur /\ execs[n] > 0 => hdr'.code = issued[n]
      <4> SUFFICES ASSUME n = cur, execs[n] > 0 PROVE hdr'.code = issued[n]
        OBVIOUS
      <4>1. replies[1].k = 1
        BY <2>4, <3>1 DEF Channel
      <4>2. Head(replies) = replies[1] /\ 1 \in 1..Len(replies)
        BY <1>t, <3>1, TailIndices
      <4>3. hdr' = replies[1].h
        BY <2>7, <4>1, <4>2 DEF ReadFirst
      <4> QED BY <2>3, <3>1, <4>2, <4>3 DEF Once
    <3> QED BY <2>1, <2>3, <3>1, <3>2 DEF Once
  <2>8. CASE ReadMore
    <3>1. /\ pc = "more" /\ pc' \in {"more", "judge"}
          /\ requests' = requests /\ execs' = execs /\ hdr'.code = hdr.code
      BY <1>t, <2>8 DEF ReadMore, Headers
    <3> QED BY <2>1, <2>3, <3>1 DEF Once
  <2>9. CASE ReadFails \/ Accept \/ NoAckNack \/ Refused
    <3>1. pc' = "idle" /\ requests' = requests /\ execs' = execs
      BY <2>9 DEF ReadFails, Accept, NoAckNack, Refused, Return
    <3> QED BY <2>3, <3>1 DEF Once
  <2>10. CASE Retry
    <3>1. /\ pc = "judge" /\ pc' = "send" /\ hdr.code \in Retryable
          /\ requests' = requests /\ execs' = execs
      BY <2>10 DEF Retry, SendAgain
    <3>2. n = cur => ~(execs[n] > 0)
      BY <2>2, <2>3, <3>1 DEF Once
    <3>3. n = cur => execs[n] = 0
      BY <1>t, <2>2, <3>2 DEF Calls
    <3> QED BY <2>1, <2>3, <3>1, <3>3 DEF Once
  <2>11. CASE WatchStep
    <3>1. /\ requests # << >> /\ requests' = Tail(requests) /\ pc' = pc
          /\ hdr' = hdr
      BY <2>11 DEF WatchStep, WatchRuns, WatchRefuses, host
    <3>2. /\ Head(requests) = requests[1] /\ 1 \in 1..Len(requests)
          /\ requests[1] \in Requests
          /\ \A j \in 1..Len(requests') : /\ j + 1 \in 1..Len(requests)
                                          /\ requests'[j] = requests[j + 1]
      BY <1>t, <3>1, TailIndices
    <3>3. n = cur /\ pc # "idle" =>
             /\ pc = "read" /\ replies = << >> /\ requests[1].call = n
      BY <1>t, <2>4, <3>1, <3>2 DEF Channel
    <3> DEFINE q == requests[1]
    <3>4. q.call = n => execs[n] = 0 /\ \A j \in 1..Len(requests') :
                                            requests'[j].call # n
      <4> SUFFICES ASSUME q.call = n
                   PROVE  execs[n] = 0 /\ \A j \in 1..Len(requests') :
                                               requests'[j].call # n
        OBVIOUS
      <4>1. execs[n] = 0 /\ \A i \in 1..Len(requests) :
                                requests[i].call = n => i = 1
        BY <2>3, <3>2 DEF Once
      <4>2. \A j \in 1..Len(requests') : j + 1 # 1
        OBVIOUS
      <4> QED BY <3>2, <4>1, <4>2
    <3>5. execs'[n] = execs[n] =>
             \A j \in 1..Len(requests') : requests'[j].call = n =>
                /\ execs'[n] = 0
                /\ \A i \in 1..Len(requests') : requests'[i].call = n => i = j
      <4>1. \A j \in 1..Len(requests') : requests'[j].call = n =>
               execs[n] = 0
        BY <2>3, <3>2 DEF Once
      <4>2. \A i, j \in 1..Len(requests) :
               requests[j].call = n /\ requests[i].call = n => i = j
        BY <2>3 DEF Once
      <4>3. ASSUME NEW i \in 1..Len(requests'), NEW j \in 1..Len(requests'),
                   requests'[j].call = n, requests'[i].call = n
            PROVE  i + 1 = j + 1
        <5>1. /\ i + 1 \in 1..Len(requests) /\ requests'[i] = requests[i + 1]
              /\ j + 1 \in 1..Len(requests) /\ requests'[j] = requests[j + 1]
          BY <3>2
        <5> QED BY <4>2, <4>3, <5>1
      <4> QED BY <4>1, <4>3
    <3>6. CASE WatchRuns
      <4>1. /\ execs' = [execs EXCEPT ![q.call] = @ + 1]
            /\ Answer(q, "ACK", q.cmd, AckReports[q.cmd])
        BY <3>2, <3>6 DEF WatchRuns
      <4>2. CASE q.call # n
        <5>1. execs'[n] = execs[n]
          BY <1>t, <2>2, <4>1, <4>2 DEF Calls
        <5>2. ~(n = cur /\ pc # "idle")
          BY <3>3, <4>2
        <5> QED BY <2>1, <2>3, <3>1, <3>5, <5>1, <5>2 DEF Once
      <4>3. CASE q.call = n
        <5>1. execs'[n] = 1
          BY <1>t, <2>2, <3>4, <4>1, <4>3 DEF Calls
        <5>2. n = cur /\ pc # "idle" =>
                 \A j \in 1..Len(replies') : replies'[j].h.code = issued[n]
          <6> SUFFICES ASSUME n = cur, pc # "idle"
              PROVE \A j \in 1..Len(replies') : replies'[j].h.code = issued[n]
            OBVIOUS
          <6>1. q.cmd = issued[n] /\ AckReports[q.cmd] \in Lengths
            BY <3>2, <4>3 DEF History, Lengths, Requests
          <6>2. "length" \notin Faults /\ "code" \notin Faults
            OBVIOUS
          <6>3. PICK h \in Headers :
                   /\ "code" \notin Faults => h.code = q.cmd
                   /\ \A j \in 1..Len(replies') :
                         replies'[j].k = j /\ replies'[j].h = h
            BY <3>2, <3>3, <4>1, <6>1, <6>2, AnswerContents
          <6> QED BY <6>1, <6>2, <6>3
        <5> QED BY <2>1, <3>1, <3>3, <3>4, <4>3, <5>1, <5>2 DEF Once
      <4> QED BY <4>2, <4>3
    <3>7. CASE WatchRefuses
      <4>1. execs' = execs
        BY <3>7 DEF WatchRefuses
      <4>2. n = cur /\ pc # "idle" => execs[n] = 0
        BY <3>3, <3>4
      <4>3. n = cur /\ pc # "idle" => ~(execs'[n] > 0)
        BY <4>1, <4>2
      <4> QED BY <2>1, <2>3, <3>1, <3>3, <3>5, <4>1, <4>3 DEF Once
    <3> QED BY <2>11, <3>6, <3>7 DEF WatchStep
  <2>12. CASE UNCHANGED vars
    BY <2>3, <2>12 DEF vars, host, Once
  <2> QED
    BY <1>2, <2>5, <2>6, <2>7, <2>8, <2>9, <2>10, <2>11, <2>12
       DEF Next, HostStep
<1> QED
  BY <1>1, <1>2

\* No command is run twice by the retry loop (send_read_tucp_packet): with the
\* length and the code of the replies undamaged, and until a call has returned
\* ERR_USB, the watch runs the command of a call at most once unless its byte
\* is 0, 1 or 4.
THEOREM RunsAtMostOnce ==
  ASSUME {"length", "code"} \cap Faults = {}
  PROVE  Spec => []AtMostOnce
<1> DEFINE IInv == TypeOK /\ History /\ ChannelInv /\ OnceInv
<1>1. Init => IInv
  BY TypeInit DEF Init, History, ChannelInv, Channel, OnceInv
<1>2. IInv /\ [Next]_vars => IInv'
  BY TypeStep, HistoryStep, ChannelStep, OnceStep
<1>3. IInv => AtMostOnce
  BY DEF TypeOK, History, OnceInv, Once, AtMostOnce, Calls
<1> QED
  BY <1>1, <1>2, <1>3, PTL DEF Spec

-----------------------------------------------------------------------------

\* The invariant on watch and pipe, for itself: as long as no call has returned
\* ERR_USB, what is under way belongs to the exchange in progress.
THEOREM ChannelHolds ==
  ASSUME "length" \notin Faults
  PROVE  Spec => []ChannelInv
  BY SuccessIsExecution, PTL

\* One step keeps the invariant on late packets: a call ends without ERR_USB
\* only when the watch holds nothing any more.
LEMMA LateStep ==
  ASSUME TypeOK, History, ChannelInv, LateInv, [Next]_vars
  PROVE  LateInv'
<1>t. /\ requests \in Seq(Requests) /\ cur \in Nat
      /\ result \in [Calls -> Results \cup {"none"}]
      /\ pc # "idle" => cur \in Calls
  BY DEF TypeOK, Calls
<1>r. \A j \in 1..Len(requests) :
         /\ requests[j] \in Requests /\ requests[j].call \in 1..cur
  <2>1. \A j \in 1..Len(requests) : requests[j] \in Requests
    BY <1>t
  <2> QED BY <1>t, <2>1 DEF History, Requests, Calls
<1>n. pc # "idle" => cur \in 1..cur /\ result[cur] = "none"
  BY <1>t DEF History, Calls
\* what is left of the queue's packets was allowed there before
<1>k. ASSUME NEW n \in 1..cur, NEW j \in 1..Len(requests),
             n = requests[j].call, Trusted(n)', result'[n] = result[n]
      PROVE  result'[n] \in {"none", "ERR_USB"}
  <2>1. Trusted(n)
    BY <1>k, TrustOfCalls
  <2> QED BY <1>k, <2>1 DEF LateInv
<1>1. CASE Call \/ SendIdle
  <2>1. requests' = requests /\ result' = result
    BY <1>1 DEF Call, SendIdle, Begin
  <2> QED BY <1>k, <1>r, <2>1 DEF LateInv
<1>2. CASE SendReport
  <2> DEFINE q == [call |-> cur, cmd |-> cmd, whole |-> TRUE]
  <2>1. pc = "send" /\ result' = result
        /\ (requests' = requests \/ requests' = Append(requests, q))
    BY <1>2 DEF SendReport
  <2>2. q \in Requests /\ q.call = cur
    BY <1>t, <2>1 DEF TypeOK, Requests, Calls, cmd
  <2> HIDE DEF q
  <2>3. \A j \in 1..Len(requests') :
           \/ j \in 1..Len(requests) /\ requests'[j] = requests[j]
           \/ requests'[j] = q
    BY <1>t, <2>1, <2>2, AppendIndices
  <2> QED BY <1>k, <1>n, <1>r, <2>1, <2>2, <2>3 DEF LateInv
<1>3. CASE SendFails
  <2> DEFINE q == [call |-> cur, cmd |-> cmd, whole |-> FALSE]
  <2>1. pc = "send" /\ result' = [result EXCEPT ![cur] = "ERR_USB"]
        /\ (requests' = requests \/ requests' = Append(requests, q))
    BY <1>3 DEF SendFails, Return
  <2>2. q \in Requests /\ q.call = cur
    BY <1>t, <2>1 DEF TypeOK, Requests, Calls, cmd
  <2> HIDE DEF q
  <2>3. \A j \in 1..Len(requests') :
           \/ j \in 1..Len(requests) /\ requests'[j] = requests[j]
           \/ requests'[j] = q
    BY <1>t, <2>1, <2>2, AppendIndices
  <2>4. result'[cur] = "ERR_USB" /\ \A n \in 1..cur : n # cur => result'[n] = result[n]
    BY <1>t, <2>1 DEF TypeOK, Calls
  <2> QED BY <1>k, <1>r, <2>2, <2>3, <2>4 DEF LateInv
<1>4. CASE ReadFirst \/ ReadMore \/ Retry
  <2>1. requests' = requests /\ result' = result
    BY <1>4 DEF ReadFirst, ReadMore, Retry, SendAgain
  <2> QED BY <1>k, <1>r, <2>1 DEF LateInv
<1>5. CASE ReadFails
  <2>1. pc # "idle" /\ requests' = requests
        /\ result' = [result EXCEPT ![cur] = "ERR_USB"]
    BY <1>5 DEF ReadFails, Return
  <2>2. result'[cur] = "ERR_USB" /\ \A n \in 1..cur : n # cur => result'[n] = result[n]
    BY <1>t, <2>1 DEF TypeOK, Calls
  <2> QED BY <1>k, <1>r, <2>1, <2>2 DEF LateInv
<1>6. CASE Accept \/ NoAckNack \/ Refused
  <2>1. pc = "judge" /\ requests' = requests /\ cur' = cur
        /\ \E r : result' = [result EXCEPT ![cur] = r]
    BY <1>6 DEF Accept, NoAckNack, Refused, Return
  <2>2. CASE Trusted(cur)
    <3>1. requests = << >>
      BY <2>1, <2>2, TrustInProgress DEF ChannelInv, Channel
    <3> QED BY <2>1, <3>1 DEF LateInv
  <2>3. CASE ~Trusted(cur)
    <3>1. ~Trusted(cur)'
      BY <1>n, <2>1, <2>3, TrustOfCalls
    <3>2. \A n \in 1..cur : n # cur => result'[n] = result[n]
      BY <1>t, <2>1 DEF TypeOK, Calls
    <3>3. \A n \in 1..cur : Trusted(n)' => n # cur
      BY <2>1, <3>1
    <3> QED BY <1>k, <1>r, <2>1, <3>2, <3>3 DEF LateInv
  <2> QED BY <2>2, <2>3
<1>7. CASE WatchStep
  <2>1. requests # << >> /\ requests' = Tail(requests) /\ result' = result
    BY <1>7 DEF WatchStep, WatchRuns, WatchRefuses, host
  <2>2. \A j \in 1..Len(requests') :
           j + 1 \in 1..Len(requests) /\ requests'[j] = requests[j + 1]
    BY <1>t, <2>1, TailIndices
  <2> QED BY <1>k, <1>r, <2>1, <2>2 DEF LateInv
<1>8. CASE UNCHANGED vars
  <2>1. requests' = requests /\ result' = result
    BY <1>8 DEF vars, host
  <2> QED BY <1>k, <1>r, <2>1 DEF LateInv
<1> QED
  BY <1>1, <1>2, <1>3, <1>4, <1>5, <1>6, <1>7, <1>8 DEF Next, HostStep

\* All that the promises of Rpc rest on.
RpcInv ==
    TypeOK /\ History /\ ChannelInv /\ OnceInv /\ LateInv

\* It is inductive.
LEMMA RpcInvHolds ==
  ASSUME {"length", "code"} \cap Faults = {}
  PROVE  Spec => []RpcInv
<1>1. Init => RpcInv
  BY TypeInit DEF RpcInv, Init, History, ChannelInv, Channel, OnceInv, LateInv
<1>2. RpcInv /\ [Next]_vars => RpcInv'
  BY TypeStep, HistoryStep, ChannelStep, OnceStep, LateStep DEF RpcInv
<1> QED
  BY <1>1, <1>2, PTL DEF Spec

\* What waits at the watch or is on its way back (send_tucp_packet,
\* read_tucp_packet) does no harm: a packet waits only while its command has not
\* run, and belongs to the call in progress or to one that ended with ERR_USB;
\* and the host never holds a reply to a command that has run which would make
\* it send the command again.
THEOREM PendingHolds ==
  ASSUME {"length", "code"} \cap Faults = {}
  PROVE  Spec => []PendingInv
<1>1. RpcInv => PendingInv
  BY DEF RpcInv, PendingInv
<1> QED
  BY <1>1, RpcInvHolds, PTL

\* An execution at the watch is one that Rpc allows.
LEMMA RunIsAllowed ==
  ASSUME RpcInv, WatchRuns
  PROVE  \E n \in Promise!Calls : Promise!Run(n)
<1> DEFINE q == Head(requests)
           n == q.call
<1>1. /\ requests # << >> /\ requests \in Seq(Requests)
      /\ execs' = [execs EXCEPT ![n] = @ + 1]
      /\ UNCHANGED host
  BY DEF WatchRuns, RpcInv, TypeOK
<1>2. q = requests[1] /\ 1 \in 1..Len(requests) /\ q \in Requests
  BY <1>1, TailIndices
<1>3. n \in Calls /\ n \in 1..cur
  BY <1>2 DEF RpcInv, History, TypeOK, Requests, Calls
<1>4. ASSUME Trusted(n)
      PROVE  /\ result[n] \in {"none", "ERR_USB"}
             /\ execs[n] = 0 \/ issued[n] \in Retryable
  <2>1. result[n] \in {"none", "ERR_USB"}
    BY <1>2, <1>4 DEF RpcInv, LateInv
  <2>2. issued[n] \notin Retryable => Once(n)
    BY <1>3, <1>4 DEF RpcInv, OnceInv
  <2>3. Once(n) => execs[n] = 0
    BY <1>2 DEF Once
  <2> QED BY <2>1, <2>2, <2>3
<1>5. Promise!Trusted(n) <=> Trusted(n)
  BY DEF Promise!Trusted, Trusted
<1>6. Promise!Run(n)
  BY <1>1, <1>3, <1>4, <1>5 DEF Promise!Run, host
<1> QED
  BY <1>3, <1>6 DEF Promise!Calls, Calls

\* A call returns what Rpc allows it to return.
LEMMA ReplyIsAllowed ==
  ASSUME RpcInv, pc # "idle", NEW r \in Results, Return(r), execs' = execs,
         r = "OK" => pc = "judge" /\ Accepted
  PROVE  Promise!Reply(r)
<1>1. r = "OK" /\ Promise!Trusted(cur) => execs[cur] > 0
  <2> SUFFICES ASSUME r = "OK", Trusted(cur) PROVE execs[cur] > 0
    BY DEF Promise!Trusted, Trusted
  <2>1. Trusted(cur + 1)
    BY TrustInProgress DEF RpcInv
  <2>2. Truthful(hdr)
    BY <2>1 DEF RpcInv, ChannelInv, Channel
  <2> QED BY <2>2 DEF Truthful, Accepted
<1> QED
  BY <1>1 DEF Promise!Reply, Return

\* Every step of the transport is a step of Rpc or changes nothing of it.
LEMMA PromiseStep ==
  ASSUME RpcInv, [Next]_vars
  PROVE  [Promise!Next]_(Promise!vars)
<1>1. CASE Call \/ SendIdle
  <2>1. PICK c \in Commands : Begin(c)
    BY <1>1 DEF Call, SendIdle
  <2>2. Promise!Request
    BY <2>1 DEF Begin, Promise!Request
  <2> QED BY <2>2 DEF Promise!Next
<1>2. CASE SendReport \/ ReadFirst \/ ReadMore \/ Retry
  <2>1. pc # "idle" /\ pc' # "idle" /\ UNCHANGED <<cur, issued, result, execs>>
    BY <1>2 DEF SendReport, ReadFirst, ReadMore, Retry, SendAgain
  <2> QED BY <2>1 DEF Promise!vars
<1>3. CASE SendFails \/ ReadFails
  <2>1. "ERR_USB" \in Results /\ "ERR_USB" # "OK"
    BY DEF Results
  <2>2. pc # "idle" /\ Return("ERR_USB") /\ execs' = execs
    BY <1>3 DEF SendFails, ReadFails
  <2> QED BY <2>1, <2>2, ReplyIsAllowed DEF Promise!Next
<1>4. CASE Accept
  <2>1. "OK" \in Results
    BY DEF Results
  <2>2. pc = "judge" /\ Accepted /\ Return("OK") /\ execs' = execs
    BY <1>4 DEF Accept
  <2> QED BY <2>1, <2>2, ReplyIsAllowed DEF Promise!Next
<1>5. CASE NoAckNack
  <2>1. "ERR_COMM" \in Results /\ "ERR_COMM" # "OK"
    BY DEF Results
  <2>2. pc # "idle" /\ Return("ERR_COMM") /\ execs' = execs
    BY <1>5 DEF NoAckNack
  <2> QED BY <2>1, <2>2, ReplyIsAllowed DEF Promise!Next
<1>6. CASE Refused
  <2>1. ErrorOf(hdr.code) \in Results
    BY ErrorOfIsAResult DEF RpcInv, TypeOK, Headers
  <2>2. ErrorOf(hdr.code) # "OK"
    BY DEF ErrorOf
  <2>3. pc # "idle" /\ Return(ErrorOf(hdr.code)) /\ execs' = execs
    BY <1>6 DEF Refused
  <2> QED BY <2>1, <2>2, <2>3, ReplyIsAllowed DEF Promise!Next
<1>7. CASE WatchRuns
  BY <1>7, RunIsAllowed DEF Promise!Next
<1>8. CASE WatchRefuses
  BY <1>8 DEF WatchRefuses, host, Promise!vars
<1>9. CASE UNCHANGED vars
  BY <1>9 DEF vars, host, Promise!vars
<1> QED
  BY <1>1, <1>2, <1>3, <1>4, <1>5, <1>6, <1>7, <1>8, <1>9
     DEF Next, HostStep, WatchStep

\* The transport keeps the promises of Rpc to the functions of comm.c, for any
\* commands, retries and calls, unless the length or the code of a reply is
\* damaged: every step of send_read_tucp_packet and of the watch is a request,
\* an execution or a reply that Rpc allows, or none of them.
THEOREM RefinesRpc ==
  ASSUME {"length", "code"} \cap Faults = {}
  PROVE  Spec => KeepsPromise
<1>1. Init => Promise!Init
  BY DEF Init, Promise!Init, Calls, Promise!Calls
<1>2. RpcInv /\ [Next]_vars => [Promise!Next]_(Promise!vars)
  BY PromiseStep
<1> QED
  BY <1>1, <1>2, RpcInvHolds, PTL DEF Spec, KeepsPromise, Promise!Spec

=============================================================================
