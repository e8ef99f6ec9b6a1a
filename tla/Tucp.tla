-------------------------------- MODULE Tucp --------------------------------
(***************************************************************************)
(* The TUCP transport of libdlusb (tucp.c, with the packet builders of     *)
(* comm.c): one host that sends a command packet in 8-byte reports, reads  *)
(* the reply and retries, and the watch at the other end of the link.      *)
(*                                                                         *)
(* The host is single threaded, but the watch and the USB pipe are not     *)
(* under its control: a read that timed out leaves its reply to arrive     *)
(* later, in front of the reply to the next command.  A packet is          *)
(* abstracted to the fields send_read_tucp_packet looks at (ACK or NACK,   *)
(* rpacket[2], whether the checksum is right and how many reports the      *)
(* length byte announces) and to the call it answers, which the host does  *)
(* not see.                                                                *)
(***************************************************************************)
EXTENDS Integers, Sequences, FiniteSets

CONSTANTS
    Commands,      \* the command bytes the callers use (COMM_*)
    ReqReports,    \* reports of the command packet, per command
    AckReports,    \* reports of the watch's ACK, per command
    NUM_RETRIES,   \* dlusb.h: attempts per call
    MaxCalls,      \* bound: calls of one program run
    Faults         \* what may go wrong, a subset of FaultKinds

IDLE == 5          \* COMM_IDLE

FaultKinds == {"send",    \* a report cannot be sent
               "late",    \* a reply may arrive after the read gave up
               "cut",     \* the reply, or its last reports, never arrive
               "nack",    \* the watch refuses the packet
               "payload", \* a byte other than the header's is damaged
               "type",    \* rpacket[1] is damaged
               "code",    \* rpacket[2] is damaged
               "length"}  \* rpacket[0] is damaged

Damages == {"payload", "type", "code", "length"}

ASSUME CommandsAssumption == Commands \subseteq 0..255 /\ IDLE \in Commands
ASSUME ReportsAssumption == /\ ReqReports \in [Commands -> Nat \ {0}]
                            /\ AckReports \in [Commands -> Nat \ {0}]
ASSUME RetriesAssumption == NUM_RETRIES \in Nat \ {0}
ASSUME CallsAssumption == MaxCalls \in Nat
ASSUME FaultsAssumption == Faults \subseteq FaultKinds

-----------------------------------------------------------------------------

Calls == 1..MaxCalls

NACKCodes == 0..4                     \* the error types of a NACK packet
Codes == NACKCodes \cup Commands      \* what rpacket[2] can hold
Kinds == {"ACK", "NACK", "other"}     \* what rpacket[1] can hold

\* rpacket[2] is 0x00 (checksum), 0x01 (packet size) or 0x04 (timeout)
Retryable == {0, 1, 4}

Results == {"OK", "ERR_USB", "ERR_COMM", "ERR_COMM_CHECKSUM",
            "ERR_COMM_PACKET_SIZE", "ERR_COMM_DEV_INFO_REQ",
            "ERR_COMM_DEV_MISMATCH", "ERR_COMM_TIMEOUT"}

\* the two switches on rpacket[2] taken together
ErrorOf(code) ==
    CASE code = 0 -> "ERR_COMM_CHECKSUM"
      [] code = 1 -> "ERR_COMM_PACKET_SIZE"
      [] code = 2 -> "ERR_COMM_DEV_INFO_REQ"
      [] code = 3 -> "ERR_COMM_DEV_MISMATCH"
      [] code = 4 -> "ERR_COMM_TIMEOUT"
      [] OTHER    -> "ERR_COMM"

Lengths == {1} \cup {AckReports[c] : c \in Commands}

\* the head of a reply as the host sees it; n is the number of reports that
\* rpacket[0] announces, call the call whose packet the watch answers
Headers == [kind : Kinds, code : Codes, n : Lengths, good : BOOLEAN,
            call : Calls \cup {0}]

NoHeader == [kind |-> "other", code |-> 0, n |-> 1, good |-> FALSE,
             call |-> 0]

\* a report in the IN pipe: the k-th of the reply with head h
Reports == [k : Nat \ {0}, h : Headers]

\* a command packet at the watch; not whole when a report failed to be sent
Requests == [call : Calls, cmd : Commands, whole : BOOLEAN]

VARIABLES
    pc,        \* where send_read_tucp_packet is
    cur,       \* calls made so far; the current one
    try,       \* the loop's i
    sent,      \* reports of the packet sent in this attempt
    hdr,       \* rpacket
    need,      \* reports of the reply still to be read
    rlenOdd,   \* (rlen / 8) & 1
    requests,  \* the watch's packets not yet answered
    replies,   \* the IN pipe
    issued,    \* history: the command of each call
    result,    \* history: what each call returned
    execs      \* history: how often the watch ran the call's command

host == <<pc, cur, try, sent, hdr, need, rlenOdd, issued, result>>
vars == <<host, requests, replies, execs>>

TypeOK ==
    /\ pc \in {"idle", "send", "read", "more", "judge"}
    /\ cur \in 0..MaxCalls
    /\ pc # "idle" => cur > 0
    /\ try \in 0..(NUM_RETRIES - 1)
    /\ sent \in Nat
    /\ hdr \in Headers
    /\ need \in Nat
    /\ pc = "more" => need > 0
    /\ rlenOdd \in BOOLEAN
    /\ requests \in Seq(Requests)
    /\ replies \in Seq(Reports)
    /\ issued \in [Calls -> Commands \cup {-1}]
    /\ \A c \in 1..cur : issued[c] \in Commands
    /\ result \in [Calls -> Results \cup {"none"}]
    /\ execs \in [Calls -> Nat]

Init ==
    /\ pc = "idle" /\ cur = 0 /\ try = 0 /\ sent = 0
    /\ hdr = NoHeader /\ need = 0 /\ rlenOdd = FALSE
    /\ requests = << >> /\ replies = << >>
    /\ issued = [c \in Calls |-> -1]
    /\ result = [c \in Calls |-> "none"]
    /\ execs = [c \in Calls |-> 0]

cmd == issued[cur]

-----------------------------------------------------------------------------
(* The host *)

\* A comm_* function builds its packet in sbuf and enters
\* send_read_tucp_packet.
Begin(c) ==
    /\ pc = "idle"
    /\ cur < MaxCalls
    /\ pc' = "send"
    /\ cur' = cur + 1
    /\ issued' = [issued EXCEPT ![cur + 1] = c]
    /\ UNCHANGED <<try, sent, hdr, need, rlenOdd, result, requests, replies,
                   execs>>

Call == \E c \in Commands \ {IDLE} : Begin(c)

\* comm_idle is called by send_idle alone, and only after an odd number of
\* received reports.
SendIdle == rlenOdd /\ Begin(IDLE)

\* The call returns; its locals end with it.
Return(r) ==
    /\ pc' = "idle"
    /\ result' = [result EXCEPT ![cur] = r]
    /\ try' = 0 /\ sent' = 0 /\ hdr' = NoHeader /\ need' = 0
    /\ UNCHANGED <<cur, issued>>

\* One turn of send_tucp_packet's loop; the last one completes the packet.
SendReport ==
    /\ pc = "send"
    /\ sent' = sent + 1
    /\ \/ /\ sent + 1 < ReqReports[cmd]
          /\ UNCHANGED <<pc, requests>>
       \/ /\ sent + 1 = ReqReports[cmd]
          /\ pc' = "read"
          /\ requests' = Append(requests,
                                [call |-> cur, cmd |-> cmd, whole |-> TRUE])
    /\ UNCHANGED <<cur, try, hdr, need, rlenOdd, issued, result, replies,
                   execs>>

\* send_usb_packet fails; the reports already sent stay with the watch.
SendFails ==
    /\ pc = "send"
    /\ "send" \in Faults
    /\ Return("ERR_USB")
    /\ requests' = IF sent = 0 THEN requests
                   ELSE Append(requests, [call |-> cur, cmd |-> cmd,
                                          whole |-> FALSE])
    /\ UNCHANGED <<rlenOdd, replies, execs>>

\* Mutant of ReadFirst: the other reports of a long reply are left in the pipe.
ReadOnlyFirst ==
    /\ pc = "read"
    /\ replies # << >>
    /\ hdr' = Head(replies).h
    /\ need' = 0
    /\ pc' = "judge"
    /\ replies' = Tail(replies)
    /\ rlenOdd' = ~rlenOdd
    /\ UNCHANGED <<cur, try, sent, issued, result, requests, execs>>

\* The first report of a reply.  A report that is not the first of its reply
\* (its head was read by an earlier call) is taken for one all the same: its
\* bytes are data, so the head it makes is arbitrary, its checksum wrong.
ReadFirst ==
    /\ pc = "read"
    /\ replies # << >>
    /\ \E h \in Headers :
          /\ IF Head(replies).k = 1 THEN h = Head(replies).h
             ELSE ~h.good /\ h.call = Head(replies).h.call
          /\ hdr' = h
          /\ need' = h.n - 1
          /\ pc' = IF h.n = 1 THEN "judge" ELSE "more"
    /\ replies' = Tail(replies)
    /\ rlenOdd' = ~rlenOdd
    /\ UNCHANGED <<cur, try, sent, issued, result, requests, execs>>

\* One more report of the reply; a foreign one spoils the checksum.
ReadMore ==
    /\ pc = "more"
    /\ replies # << >>
    /\ LET r == Head(replies) IN
          hdr' = [hdr EXCEPT !.good = @ /\ r.h.call = hdr.call
                                        /\ r.k = hdr.n - need + 1]
    /\ need' = need - 1
    /\ pc' = IF need = 1 THEN "judge" ELSE "more"
    /\ replies' = Tail(replies)
    /\ rlenOdd' = ~rlenOdd
    /\ UNCHANGED <<cur, try, sent, issued, result, requests, execs>>

\* Mutant of ReadFails: a reply that does not come is taken for a bad one.
ReadFailsAsComm ==
    /\ pc \in {"read", "more"}
    /\ "late" \in Faults \/ (requests = << >> /\ replies = << >>)
    /\ Return("ERR_COMM")
    /\ UNCHANGED <<rlenOdd, requests, replies, execs>>

\* read_usb_packet gives up after USB_TIMEOUT.
ReadFails ==
    /\ pc \in {"read", "more"}
    /\ "late" \in Faults \/ (requests = << >> /\ replies = << >>)
    /\ Return("ERR_USB")
    /\ UNCHANGED <<rlenOdd, requests, replies, execs>>

\* Mutants of Accepted: the checksum, or the packet's kind, is not looked at.
AcceptedUnchecked == hdr.kind = "ACK" /\ hdr.code = cmd
AcceptedAnyKind == hdr.code = cmd /\ hdr.good

\* "is it an ACK? is it a response to the command we sent out?"
Accepted == hdr.kind = "ACK" /\ hdr.code = cmd /\ hdr.good

Accept ==
    /\ pc = "judge"
    /\ Accepted
    /\ Return("OK")
    /\ UNCHANGED <<rlenOdd, requests, replies, execs>>

\* rpacket[1] is neither COMM_ACK nor COMM_NACK
NoAckNack ==
    /\ pc = "judge"
    /\ hdr.kind = "other"
    /\ Return("ERR_COMM")
    /\ UNCHANGED <<rlenOdd, requests, replies, execs>>

\* Everything else is read as an error report of the watch.
Interpreted == hdr.kind \in {"ACK", "NACK"} /\ ~Accepted

SendAgain(n) ==
    /\ pc' = "send"
    /\ try' = n
    /\ sent' = 0 /\ hdr' = NoHeader /\ need' = 0
    /\ UNCHANGED <<cur, rlenOdd, issued, result, requests, replies, execs>>

\* Mutants of Retry: every error is retried; the attempts are not counted; one
\* attempt too many.
RetryAnyError ==
    pc = "judge" /\ Interpreted /\ try < NUM_RETRIES - 1 /\ SendAgain(try + 1)
RetryUncounted ==
    pc = "judge" /\ Interpreted /\ hdr.code \in Retryable /\ SendAgain(try)
RetryOnceMore ==
    pc = "judge" /\ Interpreted /\ hdr.code \in Retryable
        /\ try < NUM_RETRIES /\ SendAgain(try + 1)

Retry ==
    /\ pc = "judge"
    /\ Interpreted
    /\ hdr.code \in Retryable
    /\ try < NUM_RETRIES - 1
    /\ SendAgain(try + 1)

Refused ==
    /\ pc = "judge"
    /\ Interpreted
    /\ hdr.code \in Retryable => try = NUM_RETRIES - 1
    /\ Return(ErrorOf(hdr.code))
    /\ UNCHANGED <<rlenOdd, requests, replies, execs>>

HostStep ==
    \/ SendReport \/ SendFails
    \/ ReadFirst \/ ReadMore \/ ReadFails
    \/ Accept \/ NoAckNack \/ Retry \/ Refused

-----------------------------------------------------------------------------
(* The watch and the link *)

\* what becomes on the way of the head of the watch's reply to call c
Arrives(c, kind, code, n) ==
    {h \in Headers :
        /\ h.call = c
        /\ \/ h = [kind |-> kind, code |-> code, n |-> n, good |-> TRUE,
                   call |-> c]
           \/ /\ ~h.good
              /\ Faults \cap Damages # {}
              /\ h.kind # kind => "type" \in Faults
              /\ h.code # code => "code" \in Faults
              /\ h.n # n => "length" \in Faults}

\* how many of a reply's n reports get through
Delivered(n) == IF "cut" \in Faults THEN 0..n ELSE {n}

Answer(q, kind, code, n) ==
    \E h \in Arrives(q.call, kind, code, n), m \in Delivered(n) :
        replies' = replies \o [k \in 1..m |-> [k |-> k, h |-> h]]

WatchRuns ==
    /\ requests # << >>
    /\ LET q == Head(requests) IN
          /\ q.whole
          /\ execs' = [execs EXCEPT ![q.call] = @ + 1]
          /\ Answer(q, "ACK", q.cmd, AckReports[q.cmd])
    /\ requests' = Tail(requests)
    /\ UNCHANGED host

\* An incomplete packet can only be refused.
WatchRefuses ==
    /\ requests # << >>
    /\ LET q == Head(requests) IN
          /\ "nack" \in Faults \/ ~q.whole
          /\ \E code \in NACKCodes : Answer(q, "NACK", code, 1)
    /\ requests' = Tail(requests)
    /\ UNCHANGED <<host, execs>>

WatchStep == WatchRuns \/ WatchRefuses

-----------------------------------------------------------------------------

Next == Call \/ SendIdle \/ HostStep \/ WatchStep

Spec == Init /\ [][Next]_vars

\* The program runs on whenever it can: nothing is assumed of the watch, and
\* the caller need not make another call.
FairSpec == Spec /\ WF_vars(HostStep)

-----------------------------------------------------------------------------
(* Properties *)

\* No earlier call has failed on the USB level.
Trusted(n) == \A m \in 1..(n - 1) : result[m] # "ERR_USB"

\* A call that returns 0 was run by the watch, as long as no earlier call of
\* the program has returned ERR_USB (send_read_tucp_packet, its break).
SuccessMeansExecuted ==
    \A n \in Calls : result[n] = "OK" /\ Trusted(n) => execs[n] > 0

\* The retry loop runs no command twice, as long as no earlier call has
\* returned ERR_USB, except the commands whose own byte reads as a retryable
\* error: a damaged ACK of one of these (COMM_DEV_INFO_REQ and COMM_BEEP,
\* both harmless) is taken for a NACK that asks for another attempt.
AtMostOnce ==
    \A n \in Calls :
        issued[n] \notin Retryable /\ Trusted(n) => execs[n] <= 1

\* Whenever the program is about to send, nothing of an old exchange is left
\* at the watch or in the pipe, as long as no call has returned ERR_USB: the
\* next reply read is the one to the packet being sent.
InStep ==
    pc \in {"idle", "send"} /\ Trusted(cur + 1)
        => requests = << >> /\ replies = << >>

\* A packet accepted as the ACK of this call answers this call ("is it a
\* response to the command we sent out?", tucp.c:73).
AckAnswersCommand == pc = "judge" /\ Accepted => hdr.call = cur

\* What is interpreted as an error report is a NACK packet in good order
\* ("see if we got a good NACK packet", tucp.c:78).
GoodNack == pc = "judge" /\ Interpreted => hdr.kind = "NACK" /\ hdr.good

\* What SuccessMeansExecuted and AtMostOnce rest on: as long as no call has
\* failed on the USB level, watch and pipe hold at most one packet or what is
\* left of one reply, all of it of the call in progress, never more reports
\* than the host is going to read, and a sound ACK was preceded by its
\* execution.
History ==
    /\ \A n \in Calls : n > cur => result[n] = "none" /\ execs[n] = 0
    /\ pc # "idle" => result[cur] = "none"
    /\ \A j \in 1..Len(requests) :
          /\ requests[j].call <= cur
          /\ requests[j].cmd = issued[requests[j].call]

Truthful(h) == h.kind = "ACK" /\ h.good => execs[cur] > 0

Channel ==
    /\ pc \in {"idle", "send"} => requests = << >> /\ replies = << >>
    /\ pc = "read" =>
          /\ Len(requests) <= 1
          /\ replies # << >> => /\ requests = << >>
                                /\ replies[1].k = 1
                                /\ Len(replies) <= replies[1].h.n
    /\ pc \in {"more", "judge"} => /\ requests = << >>
                                   /\ Len(replies) <= need
                                   /\ Truthful(hdr)
    /\ pc = "judge" => need = 0
    /\ \A j \in 1..Len(requests) : requests[j].call = cur
    /\ \A j \in 1..Len(replies) : Truthful(replies[j].h)

\* Host, watch and pipe agree on the exchange in progress, as long as no call
\* has returned ERR_USB (Channel above).
ChannelInv == Trusted(cur + 1) => Channel

\* The strengthening of AtMostOnce: a packet of call n waits at the watch
\* only while the command has not run, and what the host holds of a reply to
\* a command that has run shows the command's own byte.
Once(n) ==
    /\ execs[n] <= 1
    /\ \A j \in 1..Len(requests) :
          requests[j].call = n =>
             /\ execs[n] = 0
             /\ \A i \in 1..Len(requests) : requests[i].call = n => i = j
    /\ n = cur /\ pc = "send" => execs[n] = 0
    /\ n = cur /\ pc = "read" /\ execs[n] > 0 =>
          \A j \in 1..Len(replies) : replies[j].h.code = issued[n]
    /\ n = cur /\ pc \in {"more", "judge"} /\ execs[n] > 0 =>
          hdr.code = issued[n]

\* Once holds of every call made before the first ERR_USB whose command is not
\* mistaken for a retryable error.
OnceInv ==
    \A n \in 1..cur : Trusted(n) /\ issued[n] \notin Retryable => Once(n)

\* A packet the watch has not answered yet is of a call that is in progress or
\* has failed on the USB level: no call that knows its outcome leaves one.
LateInv ==
    \A j \in 1..Len(requests) :
       LET n == requests[j].call IN
       Trusted(n) => result[n] \in {"none", "ERR_USB"}

\* What waits at the watch, or is on its way back, runs no command a second
\* time and none that has failed for good: why the transport implements Rpc.
PendingInv == OnceInv /\ LateInv

\* The transport keeps the promises of Rpc to the functions of comm.c.
Promise == INSTANCE Rpc WITH busy <- pc # "idle", Repeatable <- Retryable
KeepsPromise == Promise!Spec

\* Every call returns, whatever the watch does.
CallsReturn == pc # "idle" ~> pc = "idle"

=============================================================================
