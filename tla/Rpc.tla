--------------------------------- MODULE Rpc ---------------------------------
(***************************************************************************)
(* What the functions of comm.c rely on when they call                     *)
(* send_read_tucp_packet: a call either returns "OK", and then the watch   *)
(* has run its command, or it returns an error, and then nothing is known. *)
(* A command the watch would mind running twice is run at most once.       *)
(*                                                                         *)
(* Both promises end with the first call that returns ERR_USB: what the    *)
(* watch sends after a read gave up is read as the answer to a later call. *)
(***************************************************************************)
EXTENDS Integers

CONSTANTS Commands,   \* the command bytes
          Repeatable, \* those that one call may run more than once
          Results,    \* the return values, "OK" and "ERR_USB" among them
          MaxCalls    \* bound: calls of one program run

VARIABLES busy,    \* a call is in progress
          cur,     \* calls made so far; the current one
          issued,  \* the command of each call
          result,  \* what each call returned
          execs    \* how often the watch ran the call's command

vars == <<busy, cur, issued, result, execs>>

Calls == 1..MaxCalls

\* no call before n has returned ERR_USB
Trusted(n) == \A m \in 1..(n - 1) : result[m] # "ERR_USB"

Init ==
    /\ busy = FALSE /\ cur = 0
    /\ issued = [c \in Calls |-> -1]
    /\ result = [c \in Calls |-> "none"]
    /\ execs = [c \in Calls |-> 0]

Request ==
    /\ ~busy
    /\ cur < MaxCalls
    /\ busy' = TRUE
    /\ cur' = cur + 1
    /\ \E c \in Commands : issued' = [issued EXCEPT ![cur + 1] = c]
    /\ UNCHANGED <<result, execs>>

\* The watch runs a command while its call lasts, or later when the call
\* has failed; late ones can only be left behind by ERR_USB.
Run(n) ==
    /\ n \in 1..cur
    /\ Trusted(n) => /\ result[n] \in {"none", "ERR_USB"}
                     /\ execs[n] = 0 \/ issued[n] \in Repeatable
    /\ execs' = [execs EXCEPT ![n] = @ + 1]
    /\ UNCHANGED <<busy, cur, issued, result>>

Reply(r) ==
    /\ busy
    /\ r = "OK" /\ Trusted(cur) => execs[cur] > 0
    /\ busy' = FALSE
    /\ result' = [result EXCEPT ![cur] = r]
    /\ UNCHANGED <<cur, issued, execs>>

Next ==
    \/ Request
    \/ \E n \in Calls : Run(n)
    \/ \E r \in Results : Reply(r)

Spec == Init /\ [][Next]_vars

=============================================================================
