----------------------------- MODULE BdpService -----------------------------
(***************************************************************************)
(* What svsd promises to those who send requests to dispensing points,     *)
(* without lists, threads, time-outs and sequence numbers.  BdpFrames      *)
(* implements it.                                                          *)
(*                                                                         *)
(* Requests are numbered in the order they come. One that is accepted      *)
(* waits until it is the oldest one for its device, is sent, and either    *)
(* ends there, is given up, or is matched with an answer, which reaches    *)
(* the client or nobody. No request is answered twice. Once a sequence     *)
(* number was reissued while it was in use, an answer may be taken for     *)
(* that of another request, and for that of one that was never sent; the   *)
(* order of the requests and the single answer remain.                     *)
(***************************************************************************)
EXTENDS Integers, Sequences

CONSTANT Devices

VARIABLES
    asked,    \* the device of each request so far
    waiting,  \* requests accepted and not sent
    active,   \* requests sent whose answer is awaited
    matched,  \* the request an answer was found for, if it is not yet delivered
    answers,  \* pairs of a request and the one whose answer it was given
    reissued  \* a sequence number was reissued while it was in use

vars == <<asked, waiting, active, matched, answers, reissued>>

Init ==
    /\ asked = <<>>
    /\ waiting = {}
    /\ active = {}
    /\ matched = {}
    /\ answers = {}
    /\ reissued = FALSE

(* A request is accepted, or refused.                                      *)
Ask(d) ==
    /\ asked' = Append(asked, d)
    /\ waiting' \in {waiting, waiting \cup {Len(asked) + 1}}
    /\ UNCHANGED <<active, matched, answers, reissued>>

Oldest(i) ==
    \A j \in waiting \cup active : asked[j] = asked[i] => i <= j

(* A request is sent, and its answer awaited if there is one to expect.    *)
Start(i) ==
    /\ i \in waiting
    /\ Oldest(i)
    /\ waiting' = waiting \ {i}
    /\ active' \in {active, active \cup {i}}
    /\ UNCHANGED <<asked, matched, answers, reissued>>

GiveUp(i) ==
    /\ i \in active
    /\ active' = active \ {i}
    /\ UNCHANGED <<asked, waiting, matched, answers, reissued>>

Match(i) ==
    /\ matched = {}
    /\ i \in active \/ (reissued /\ i \in waiting)
    /\ active' = active \ {i}
    /\ waiting' = waiting \ {i}
    /\ matched' = {i}
    /\ UNCHANGED <<asked, answers, reissued>>

(* Request i gets the answer to request j: its own, and only once.         *)
Answer(i, j) ==
    /\ i \in matched
    /\ i = j \/ reissued
    /\ \A p \in answers : p[1] # i
    /\ answers' = answers \cup {<<i, j>>}
    /\ matched' = {}
    /\ UNCHANGED <<asked, waiting, active, reissued>>

(* The answer is of the wrong kind, or too late, and nobody gets it.       *)
Ignore ==
    /\ matched' = {}
    /\ UNCHANGED <<asked, waiting, active, answers, reissued>>

Reissue ==
    /\ reissued' = TRUE
    /\ UNCHANGED <<asked, waiting, active, matched, answers>>

Next ==
    \/ \E d \in Devices : Ask(d)
    \/ \E i \in waiting : Start(i)
    \/ \E i \in active : GiveUp(i)
    \/ \E i \in waiting \cup active : Match(i)
    \/ \E i \in matched, j \in DOMAIN asked : Answer(i, j)
    \/ Ignore
    \/ Reissue

Spec == Init /\ [][Next]_vars

=============================================================================
