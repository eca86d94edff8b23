--------------------------------- MODULE Dns ---------------------------------
(***************************************************************************)
(* dns.py: the calls that publish, clear and check the records of one      *)
(* game, over the servers of any number of sessions.  A request without an *)
(* answer may still be carried out later: after its successors, after its  *)
(* call, even after the calls of later jobs.                               *)
(***************************************************************************)
EXTENDS Naturals

CONSTANTS
    Servers,        \* servers of successive sessions
    Ipv6Servers,    \* those that deploy returns an IPv6 address for
    None,           \* no record
    Attempts,       \* _ATTEMPTS
    Faults          \* what may go wrong

ASSUME DnsAssumption ==
    /\ Ipv6Servers \subseteq Servers
    /\ None \notin Servers
    /\ Attempts \in Nat \ {0}
    /\ Faults \subseteq {"refused", "throttled", "error", "no_answer"}

VARIABLES
    zone,       \* the game's A and AAAA records
    late,       \* what requests without an answer may still write
    op,         \* the last call: "check", "write"
    want,       \* the records the last publish or clear is to write
    pc,         \* "idle", or where the call is
    attempt,    \* the attempt of _call
    result,     \* how the last call ended
    overtaken   \* "yes": a late request wrote other records since the last call did

vars == <<zone, late, op, want, pc, attempt, result, overtaken>>

Records == [a : Servers \cup {None}, aaaa : Ipv6Servers \cup {None}]
NoRecords == [a |-> None, aaaa |-> None]

(* The records of a server.  A game without IPv6 support, or a server      *)
(* without a network, gets no AAAA.                                        *)
RecordsOf(s) == [a |-> s, aaaa |-> IF s \in Ipv6Servers THEN s ELSE None]

TypeOK ==
    /\ zone \in Records /\ want \in Records /\ late \in SUBSET Records
    /\ op \in {"check", "write"}
    /\ pc \in {"idle", "send", "sent", "carried_out"}
    /\ attempt \in 0..Attempts
    /\ result \in {"none", "ok", "refused", "failed"}
    /\ overtaken \in {"no", "yes"}

Init ==
    /\ zone = NoRecords /\ want = NoRecords /\ late = {}
    /\ op = "check" /\ pc = "idle" /\ attempt = 0
    /\ result = "none" /\ overtaken = "no"

----------------------------------------------------------------------------
(* The calls.  Jobs of a game run one at a time, under its lock.           *)

Begin ==
    /\ pc = "idle"
    /\ pc' = "send" /\ attempt' = 1 /\ result' = "none"
    /\ UNCHANGED <<zone, late, overtaken>>

Publish(s) == Begin /\ op' = "write" /\ want' = RecordsOf(s)

Clear == Begin /\ op' = "write" /\ want' = NoRecords

Check == Begin /\ op' = "check" /\ UNCHANGED want

(* Mutant: a game without an AAAA of its own leaves that record alone.     *)
WriteChangedOnly(records) ==
    zone' = IF records.aaaa = None THEN [zone EXCEPT !.a = records.a] ELSE records

(* _write: one PUT replaces both records or, with [], deletes them.        *)
WriteBoth(records) == zone' = records

Send ==
    /\ pc = "send"
    /\ pc' = "sent"
    /\ UNCHANGED <<zone, late, op, want, attempt, result, overtaken>>

CarryOut ==
    /\ pc = "sent"
    /\ pc' = "carried_out"
    /\ IF op = "write" THEN WriteBoth(want) /\ overtaken' = "no"
                       ELSE UNCHANGED <<zone, overtaken>>
    /\ UNCHANGED <<late, op, want, attempt, result>>

(* A status below 400.                                                     *)
Succeed ==
    /\ pc = "carried_out"
    /\ pc' = "idle" /\ result' = "ok"
    /\ UNCHANGED <<zone, late, op, want, attempt, overtaken>>

(* Any other 4xx than 429: no further attempt.                             *)
Refuse ==
    /\ "refused" \in Faults
    /\ pc = "sent"
    /\ pc' = "idle" /\ result' = "refused"
    /\ UNCHANGED <<zone, late, op, want, attempt, overtaken>>

(* The next attempt two seconds later, or the last error is raised.        *)
RetryOrRaise ==
    /\ IF attempt < Attempts
         THEN pc' = "send" /\ attempt' = attempt + 1 /\ UNCHANGED result
         ELSE pc' = "idle" /\ result' = "failed" /\ UNCHANGED attempt
    /\ UNCHANGED <<zone, op, want, overtaken>>

(* Mutant: everything below 500 that is not raised is a success.           *)
ThrottleIsSuccess ==
    /\ "throttled" \in Faults
    /\ pc = "sent"
    /\ pc' = "idle" /\ result' = "ok"
    /\ UNCHANGED <<zone, late, op, want, attempt, overtaken>>

(* Mutant: waiting out a 429 is not an attempt.                            *)
ThrottleUncounted ==
    /\ "throttled" \in Faults
    /\ pc = "sent"
    /\ pc' = "send"
    /\ UNCHANGED <<zone, late, op, want, attempt, result, overtaken>>

(* 429: nothing was carried out.                                           *)
Throttle ==
    /\ "throttled" \in Faults
    /\ pc = "sent"
    /\ RetryOrRaise
    /\ UNCHANGED late

(* 5xx: it was carried out or not.                                         *)
ServerError ==
    /\ "error" \in Faults
    /\ pc \in {"sent", "carried_out"}
    /\ RetryOrRaise
    /\ UNCHANGED late

(* A RequestException: lost on the way there, on the way back, or the ten  *)
(* seconds are over and the request is still under way.                    *)
NoAnswer ==
    /\ "no_answer" \in Faults
    /\ pc \in {"sent", "carried_out"}
    /\ RetryOrRaise
    /\ \/ UNCHANGED late
       \/ pc = "sent" /\ op = "write" /\ late' = late \cup {want}

(* Several requests for the same records may be late.                      *)
LateRequest ==
    \E records \in late :
        /\ WriteBoth(records)
        /\ overtaken' = IF records = want THEN "no" ELSE "yes"
        /\ late' \in {late, late \ {records}}
        /\ UNCHANGED <<op, want, pc, attempt, result>>

Step == Send \/ CarryOut \/ Succeed \/ Refuse \/ Throttle \/ ServerError \/ NoAnswer

Next == (\E s \in Servers : Publish(s)) \/ Clear \/ Check \/ Step \/ LateRequest

Spec == Init /\ [][Next]_vars

(* requests.request has a timeout, time.sleep ends; nobody has to call.    *)
FairSpec == Spec /\ WF_vars(Step)
----------------------------------------------------------------------------
(* The A and the AAAA record never belong to different servers, whatever   *)
(* is retried or late: no player is sent to a dead server over IPv6.       *)
SameServer == zone.aaaa \in {zone.a, None}

(* After a publish or clear that raised nothing the records are as wanted: *)
(* attempts of the call itself that come late do no harm, and others only  *)
(* until the next call.                                                    *)
QuietMeansWritten ==
    pc = "idle" /\ op = "write" /\ result = "ok" => zone = want \/ overtaken = "yes"

(* Every call ends: a job that waits for DNS does not keep its lock.       *)
EveryCallEnds == pc # "idle" ~> pc = "idle"

----------------------------------------------------------------------------
(* The inductive invariant                                                 *)

DInv ==
    /\ TypeOK
    /\ \A records \in {zone, want} \cup late : records.aaaa \in {records.a, None}
    /\ pc = "carried_out" /\ op = "write" => zone = want \/ overtaken = "yes"
    /\ QuietMeansWritten
=============================================================================
