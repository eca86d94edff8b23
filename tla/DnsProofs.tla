------------------------------ MODULE DnsProofs ------------------------------
(* Proofs of the safety properties of module Dns.                          *)
EXTENDS Dns, TLAPS

(* What publish and clear ask for has the addresses of one server.         *)
LEMMA WantedRecords ==
    /\ NoRecords \in Records /\ NoRecords.aaaa \in {NoRecords.a, None}
    /\ \A s \in Servers :
          RecordsOf(s) \in Records /\ RecordsOf(s).aaaa \in {RecordsOf(s).a, None}
BY DnsAssumption DEF NoRecords, RecordsOf, Records

LEMMA CallsPreserve ==
    DInv /\ ((\E s \in Servers : Publish(s)) \/ Clear \/ Check) => DInv'
BY DnsAssumption, WantedRecords DEF DInv, TypeOK, QuietMeansWritten, Publish, Clear, Check, Begin

(* An attempt writes what its call wants, and an answer comes after that.  *)
LEMMA StepPreserves == DInv /\ Step => DInv'
<1> SUFFICES ASSUME DInv, Step PROVE DInv'
  OBVIOUS
<1> USE DnsAssumption DEF DInv, TypeOK, QuietMeansWritten
<1>1. CASE Send
  BY <1>1 DEF Send
<1>2. CASE CarryOut
  BY <1>2 DEF CarryOut, WriteBoth
<1>3. CASE Succeed
  BY <1>3 DEF Succeed
<1>4. CASE Refuse
  BY <1>4 DEF Refuse
<1>5. CASE Throttle
  BY <1>5 DEF Throttle, RetryOrRaise
<1>6. CASE ServerError
  BY <1>6 DEF ServerError, RetryOrRaise
<1>7. CASE NoAnswer
  BY <1>7 DEF NoAnswer, RetryOrRaise
<1> QED
  BY <1>1, <1>2, <1>3, <1>4, <1>5, <1>6, <1>7 DEF Step

LEMMA LatePreserves == DInv /\ LateRequest => DInv'
BY DnsAssumption DEF DInv, TypeOK, QuietMeansWritten, LateRequest, WriteBoth

(* The invariant of the DNS client and its zone holds.                     *)
THEOREM DInvInductive == Spec => []DInv
<1>1. Init => DInv
  BY DnsAssumption, WantedRecords DEF Init, DInv, TypeOK, QuietMeansWritten
<1>2. DInv /\ [Next]_vars => DInv'
  <2>1. ASSUME DInv, UNCHANGED vars PROVE DInv'
    BY <2>1 DEF DInv, TypeOK, QuietMeansWritten, vars
  <2> QED
    BY <2>1, CallsPreserve, StepPreserves, LatePreserves DEF Next
<1> QED
  BY <1>1, <1>2, PTL DEF Spec

(* The A and the AAAA record always belong to one server.                  *)
THEOREM AlwaysSameServer == Spec => []SameServer
<1>1. DInv => SameServer
  BY DEF DInv, SameServer
<1> QED
  BY <1>1, DInvInductive, PTL

(* A call that raised nothing has written its records, and only a late     *)
(* request can have replaced them.                                         *)
THEOREM QuietCallsWrite == Spec => []QuietMeansWritten
<1>1. DInv => QuietMeansWritten
  BY DEF DInv
<1> QED
  BY <1>1, DInvInductive, PTL
----------------------------------------------------------------------------
(* Every call comes to an end                                              *)

(* The steps a call has still to take, at most: three of this attempt and  *)
(* of every one that is left.                                              *)
AttemptLeft ==
    CASE pc = "send" -> 3 [] pc = "sent" -> 2 [] pc = "carried_out" -> 1 [] OTHER -> 0

CallLeft == AttemptLeft + 3 * (Attempts - attempt)

(* No answer, and no order of answers, makes _call go on for ever: it has  *)
(* at most 3 * Attempts steps in all.                                      *)
CallsGoForward == [][Step => CallLeft' < CallLeft]_vars

(* What a step within an attempt lowers is all that it changes.           *)
LEMMA LessIsLeft ==
    ASSUME NEW a \in Nat, NEW b \in Nat, b < a, NEW n \in Nat
    PROVE  b + 3 * (Attempts - n) < a + 3 * (Attempts - n)
BY DnsAssumption

LEMMA RetriesGoForward ==
    ASSUME DInv, pc \in {"sent", "carried_out"}, RetryOrRaise
    PROVE  CallLeft' < CallLeft
<1>1. attempt \in Nat /\ AttemptLeft \in 1..2
  BY DnsAssumption DEF DInv, TypeOK, AttemptLeft
<1>2. CASE attempt < Attempts
  <2>1. AttemptLeft' = 3 /\ attempt' = attempt + 1 BY <1>2 DEF RetryOrRaise, AttemptLeft
  <2>2. QED BY <1>1, <2>1, DnsAssumption DEF CallLeft
<1>3. CASE ~(attempt < Attempts)
  <2>1. AttemptLeft' = 0 /\ attempt' = attempt BY <1>3 DEF RetryOrRaise, AttemptLeft
  <2>2. QED BY <1>1, <2>1, DnsAssumption DEF CallLeft
<1>4. QED BY <1>2, <1>3

(* A throttled or lost attempt is counted, whether or not it wrote.  That  *)
(* is why EveryCallEnds holds once requests end.                           *)
THEOREM CallsAlwaysGoForward == Spec => CallsGoForward
<1>1. DInv /\ [Next]_vars => [Step => CallLeft' < CallLeft]_vars
  <2> SUFFICES ASSUME DInv, Step PROVE CallLeft' < CallLeft
    OBVIOUS
  <2>1. attempt \in Nat BY DnsAssumption DEF DInv, TypeOK
  <2>2. CASE Send \/ CarryOut \/ Succeed \/ Refuse
    <3>1. \/ pc = "send" /\ pc' = "sent"
          \/ pc = "sent" /\ pc' \in {"carried_out", "idle"}
          \/ pc = "carried_out" /\ pc' = "idle"
      BY <2>2 DEF Send, CarryOut, Succeed, Refuse
    <3>2. AttemptLeft \in Nat /\ AttemptLeft' \in Nat /\ AttemptLeft' < AttemptLeft
      BY <3>1 DEF AttemptLeft
    <3>3. attempt' = attempt BY <2>2 DEF Send, CarryOut, Succeed, Refuse
    <3>4. QED BY <2>1, <3>2, <3>3, LessIsLeft DEF CallLeft
  <2>3. CASE Throttle \/ ServerError \/ NoAnswer
    BY <2>3, RetriesGoForward DEF Throttle, ServerError, NoAnswer
  <2>4. QED BY <2>2, <2>3 DEF Step
<1>2. QED BY <1>1, DInvInductive, PTL DEF Spec, CallsGoForward
=============================================================================
