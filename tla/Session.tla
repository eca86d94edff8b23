------------------------------ MODULE Session ------------------------------
(***************************************************************************)
(* What the bot promises the players of a game: a session's world is never *)
(* thrown away.  A session is launched on trial, while the start job that  *)
(* created the server may still take it back, and is then confirmed; a     *)
(* confirmed session ends only once every copy of the world is up to date. *)
(***************************************************************************)
CONSTANTS Games, Copies

VARIABLES
    session,    \* "none", on "trial" or "live"
    unsaved     \* the copies that lack the session's latest world

sessionVars == <<session, unsaved>>

Init ==
    /\ session = [g \in Games |-> "none"]
    /\ unsaved = [g \in Games |-> {}]

Launch(g, on) ==
    /\ session[g] = "none"
    /\ session' = [session EXCEPT ![g] = on]
    /\ UNCHANGED unsaved

Confirm(g) ==
    /\ session[g] = "trial"
    /\ session' = [session EXCEPT ![g] = "live"]
    /\ UNCHANGED unsaved

TakeBack(g) ==
    /\ session[g] = "trial"
    /\ session' = [session EXCEPT ![g] = "none"]
    /\ unsaved' = [unsaved EXCEPT ![g] = {}]

Play(g) ==
    /\ session[g] # "none"
    /\ unsaved' = [unsaved EXCEPT ![g] = Copies]
    /\ UNCHANGED session

Save(g, copy) ==
    /\ session[g] = "live"
    /\ unsaved' = [unsaved EXCEPT ![g] = @ \ {copy}]
    /\ UNCHANGED session

Retire(g) ==
    /\ session[g] = "live" /\ unsaved[g] = {}
    /\ session' = [session EXCEPT ![g] = "none"]
    /\ UNCHANGED unsaved

Next ==
    \E g \in Games :
        \/ \E on \in {"trial", "live"} : Launch(g, on)
        \/ Confirm(g) \/ TakeBack(g) \/ Play(g) \/ Retire(g)
        \/ \E copy \in Copies : Save(g, copy)

Spec == Init /\ [][Next]_sessionVars
============================================================================
