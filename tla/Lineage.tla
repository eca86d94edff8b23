------------------------------ MODULE Lineage ------------------------------
(***************************************************************************)
(* What the players of Windrose are promised over all the sessions of      *)
(* their game: one lineage of worlds.  A session resumes from what is      *)
(* saved, plays the world that is named there, and saves everything back   *)
(* under that name; only a first session begins a world.  It may end at    *)
(* any time, and is then as far as it was saved.                           *)
(*                                                                         *)
(* After a restore that failed, or a boot without its volume, nobody       *)
(* vouches any more for which world it is: the lineage is not sound.       *)
(***************************************************************************)
CONSTANTS Worlds, None

VARIABLES
    session,    \* "none", "whole": resumed from all that was saved, or "partial"
    here,       \* the worlds of this session
    played,     \* the world its players are in
    saved,      \* the worlds that are saved
    named,      \* which of them is to be played
    sound       \* no restore and no boot has gone wrong so far

lineageVars == <<session, here, played, saved, named, sound>>

Init ==
    /\ session = "none" /\ here = {} /\ played = None
    /\ saved = {} /\ named = None
    /\ sound = TRUE

Resume ==
    /\ session = "none"
    /\ session' = "whole"
    /\ here' = saved
    /\ UNCHANGED <<played, saved, named, sound>>

ResumePartly ==
    /\ session = "none"
    /\ session' = "partial"
    /\ here' \subseteq saved
    /\ sound' = FALSE
    /\ UNCHANGED <<played, saved, named>>

(* The boot goes on without the volume.                                    *)
Mishap ==
    /\ session = "none"
    /\ sound' = FALSE
    /\ UNCHANGED <<session, here, played, saved, named>>

(* A new world, where none is to be played yet.                            *)
Begin(w) ==
    /\ session # "none" /\ played = None
    /\ w \notin here /\ w \notin saved
    /\ sound => named = None
    /\ here' = here \cup {w}
    /\ UNCHANGED <<session, played, saved, named, sound>>

Play(w) ==
    /\ session # "none" /\ played = None
    /\ sound => named \in {w, None}
    /\ played' = w
    /\ here' = here \cup {w}
    /\ UNCHANGED <<session, saved, named, sound>>

(* No world gets lost, and the one that was played keeps its name.         *)
Save ==
    /\ session # "none"
    /\ session = "whole" => saved \subseteq here
    /\ saved' = here
    /\ named' \in Worlds \cup {None}
    /\ played # None => named' = played
    /\ sound /\ named # None => named' = named
    /\ UNCHANGED <<session, here, played, sound>>

End ==
    /\ session # "none"
    /\ session' = "none" /\ here' = {} /\ played' = None
    /\ UNCHANGED <<saved, named, sound>>

Next ==
    \/ Resume \/ ResumePartly \/ Mishap
    \/ \E w \in Worlds : Begin(w) \/ Play(w)
    \/ Save \/ End

Spec == Init /\ [][Next]_lineageVars

(* As long as the lineage is sound, all sessions play one world: from the  *)
(* first snapshot that names one, the world that is played is the saved    *)
(* one, and the one that is saved is the one that was played.              *)
OneWorld == sound /\ played # None /\ named # None => played = named
============================================================================
