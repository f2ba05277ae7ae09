-------------------------- MODULE MCProductUpdate --------------------------
(* One surface, a Desktop or a terminal, and "cinba update".  Core and Sync  *)
(* both running, at work or not; or only one of them there, in some state    *)
(* that is neither this nor plainly at rest.                                 *)
EXTENDS ProductUpdate

MCSurfaces == {"window"}
LocalCore == [mode |-> "on-demand", run |-> "local", unit |-> FALSE]
OwnSync == [mode |-> "background", run |-> "managed", unit |-> TRUE]
Odd(part) == part \notin {LocalCore, OwnSync} /\ (part.run # "no" \/ part.unit)
MCSituations ==
    {NoServices}
    \cup {[NoServices EXCEPT !.core = c] : c \in {c \in CoreStates : Odd(c)}}
    \cup {[NoServices EXCEPT !.sync = s] : s \in {s \in SyncStates : Odd(s)}}
    \cup {[core |-> LocalCore, sync |-> OwnSync, work |-> w] : w \in Work}
=============================================================================
