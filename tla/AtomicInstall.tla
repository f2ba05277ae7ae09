---------------------------- MODULE AtomicInstall ----------------------------
(***************************************************************************)
(* What an installation promises its user: the installed release, the      *)
(* files it runs from and the data it works on change together, and only   *)
(* to a whole release that can read the data; an attempt that does not get *)
(* there changes nothing.  The promise ends when an attempt reports that   *)
(* its rollback failed.  InstallTransaction implements it.                 *)
(***************************************************************************)
EXTENDS Naturals

CONSTANTS Releases, Format, None, Torn

VARIABLES
  system,   \* release selected, state of its directory, release whose format the data have
  wrecked   \* a rollback was given up

Systems ==
  [release : Releases \cup {None},
   content : {"absent", "torn", "damaged", "whole"},
   data : Releases \cup {None, Torn}]

Whole(r, d) == [release |-> r, content |-> "whole", data |-> d]

Init ==
  /\ wrecked = FALSE
  /\ \/ system = [release |-> None, content |-> "absent", data |-> None]
     \/ \E r \in Releases, c \in {"damaged", "whole"} :
          system \in [release : {r}, content : {c}, data : {None, r}]

\* A release of an older data format never follows; a newer one takes the data along.
Install(r) ==
  LET was == system.release IN
  /\ was # None => Format[was] <= Format[r]
  /\ \/ /\ was # None => Format[was] = Format[r]
        /\ system' = Whole(r, system.data)
     \/ /\ was # None /\ Format[was] < Format[r]
        /\ system' = Whole(r, IF system.data = None THEN None ELSE r)

\* The installed release creates its data.
Use ==
  /\ system.release # None /\ system.data = None
  /\ system' = [system EXCEPT !.data = system.release]

Next ==
  \/ ~wrecked /\ UNCHANGED wrecked /\ (Use \/ \E r \in Releases : Install(r))
  \/ wrecked' = TRUE /\ system' \in Systems

Spec == Init /\ [][Next]_<<system, wrecked>>
=============================================================================
