------------------------------ MODULE MCProfile -------------------------------
(***************************************************************************)
(* What a profile page rests on, for TLC: names (Profile), pictures        *)
(* (Avatar) and the client of the database (PostgresClient).  They share   *)
(* no variable and no property speaks of two of them, so each is explored  *)
(* while the others are where they begin.                                  *)
(*                                                                         *)
(* The symmetry permutes constants of Profile only.  The one liveness      *)
(* property is about PostgresClient, which moves while Profile stands      *)
(* still.                                                                  *)
(***************************************************************************)
EXTENDS Profile, PostgresClient, Avatar, TLC

CONSTANTS short, long

MCPictures == {short, long}
MCLength == (short :> 1) @@ (long :> 2)

AllInit == Init /\ ClientInit /\ AvatarInit

AllNext ==
    \/ ClientInit /\ up /\ AvatarInit /\ Next /\ UNCHANGED <<clientVars, avatarVars>>
    \/ Init /\ AvatarInit /\ ClientNext /\ UNCHANGED <<vars, avatarVars>>
    \/ Init /\ ClientInit /\ up /\ AvatarNext /\ UNCHANGED <<vars, clientVars>>

AllSpec == AllInit /\ [][AllNext]_<<vars, clientVars, avatarVars>> /\ ClientFairness

Symmetry ==
    Permutations(Users) \cup Permutations(Names) \cup Permutations(Tabs)
    \cup Permutations(Requests)
===============================================================================
