------------------------------ MODULE MCReplay ------------------------------
(***************************************************************************)
(* Model-checking instance of Replay: two plans of different length and    *)
(* one whose snapshots cannot be built.                                    *)
(***************************************************************************)
EXTENDS Replay, TLC

CONSTANTS short, long, broken
Lengths == short :> 2 @@ long :> 3 @@ broken :> 0
=============================================================================
