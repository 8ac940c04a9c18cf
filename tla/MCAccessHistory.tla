-------------------------- MODULE MCAccessHistory --------------------------
(***************************************************************************)
(* Small instances of AccessHistory: two applications, of one account or   *)
(* of two.                                                                 *)
(***************************************************************************)
EXTENDS AccessHistory, TLC

CONSTANTS app1, app2, bundle1, bundle2, nobody, d1

MCUid == {app1, app2}
MCBundleOf == app1 :> bundle1 @@ app2 :> bundle2

OneUserId == {100}
OneUserOf == app1 :> 100 @@ app2 :> 100

TwoUserIds == {100, 101}
TwoUserOf == app1 :> 100 @@ app2 :> 101

Threads == Permutations(Thread)

=============================================================================
