------------------------ MODULE MCPasteboardService ------------------------
(***************************************************************************)
(* Small instances of PasteboardService: two OS accounts with one          *)
(* application each, and an application without an account.                *)
(***************************************************************************)
EXTENDS PasteboardService, TLC

CONSTANTS app1, app2, orphan, user1, user2, nobody

MCUid == {app1, app2, orphan}
MCUserId == {user1, user2}
MCUserOf == app1 :> user1 @@ app2 :> user2 @@ orphan :> nobody

\* One account with one application, whose observer may be reentrant.
OneUid == {app1}
OneUserId == {user1}
OneUserOf == app1 :> user1

\* Nothing tells threads, data or observers apart.
Symmetry == Permutations(Thread) \cup Permutations(Data) \cup Permutations(Observer)

=============================================================================
