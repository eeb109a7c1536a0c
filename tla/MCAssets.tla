------------------------------ MODULE MCAssets ------------------------------
(* Instances of Assets for TLC. *)
EXTENDS Assets, TLC

CONSTANTS alice, bob, t1, t2, p1, p2

folder(parent) == [owner |-> alice, parent |-> parent, type |-> "folder", title |-> t1]
note(parent) == [owner |-> alice, parent |-> parent, type |-> "note", title |-> t1]

\* A folder in a folder, and a note in a folder.
FolderInFolder == <<folder(NoAsset), folder(1)>>
FolderAndNote == <<folder(NoAsset), note(1)>>

ReadsAndShares == p1 :> {"get"} \X {bob} \X {2} @@ p2 :> {"share", "revoke"} \X {alice} \X {1, 2}
BobOverAlice == {<<bob, alice>>}

\* Slots for the requests that depend on a permission or a parent, and for
\* those that take them away.
Writes == p1 :> {"create", "update"} \X Users \X (0..MaxAssets)
       @@ p2 :> {"delete", "share", "revoke"} \X Users \X (0..MaxAssets)

\* bob reads what alice puts into the inner folder, at any time of her writes to
\* it and to the folder at the top; two deletions of the folder at the top may
\* overlap, and each of the other writes may fall into one.
ReadsAndWrites ==
     p1 :> {<<"get", bob, 3>>, <<"delete", alice, 1>>}
  @@ p2 :> {"delete", "share", "revoke"} \X {alice} \X {1}
             \cup {<<"create", alice, 2>>, <<"update", alice, 3>>}
=============================================================================
