--------------------------- MODULE MCDataChannels ---------------------------
(***************************************************************************)
(* Two labels in one shard and one in another.                             *)
(***************************************************************************)
EXTENDS DataChannels, TLC

CONSTANTS chat, file, log, s1, s2, left, right, opener, callback

OneShardShared == (chat :> left) @@ (file :> left) @@ (log :> right)
=============================================================================
