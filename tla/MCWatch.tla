-------------------------------- MODULE MCWatch --------------------------------
(* Watch on a small instance: two names and two inodes, a queue that holds      *)
(* two or three records, and one mask, which leaves DELETE_SELF out.            *)
EXTENDS Watch

MCNames == <<"a", "b">>
MCNameLen == "a" :> 1 @@ "b" :> 2
MCMasks == {Kinds \ {"DELETE_SELF"}}
=============================================================================
