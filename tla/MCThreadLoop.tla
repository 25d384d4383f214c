---------------------------- MODULE MCThreadLoop ----------------------------
(* Small instances of ThreadLoop for TLC. *)
EXTENDS ThreadLoop

CONSTANTS c1, c2

MCCallers == {c1, c2}
MCOps == c1 :> {"post", "invoke"} @@ c2 :> {"invoke", "exit"}
MCOneCaller == {c1}
MCAllOps == c1 :> {"post", "invoke", "exit"}
=============================================================================
