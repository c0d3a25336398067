------------------------------ MODULE MCStore ------------------------------
(* Instances of Store for TLC. *)
EXTENDS Store, TLC

CONSTANTS b1, j1, j2, u1, u2

\* Two snapshots that share their blob.
Shared == (j1 :> {b1}) @@ (j2 :> {b1})

\* Each kind of fault with the operations whose sections it cuts.
AllMixes == {{"race", "fail", "delete"}, {"torn", "fail", "delete"}, {"fail", "pin"}, {"crash", "pin"},
             {"crash", "delete"}, {"crash", "age"}, {"age", "pin"}, {"loss", "delete"}, {"loss", "rejournal"}}
=============================================================================
