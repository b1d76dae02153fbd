---------------------------- MODULE MCWireCodec -----------------------------
(* Every field that a surface can declare. *)
EXTENDS WireCodec

MCFields ==
  {f \in Field : /\ f.place # "record" => f.unions
                 /\ f.place = "payload" => f.presence = "required"
                 /\ f.base # "node_id" => f.u64_beside}
=============================================================================
