----------------------------- MODULE MCGrounding -----------------------------
(* One knowledge key and a claim whose id names what the key is about. *)
EXTENDS Grounding

Known == {"identity", "token", "scope", "expiry", "evidence"}

MCKnowledge == [k \in {"identity_reference"} |-> Known]

MCPackets ==
  [request : SUBSET Terms, route : {{Agent}}, status : Statuses,
   claims : {{"identity", "token"}}]
=============================================================================
