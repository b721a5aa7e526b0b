---------------------------- MODULE MCMaturity ----------------------------
(* Maturity over one answer of each kind: grounded, without sources, sourced *)
(* below the bar, and blocked at a boundary and at the bar.                  *)
EXTENDS Maturity

Call(marks, confidence, used_llm, sources) ==
  [marks |-> marks, agent |-> "agent", request |-> "request",
   confidence |-> confidence, used_llm |-> used_llm, sources |-> sources,
   evidence |-> NoPacket]

MCCalls ==
  {Call({}, 100, FALSE, {"key"}), Call({}, 100, FALSE, {}),
   Call({}, 50, FALSE, {"key"}), Call({"secret"}, 100, FALSE, {"key"}),
   Call({}, 50, TRUE, {"key"})}
=============================================================================
