--------------------------- MODULE MCTokenProvider ---------------------------
(* The bridge on a small instance: the unit of time is a minute, and an hour *)
(* of lifetime is shortened to the least that outlives an exchange.          *)
EXTENDS TokenProvider

ShortestLifetime == {MaxMint + MaxPost + 1}
=============================================================================
