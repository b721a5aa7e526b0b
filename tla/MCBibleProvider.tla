---------------------------- MODULE MCBibleProvider ----------------------------
(* Small ledgers and requests for BibleProvider.tla.                           *)
EXTENDS BibleProvider

SmallWords == {"quota", "limit", "rollback"}

Claim(n, ws) == [kind |-> "claim", id |-> n, words |-> ws]
Class(c) == [kind |-> "class", class |-> c]
Cite(p) == [kind |-> "cite", path |-> p]
Other == [kind |-> "other"]

\* Two claims share the request's words, the second of them more of these; the
\* third continues the id of the first.
Sound ==
  <<Claim(1, {"quota"}), Cite("a"),
    Claim(2, {"quota", "limit"}), Class("POINT-IN-TIME"), Cite("b"), Cite("a"),
    Claim(3, {"rollback"}), Class("INVARIANT"), Cite("b")>>

\* The second claim is superseded, and comes before the first for some requests
\* and after it for others; the first ends in a line that is no
\* heading, and what follows that line is taken for its own.
Revised ==
  <<Claim(1, {"quota", "rollback"}), Class("CONTESTED"),
    Cite("a"), Cite("b"), Cite("a"), Other, Class("INVARIANT"),
    Claim(2, SmallWords), Class("INVARIANT"), Cite("b"), Class("SUPERSEDED")>>

\* A claim that cites nothing, and text before any claim.
Bare == <<Other, Class("INVARIANT"), Claim(3, {"rollback"}), Class("CONTESTED"),
          Claim(1, SmallWords)>>

SmallLedgers == {Sound, Revised, Bare}

Ask3(ns, ws, now) == [names |-> ns, words |-> ws, current |-> now]

SmallRequests ==
  {Ask3({}, {"quota", "limit"}, FALSE), Ask3({}, {"quota", "limit"}, TRUE),
   Ask3({}, {"rollback", "quota"}, FALSE), Ask3({}, SmallWords, FALSE),
   Ask3({1}, {"rollback"}, FALSE),
   Ask3({3}, {"quota"}, TRUE), Ask3({2, 3}, {}, FALSE)}

SmallIds == 1..3
SmallInside == {<<1, 3>>}
SmallLong == {"rollback"}
SmallPaths == {"a", "b"}
=============================================================================
