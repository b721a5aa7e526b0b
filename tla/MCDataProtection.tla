-------------------------- MODULE MCDataProtection --------------------------
(* DataProtection over texts of up to three things: a secret, an address, a   *)
(* name, something to keep, in every part of the text.                       *)
EXTENDS DataProtection, Naturals

Thing(what, where) == [what |-> what, where |-> where]

MCTexts ==
  {s \in SUBSET {Thing("github", "head"), Thing("slack", "past"),
                 Thing("email", "head"), Thing("email", "body"),
                 Thing("name", "head"), Thing("name", "body"),
                 Thing("config", "head")} : Cardinality(s) <= 3}
=============================================================================
