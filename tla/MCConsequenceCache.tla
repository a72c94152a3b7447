-------------------------- MODULE MCConsequenceCache --------------------------
(***************************************************************************)
(* Instances of ConsequenceCache: the shop hat never shares the tree of a  *)
(* refund, the desk hat shares it briefly and has no lookup tool.          *)
(***************************************************************************)
EXTENDS ConsequenceCache

CONSTANTS shop, desk

DeclaredBy == [shop |-> [lookup |-> Undeclared, refund |-> 0],
               desk |-> [lookup |-> Undeclared, refund |-> 1]]
MCDeclared == [h \in Hats |-> IF h = shop THEN DeclaredBy.shop ELSE DeclaredBy.desk]

MCCandidates == {[tool |-> "lookup", shape |-> "short"],
                 [tool |-> "lookup", shape |-> "long"],
                 [tool |-> "refund", shape |-> "short"]}
MCSituation == [tool |-> "situation", shape |-> "none"]
=============================================================================
