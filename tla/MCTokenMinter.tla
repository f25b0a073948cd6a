--------------------------- MODULE MCTokenMinter ----------------------------
(* TokenMinter on a small instance: the initiator and a non-initiator of a *)
(* run ask under the same sender, a third ask lists the same modes in      *)
(* another order (an operator's override), and one ask has no sender.      *)
EXTENDS TokenMinter

CONSTANTS risk, decision, c1, c2

NoOverride == [f \in {} |-> TRUE]
ModesOverride == [allowed_modes |-> <<AmbientMode, decision>>]

MCCalls == {c1, c2}

InitiatorAsk == [sender |-> risk, scopes |-> deriveScopes(TRUE, decision, NoOverride)]
ReorderedAsk == [sender |-> risk, scopes |-> deriveScopes(TRUE, decision, ModesOverride)]
SpecialistAsk == [sender |-> risk, scopes |-> deriveScopes(FALSE, decision, NoOverride)]
EmptyAsk == [sender |-> NoSender, scopes |-> deriveScopes(FALSE, decision, NoOverride)]

MCAsks == {InitiatorAsk, ReorderedAsk, SpecialistAsk, EmptyAsk}
=============================================================================
