--------------------------- MODULE MCAgentHosting ---------------------------
(* AgentHosting with the four agents of the packs, declared with the         *)
(* initiator last as the packs do.                                          *)
EXTENDS AgentHosting

CONSTANTS fraud, growth, compliance, risk

MCBindings == <<fraud, growth, compliance, risk>>
MCThree == <<fraud, growth, risk>>
=============================================================================
