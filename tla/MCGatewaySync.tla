---------------------------- MODULE MCGatewaySync ----------------------------
(* Values of the constants of GatewaySync for TLC. *)
EXTENDS GatewaySync

CONSTANTS h1, h2, ann, bob, ma, mb

\* Two hubs of two owners.
TwoOwners == [h \in Hub |-> IF h = h1 THEN ann ELSE bob]

\* Both owners have an email.
BothMail == [o \in Owner |-> IF o = ann THEN ma ELSE mb]
=============================================================================
