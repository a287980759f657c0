-------------------------- MODULE MCSessionClients --------------------------
(* Instances of SessionClients for TLC: a page of the web app and a terminal, *)
(* both attached to one service.                                              *)
EXTENDS SessionClients, TLC

CONSTANTS service, web, tui, page, term

OneService == (page :> service) @@ (term :> service)
TwoApps == (page :> web) @@ (term :> tui)
ServiceWork == (service :> {web, tui})
=============================================================================
