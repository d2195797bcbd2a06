-------------------------------- MODULE MCIntake --------------------------------
(***************************************************************************)
(* Values for TLC's run of Intake: environments with one mistake each, a   *)
(* secret with two tokens and one that is too short, and two databases of  *)
(* earlier releases, one of which asks for authentication.                 *)
(***************************************************************************)
EXTENDS Intake, TLC

CONSTANTS a, b, wrong, p1

MCTokens  == {a, b, wrong}
MCSecrets == {"first", "second", "listed", "short"}
MCParts   == "first" :> {a} @@ "second" :> {b} @@ "listed" :> {a, b} @@ "short" :> {b}

Good == [required |-> TRUE, poller |-> TRUE, ref |-> TRUE, ttl |-> "long",
         interval |-> "unset", label |-> TRUE, cron |-> TRUE, webhook |-> TRUE,
         secret |-> None]
MCEnvs ==
    {Good,
     [Good EXCEPT !.webhook = FALSE, !.secret = "listed"],
     [Good EXCEPT !.secret = "short", !.ttl = "short", !.poller = FALSE],
     [Good EXCEPT !.ttl = "short", !.interval = "off"],
     [Good EXCEPT !.ttl = "short"],
     [Good EXCEPT !.ref = FALSE],
     [Good EXCEPT !.cron = FALSE]}

MCOld ==
    {[version |-> 1, secret |-> None,
      job |-> [webhook |-> FALSE, auth |-> FALSE, debug |-> FALSE]],
     [version |-> 4, secret |-> "first",
      job |-> [webhook |-> TRUE, auth |-> TRUE, debug |-> FALSE]]}

MCHooks ==
    {[gated |-> TRUE, named |-> TRUE, project |-> p1, creds |-> {wrong, a}],
     [gated |-> FALSE, named |-> TRUE, project |-> p1, creds |-> {wrong}],
     [gated |-> FALSE, named |-> FALSE, project |-> p1, creds |-> {}]}

MCOptions ==
    {[debug |-> FALSE, webhook |-> None], [debug |-> FALSE, webhook |-> FALSE],
     [debug |-> TRUE, webhook |-> TRUE]}
=================================================================================
