------------------------------- MODULE MCBot -------------------------------
(***************************************************************************)
(* The bot and what it sends to the chain, one at a time: a behaviour is   *)
(* one of `part', and the other stays as it was.                           *)
(***************************************************************************)
EXTENDS MCArbBot, ChainClient

VARIABLE part

allVars == <<part, vars, chainVars>>

BotInit ==
  /\ part \in {"bot", "chain"}
  /\ Init /\ ChainInit
  /\ part # "bot" => ~dryRun

BotNext ==
  /\ UNCHANGED part
  /\ \/ part = "bot" /\ Next /\ UNCHANGED chainVars
     \/ part = "chain" /\ ChainNext /\ UNCHANGED vars

\* Fairness of the bot is fairness of the part that moves; the calls of the
\* chain do not begin in another part.
BotFairness ==
  /\ WF_vars(part = "bot" /\ Announced)
  /\ WF_vars(part = "bot" /\ DepthUpdate)
  /\ WF_vars(part = "bot" /\ Clock)
  /\ WF_vars(part = "bot" /\ StopSent)

BotSpec == BotInit /\ [][BotNext]_allVars /\ BotFairness /\ ChainFairness
=============================================================================
