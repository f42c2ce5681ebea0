--------------------------- MODULE MCAgentProcess ---------------------------
(* Instances of AgentProcess for TLC.                                       *)
EXTENDS AgentProcess, TLC

UpperOf == [p \in Parts |-> p]

Two == "ETH" :> ("MAINNET" :> <<"u1", "u2">> @@ "sepolia" :> <<"u1">>)

\* Two types; a name given twice; no rpcUrls; no network; a type without an agent.
MCFiles == {
    Two @@ "TRX" :> ("MAINNET" :> <<"u1">>),
    "ETH" :> ("MAINNET" :> <<"u1", "u1">>),
    Two @@ "TRX" :> ("MAINNET" :> <<>>),
    "ETH" :> ("sepolia" :> <<"u1">>) @@ "TRX" :> [n \in {} |-> <<>>],
    Two @@ "BTC" :> ("MAINNET" :> <<"u1">>)}

MCIds == {<<"">>, <<"", "7">>, <<"t">>, <<"t", "">>, <<"t", "7">>, <<"x">>, <<"ETH", "", "t">>}

=============================================================================
