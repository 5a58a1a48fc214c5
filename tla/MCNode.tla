---------------------------------- MODULE MCNode ----------------------------------
(* Small instances of the components of a node: every behaviour drives one of them, *)
(* which "part" names, and leaves the others as they began.                         *)
EXTENDS VoicePrints, Proactive, SiamArm, Voice, Missions, ToolRounds, TLC

VARIABLE part  \* the component this behaviour drives

MCTrRounds ==
    LET TrAsk(tool, how) == [tool |-> tool, named |-> how]
        pairs == {<<"edit_file", "append_file">>, <<"edit_file", "write_file">>,
                  <<"siam_send_message", "siam_send_message">>} IN
    {<<TrAsk(tool, how)>> : tool \in DOMAIN Actions, how \in Naming}
        \cup {<<TrAsk(pair[1], "exact"), TrAsk(pair[2], "exact")>> : pair \in pairs}
        \cup {<<TrAsk("write_file", "loose"), TrAsk("write_file", how)>> : how \in Naming}
MCArCommands ==
    LET plain == <<"reload", "poll", "sync_soul", "terminate", "shell", "proactive", "unknown">> IN
    {[id |-> 1, kind |-> "soul", soul |-> "new"], [id |-> 9, kind |-> "sync_soul", soul |-> "other"],
     [id |-> 10, kind |-> "sync_id", soul |-> "other"]}
        \cup {[id |-> i + 1, kind |-> plain[i], soul |-> "none"] : i \in DOMAIN plain}
MCVcWakes == <<"w1", "w2">>
MCPrTypings == {("brief" :> "cron" @@ "beat" :> kind) : kind \in {"interval", "battery_low"}}



Parts == {"arm", "voice", "proactive", "prints", "tools", "missions"}
SumInit ==
    /\ part \in Parts
    /\ ArInit /\ (part # "arm" => arMode = "worker" /\ arSoul = NoSoul)
    /\ VcInit
    /\ PrInit /\ (part # "proactive" => prTypes = CHOOSE f \in PrTypings : TRUE)
    /\ VpInit /\ (part # "prints" => vpMaster = Other)
    /\ TrInit /\ (part # "tools" => trAsked = (CHOOSE r \in TrRounds : TRUE) /\ trMaster /\ trRole = "guest")
    /\ MsInit /\ (part # "missions" => msStatus = [m \in MsMissions |-> "pending"] /\ msMailbox = <<>>)
SumNext ==
    /\ UNCHANGED part
    /\ \/ part = "arm" /\ ArNext /\ UNCHANGED <<vcVars, prVars, vpVars, trVars, msVars>>
       \/ part = "voice" /\ VcNext /\ UNCHANGED <<arVars, prVars, vpVars, trVars, msVars>>
       \/ part = "proactive" /\ PrNext /\ UNCHANGED <<arVars, vcVars, vpVars, trVars, msVars>>
       \/ part = "prints" /\ VpNext /\ UNCHANGED <<arVars, vcVars, prVars, trVars, msVars>>
       \/ part = "tools" /\ TrNext /\ UNCHANGED <<arVars, vcVars, prVars, vpVars, msVars>>
       \/ part = "missions" /\ MsNext /\ UNCHANGED <<arVars, vcVars, prVars, vpVars, trVars>>
sumVars == <<part, arVars, vcVars, prVars, vpVars, trVars, msVars>>
SumSpec == SumInit /\ [][SumNext]_sumVars
====================================================================================
