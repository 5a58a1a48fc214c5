--------------------------------- MODULE MCGateway ---------------------------------
(* Small instances of what the goroutines and processes of a gateway share: every   *)
(* behaviour drives one of them, which "part" names, and leaves the others as they  *)
(* began.                                                                           *)
EXTENDS ChannelManager, MediaStore, Notices, TLC

VARIABLE part  \* the component this behaviour drives

TwoTextOneMedia == [text |-> 2, media |-> 1]



Parts == {"manager", "media", "notices"}
SumInit ==
    /\ part \in Parts
    /\ Init /\ (part # "manager" => workers = {})
    /\ MdInit
    /\ NtInit
SumNext ==
    /\ UNCHANGED part
    /\ \/ part = "manager" /\ Next /\ UNCHANGED <<mdVars, ntVars>>
       \/ part = "media" /\ MdNext /\ UNCHANGED <<vars, ntVars>>
       \/ part = "notices" /\ NtNext /\ UNCHANGED <<vars, mdVars>>
sumVars == <<part, vars, mdVars, ntVars>>
SumSpec == SumInit /\ [][SumNext]_sumVars
====================================================================================
