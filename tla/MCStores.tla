--------------------------------- MODULE MCStores ---------------------------------
(* Small instances of the stores, of the failover of the providers and of what      *)
(* channels do to a message in either direction: every behaviour drives one of      *)
(* them, which "part" names, and leaves the others as they began.                   *)
EXTENDS Inbound, JSONLStore, TLC

CONSTANTS w1, w2, r1, r2
CONSTANTS Savers, CvRounds, CvIterations, CvRetries, CvTail, CvThreshold, CvBatch, CvOversized,
    CvMishaps, FbModels, FbRequests, FbErrors, FbTimes, FbMaxRequests, FbMaxLapses, SdParts,
    SdRetries
VARIABLE part  \* the component this behaviour drives
VARIABLES sessMessages, sessSummary, sessFile, sessSaving, sessBlemish, cvRound, cvSummarizer,
    cvCount, cvAll, cvGivenUp, cvLate, cvOverlapped, cvCut
VARIABLES fbRequest, fbEntry, fbMade, fbLapses
VARIABLES sdMsg, sdFiles, sdCalls, sdTry, sdFails, sdAttempt, sdState, sdNote, sdRunning, sdLate,
    sdPassed, sdLog

OneShard == [w \in {w1, w2} |-> 1]
MCFbModels ==
    <<[provider |-> "p", model |-> "a"], [provider |-> "q", model |-> "b"],
      [provider |-> "p", model |-> "a"], [provider |-> "p", model |-> "c"]>>
MCFbErrors ==
    {[status |-> 429, says |-> "none"], [status |-> 0, says |-> "billing"], [status |-> 404, says |-> "none"]}

Parked == 0  \* what the variables of a component hold that the behaviour does not drive
Cv == INSTANCE Conversation
Fb == INSTANCE Fallback
Sd == INSTANCE Sending

cvVars == <<sessMessages, sessSummary, sessFile, sessSaving, sessBlemish, cvRound, cvSummarizer,
    cvCount, cvAll, cvGivenUp, cvLate, cvOverlapped, cvCut>>
fbVars == <<fbRequest, fbEntry, fbMade, fbLapses>>
sdVars == <<sdMsg, sdFiles, sdCalls, sdTry, sdFails, sdAttempt, sdState, sdNote, sdRunning, sdLate,
    sdPassed, sdLog>>

Parts == {"jsonl", "conversation", "fallback", "inbound", "sending"}
SumInit ==
    /\ part \in Parts
    /\ Init
    /\ IF part = "conversation" THEN Cv!CvInit
       ELSE /\ sessMessages = Parked /\ sessSummary = Parked /\ sessFile = Parked
            /\ sessSaving = Parked /\ sessBlemish = Parked /\ cvRound = Parked
            /\ cvSummarizer = Parked /\ cvCount = Parked /\ cvAll = Parked /\ cvGivenUp = Parked
            /\ cvLate = Parked /\ cvOverlapped = Parked /\ cvCut = Parked
    /\ Fb!FbInit
    /\ IbInit /\ (part # "inbound" => ibMsg = CHOOSE m \in MessagesOf("feishu") : WellFormed(m))
    /\ Sd!SdInit /\ (part # "sending" => sdMsg = [channel |-> "telegram", kind |-> "text", parts |-> 1, images |-> {}])
SumNext ==
    /\ UNCHANGED part
    /\ \/ part = "jsonl" /\ Next /\ UNCHANGED <<cvVars, fbVars, ibVars, sdVars>>
       \/ part = "conversation" /\ Cv!CvNext /\ UNCHANGED <<vars, fbVars, ibVars, sdVars>>
       \/ part = "fallback" /\ Fb!FbNext /\ UNCHANGED <<vars, cvVars, ibVars, sdVars>>
       \/ part = "inbound" /\ IbNext /\ UNCHANGED <<vars, cvVars, fbVars, sdVars>>
       \/ part = "sending" /\ Sd!SdNext /\ UNCHANGED <<vars, cvVars, fbVars, ibVars>>
sumVars == <<part, vars, cvVars, fbVars, ibVars, sdVars>>
SumSpec == SumInit /\ [][SumNext]_sumVars
------------------------------------------------------------------------------------
(* What is forgotten came too late, calls are answered, files are behind for a      *)
(* reason (loop.go).                                                                *)
ConversationSafe == part = "conversation" => Cv!ConversationSafe

(* Requests give up last of all, and cooldowns end and lengthen by the rules        *)
(* (fallback.go, cooldown.go).                                                      *)
FallbackCorrect ==
    /\ [](part = "fallback" => Fb!FbTypeOK /\ Fb!ExhaustedTriedAll)
    /\ [][part = "fallback" => Fb!EndedByOlderCall /\ Fb!WindowForgets]_fbVars

(* What a platform confirmed was shown, in order, twice only by a retry, and        *)
(* nothing is sent after the end (manager.go and the channels).                     *)
SendingCorrect ==
    /\ [](part = "sending" => Sd!SdTypeOK /\ Sd!DeliveredWasShown /\ Sd!RepeatedOnlyByRetry /\ Sd!TogetherOrNot)
    /\ [][part = "sending" => Sd!InOrder /\ Sd!EndIsFinal]_sdVars

====================================================================================
