--------------------------------- MODULE Sending ---------------------------------
(* How one outbound message reaches the platform: Send and SendMedia of every        *)
(* channel (pkg/channels), retried as a whole by the manager's worker.  An attempt    *)
(* makes calls one after the other; a call may be refused, may reach the user and     *)
(* still answer with an error, or may be under way when its caller gives it up; some   *)
(* channels learn no more than that the bytes were written; some show a caption in     *)
(* place of a file; and the files of a media message may leave the media store         *)
(* between attempts.                                                                   *)
EXTENDS Naturals, Sequences, FiniteSets, SequencesExt

CONSTANTS SdParts,       \* the most files of a media message, or receivers of a broadcast
          SdRetries      \* manager: maxRetries

(* How a channel sends.  tries: calls made for the same content before it is an error; *)
(* calls: one for each file or receiver ("each") or one for all; errors: what the       *)
(* manager is told, "retry" (temporary, rate limited or unclassified) or "permanent".   *)
Plain == [tries |-> 1, calls |-> "each", errors |-> {"retry"}]
ByStatus == [Plain EXCEPT !.errors = {"retry", "permanent"}]     \* ClassifySendError, ClassifyNetError
TelegramSend == [Plain EXCEPT !.tries = 2]                       \* HTML, then plain text
LineSend == [ByStatus EXCEPT !.tries = 2]                        \* the reply token, then a push
FeishuSend == Plain
SlackSend == Plain
DiscordSend == Plain
OneBotSend == Plain
QQSend == Plain
DingTalkSend == Plain
WhatsAppSend == Plain
WhatsAppNativeSend == Plain
WeComSend == ByStatus
WeComAppSend == ByStatus
PicoSend == Plain                                                \* broadcastToSession
MaixCamSend == Plain
SiamSyncSend == Plain
SendOf == [telegram |-> TelegramSend, line |-> LineSend, feishu |-> FeishuSend, slack |-> SlackSend,
           discord |-> DiscordSend, onebot |-> OneBotSend, qq |-> QQSend, dingtalk |-> DingTalkSend,
           whatsapp |-> WhatsAppSend, whatsapp_native |-> WhatsAppNativeSend, wecom |-> WeComSend,
           wecom_app |-> WeComAppSend, pico |-> PicoSend, maixcam |-> MaixCamSend, siam_sync |-> SiamSyncSend]
TelegramSendMedia == Plain
FeishuSendMedia == Plain
SlackSendMedia == Plain
LineSendMedia == ByStatus                                        \* captions only
WeComAppSendMedia == ByStatus
DiscordSendMedia == [Plain EXCEPT !.calls = "all"]
OneBotSendMedia == [Plain EXCEPT !.calls = "all"]
SendMediaOf == [telegram |-> TelegramSendMedia, feishu |-> FeishuSendMedia, slack |-> SlackSendMedia,
                line |-> LineSendMedia, wecom_app |-> WeComAppSendMedia, discord |-> DiscordSendMedia,
                onebot |-> OneBotSendMedia]
Broadcast == {"pico", "maixcam"}                                 \* one write for each receiver

(* The channels whose nil says no more than that a socket, or a library outside src/,  *)
(* took the message: OneBot never awaits its echo, the bridge of WhatsApp, MaixCam,     *)
(* Pico and the bridge broadcast answer nothing, and DingTalk's webhook is the SDK's.   *)
Unconfirmed == {"onebot", "whatsapp", "maixcam", "pico", "siam_sync", "dingtalk"}
Kinds(channel) == {"text"} \cup (IF channel \in DOMAIN SendMediaOf THEN {"media"} ELSE {})

VARIABLES sdMsg,      \* [channel, kind, parts, images]: images, the parts that are pictures
          sdFiles,    \* parts whose file still resolves and opens
          sdCalls,    \* calls left of the attempt: the parts each carries
          sdTry,      \* calls already made for the head of sdCalls (Telegram's and LINE's second try)
          sdFails,    \* calls of the attempt that failed
          sdAttempt,  \* attempts begun
          sdState,    \* "ready", "sending", "delivered", "failed": what the worker knows
          sdNote,     \* LINE: a reply token, Slack: a pending acknowledgement of the chat
          sdRunning,  \* the channel's running flag
          sdLate,     \* calls still on their way when the caller went on
          sdPassed,   \* history: parts passed over because they could not be uploaded (WeCom app)
          sdLog       \* history: [part, as], in the order they reached the user
sdVars == <<sdMsg, sdFiles, sdCalls, sdTry, sdFails, sdAttempt, sdState, sdNote, sdRunning, sdLate, sdPassed, sdLog>>

Parts == 1..sdMsg.parts
Media(channel) == sdMsg.kind = "media" /\ sdMsg.channel = channel
Messages == {m \in [channel : DOMAIN SendOf, kind : {"text", "media"}, parts : 1..SdParts, images : SUBSET (1..SdParts)] :
                /\ m.kind \in Kinds(m.channel)
                /\ m.kind = "text" /\ m.channel \notin Broadcast => m.parts = 1
                /\ m.images \subseteq 1..m.parts /\ (m.images # {} => m.kind = "media" /\ m.channel = "wecom_app")}
SdInit == /\ sdMsg \in Messages
          /\ sdFiles = Parts /\ sdCalls = <<>> /\ sdTry = 0 /\ sdFails = 0 /\ sdAttempt = 0 /\ sdState = "ready"
          /\ sdNote = (sdMsg.channel \in {"line", "slack"}) /\ sdRunning = TRUE /\ sdLate = <<>>
          /\ sdPassed = {} /\ sdLog = <<>>

---------------------------------------------------------------------------------
(* The calls of an attempt.  A file that does not resolve is left out of it without   *)
(* an error; LINE sends captions and needs no file.                                   *)
Sendable == IF sdMsg.kind = "media" /\ sdMsg.channel # "line" THEN sdFiles ELSE Parts
OneByOne == [i \in 1..Cardinality(Sendable) |-> {SetToSortSeq(Sendable, <)[i]}]
Together == IF Sendable = {} THEN <<>> ELSE <<Sendable>>
Profile == IF sdMsg.kind = "text" THEN SendOf[sdMsg.channel] ELSE SendMediaOf[sdMsg.channel]
Calls == IF Profile.calls = "all" THEN Together ELSE OneByOne

(* The second try of LINE needs a reply token that is not yet stale. *)
Tries == IF sdMsg.channel = "line" /\ ~sdNote THEN 1 ELSE Profile.tries

(* Send or SendMedia begins; with nothing to call it has succeeded. *)
BeginAttempt ==
    /\ sdState = "ready" /\ sdAttempt <= SdRetries
    /\ sdAttempt' = sdAttempt + 1 /\ sdFails' = 0
    /\ IF ~sdRunning THEN sdState' = "failed" /\ UNCHANGED <<sdCalls, sdTry, sdNote>>
       ELSE /\ sdCalls' = Calls
            /\ sdTry' = 2 - Tries
            /\ sdNote' = (sdNote /\ sdMsg.channel # "line")
            /\ sdState' = IF Calls = <<>> THEN "delivered" ELSE "sending"
    /\ UNCHANGED <<sdMsg, sdFiles, sdRunning, sdLate, sdPassed, sdLog>>

(* The form in which a channel shows a part: LINE sends captions, and so does the      *)
(* WeCom app for everything but a picture, uploaded or not.                            *)
Form(p) == IF Media("line") \/ (Media("wecom_app") /\ p \notin sdMsg.images) THEN "caption" ELSE "itself"
Reaches(parts) == LET order == SetToSortSeq(parts, <)
                  IN  sdLog' = sdLog \o [i \in DOMAIN order |-> [part |-> order[i], as |-> Form(order[i])]]
Shown(p) == \E i \in DOMAIN sdLog : sdLog[i] = [part |-> p, as |-> Form(p)]
Arrives(parts) == Reaches(parts) /\ UNCHANGED sdLate
IsOnItsWay(parts) == sdLate' = Append(sdLate, parts) /\ UNCHANGED sdLog
IsLost == UNCHANGED <<sdLate, sdLog>>

(* How the attempt ends.  What the manager does with an error: a permanent one ends   *)
(* the message, any other is retried while attempts are left.                         *)
GivesUp == sdState' = "failed"
Again == sdState' = IF sdAttempt <= SdRetries THEN "ready" ELSE "failed"
Success == sdState' = "delivered" /\ sdNote' = (sdNote /\ sdMsg.channel # "slack")
Finish(failed) ==
    CASE failed = 0 \/ sdMsg.channel = "siam_sync" -> Success
      [] sdMsg.channel = "pico" /\ failed > 0 -> IF failed < sdMsg.parts THEN Success ELSE GivesUp /\ UNCHANGED sdNote
      [] OTHER -> Again /\ UNCHANGED sdNote
NextCall(failed) ==
    /\ sdTry' = 1
    /\ IF Len(sdCalls) = 1 THEN sdCalls' = <<>> /\ sdFails' = 0 /\ Finish(failed)
       ELSE sdCalls' = Tail(sdCalls) /\ sdFails' = failed /\ UNCHANGED <<sdState, sdNote>>

(* The call answers without an error.  Where the platform has confirmed it the parts   *)
(* have reached the user; where it was only written they may do so later, or never.     *)
CallSucceeds ==
    /\ sdState = "sending" /\ NextCall(sdFails)
    /\ \/ Arrives(Head(sdCalls))
       \/ sdMsg.channel \in Unconfirmed /\ (IsOnItsWay(Head(sdCalls)) \/ IsLost)
    /\ UNCHANGED <<sdMsg, sdFiles, sdAttempt, sdRunning, sdPassed>>

(* The call answers with an error, whether it was refused, reached the user all the    *)
(* same, or timed out under way: a second try of the same content, the next receiver   *)
(* of a broadcast, or the end of the attempt with the parts after it not sent.         *)
SkipPart == NextCall(sdFails)
EndAttempt == /\ sdCalls' = <<>> /\ sdFails' = 0 /\ UNCHANGED <<sdTry, sdNote>>
              /\ \E c \in Profile.errors : IF c = "permanent" THEN GivesUp ELSE Again
CallFails ==
    /\ sdState = "sending"
    /\ Arrives(Head(sdCalls)) \/ IsOnItsWay(Head(sdCalls)) \/ IsLost
    /\ IF sdTry = 0 THEN sdTry' = 1 /\ UNCHANGED <<sdCalls, sdFails, sdState, sdNote>>
       ELSE IF sdMsg.channel \in Broadcast \cup {"siam_sync"} THEN NextCall(sdFails + 1)
       ELSE EndAttempt
    /\ UNCHANGED <<sdMsg, sdFiles, sdAttempt, sdRunning, sdPassed>>

(* WeCom app: a file that cannot be uploaded is passed over without an error; its      *)
(* caption, when it has one, is sent in its place and the answer ignored.              *)
UploadFails ==
    /\ sdState = "sending" /\ Media("wecom_app")
    /\ sdPassed' = sdPassed \cup Head(sdCalls) /\ NextCall(sdFails)
    /\ \E p \in Head(sdCalls) : sdLog' \in {sdLog, Append(sdLog, [part |-> p, as |-> "caption"])}
    /\ UNCHANGED <<sdMsg, sdFiles, sdAttempt, sdRunning, sdLate>>

(* A call its caller no longer waits for is served, or is not. *)
LateDelivery ==
    \E i \in DOMAIN sdLate :
        /\ sdLate' = RemoveAt(sdLate, i)
        /\ \/ Reaches(sdLate[i])
           \/ UNCHANGED sdLog
        /\ UNCHANGED <<sdMsg, sdFiles, sdCalls, sdTry, sdFails, sdAttempt, sdState, sdNote, sdRunning, sdPassed>>

(* The media store's clean-up removes a file; the channel is stopped. *)
FileExpires(p) == /\ p \in sdFiles /\ sdMsg.kind = "media" /\ sdState = "ready" /\ sdFiles' = sdFiles \ {p}
                  /\ UNCHANGED <<sdMsg, sdCalls, sdTry, sdFails, sdAttempt, sdState, sdNote, sdRunning, sdLate, sdPassed, sdLog>>
ChannelStops == /\ sdRunning /\ sdRunning' = FALSE
                /\ UNCHANGED <<sdMsg, sdFiles, sdCalls, sdTry, sdFails, sdAttempt, sdState, sdNote, sdLate, sdPassed, sdLog>>

SdNext == \/ BeginAttempt \/ CallSucceeds \/ CallFails \/ UploadFails \/ LateDelivery
          \/ (\E p \in Parts : FileExpires(p)) \/ ChannelStops
SdSpec == SdInit /\ [][SdNext]_sdVars
---------------------------------------------------------------------------------
Count(p) == Cardinality({i \in DOMAIN sdLog : sdLog[i].part = p})

(* Type correctness of an attempt and of what it has shown. *)
SdTypeOK == /\ sdFiles \subseteq Parts /\ sdPassed \subseteq Parts /\ sdAttempt \in 0..(SdRetries + 1)
            /\ \A i \in DOMAIN sdCalls : sdCalls[i] # {} /\ sdCalls[i] \subseteq Parts
            /\ \A i \in DOMAIN sdLate : sdLate[i] # {} /\ sdLate[i] \subseteq Parts
            /\ sdTry \in 0..1 /\ sdFails \in 0..SdParts /\ (sdState = "sending" <=> sdCalls # <<>>)
            /\ sdState \in {"ready", "sending", "delivered", "failed"}
            /\ \A i \in DOMAIN sdLog : sdLog[i].part \in Parts /\ sdLog[i].as \in {"itself", "caption"}

(* What a channel with a confirming platform reports as delivered has reached the     *)
(* user, every part in the form the channel gives it, except a file the store no      *)
(* longer had or that could not be uploaded.                                          *)
DeliveredWasShown == sdState = "delivered" /\ sdMsg.channel \notin Unconfirmed =>
                         \A p \in Parts : Shown(p) \/ (sdMsg.kind = "media" /\ p \notin sdFiles \ sdPassed)

(* Retrying the whole message may repeat what already arrived or was on its way, but   *)
(* never within one attempt, except by the second try of a text whose first answer     *)
(* was an error.                                                                       *)
RepeatedOnlyByRetry == \A p \in Parts : Count(p) <= sdAttempt * Profile.tries

(* The files of a message sent in one call arrive together: each of them as often as  *)
(* any other that was in the store for every attempt.                                 *)
TogetherOrNot == Profile.calls = "all" /\ sdFiles = Parts => \A p, q \in Parts : Count(p) = Count(q)

(* The parts arrive in their order: a file reaches the user for the first time after  *)
(* every earlier file that was still in the store and could be uploaded, however late  *)
(* the calls that were given up are served.                                           *)
InOrder == \A p \in Parts : Shown(p)' /\ ~Shown(p) /\ sdMsg.kind = "media" /\ Profile.calls = "each" =>
               \A q \in sdFiles \ sdPassed : q < p => Shown(q)

(* The worker has done with a message it gave up or takes for delivered: it makes no   *)
(* further call for it, and what still arrives was on its way before.                  *)
EndIsFinal == sdState \in {"delivered", "failed"} =>
                  sdState' = sdState /\ sdAttempt' = sdAttempt
                  /\ (sdLog' # sdLog => \E i \in DOMAIN sdLate : sdLate' = RemoveAt(sdLate, i))

(* What a platform confirmed was shown, in order, together where one call       *)
(* carries it, twice only by a retry, and nothing is sent once the worker has   *)
(* done with the message (manager.go, the channels).                            *)
SendingCorrect ==
    /\ [](SdTypeOK /\ DeliveredWasShown /\ RepeatedOnlyByRetry /\ TogetherOrNot)
    /\ [][InOrder /\ EndIsFinal]_sdVars
==================================================================================
