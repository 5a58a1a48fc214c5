--------------------------------- MODULE Inbound ---------------------------------
(* How a chat platform's message becomes an inbound message of the bus: the inbound *)
(* handlers of every channel under pkg/channels and the HandleMessage they all end  *)
(* in (base.go).  A handler is a sequence of stages that differ in order from       *)
(* channel to channel; a stage is one step, because a second delivery of the same   *)
(* message (a webhook retry, a reconnect, Slack's two events for one mention) runs  *)
(* the same handler on another goroutine.  One message of one channel is followed;  *)
(* what a message says is reduced to what the stages ask of it.                     *)
EXTENDS Naturals, Sequences, FiniteSets

CONSTANTS IbChannels,    \* the channels a run looks at
          IbRules,       \* group triggers: "any", "mention_only", "prefixes"
          IbDeliveries   \* bound: deliveries of the message by the platform

(* The channels of initChannels but the WeCom AI bot (module AIBot) and Siam sync    *)
(* (module Missions); Slack's commands and QQ's groups have handlers of their own.   *)
ChannelNames ==
    {"telegram", "feishu", "line", "discord", "slack", "slack_command", "onebot", "wecom", "wecom_app", "pico",
     "whatsapp", "whatsapp_native", "qq", "qq_group", "maixcam", "dingtalk"}
ASSUME IbAssumption == IbChannels \subseteq ChannelNames /\ IbDeliveries \in Nat

Delivery == 1..IbDeliveries

---------------------------------------------------------------------------------
(* The handlers.  "allow" tests the user's identity, "download" puts attachments in  *)
(* the media store, "note" keeps chat-side state for a later answer, "dedup" marks   *)
(* the message id, "handle" is HandleMessage.                                        *)
Telegram == <<"own", "allow_or_bridge", "note", "download", "orchestrate", "group", "handle">>
Feishu == <<"allow", "download", "group", "handle">>
Line == <<"type", "note", "download", "empty", "group", "allow", "handle">>
SlackMessage == <<"own", "type", "allow", "note", "unmentioned", "download", "empty", "handle">>
SlackMention == <<"own", "allow", "note", "no_text", "handle">>
SlackCommand == <<"allow", "handle">>
Discord == <<"own", "allow", "group", "download", "empty", "handle">>
OneBot == <<"type", "allow", "download", "dedup", "empty", "group", "note", "allow", "handle">>
WeComBot == <<"type", "dedup", "unmentioned", "allow", "handle">>
WeComApp == <<"type", "dedup", "handle">>
Pico == <<"no_text", "allow", "handle">>
WhatsApp == <<"allow", "handle">>
WhatsAppNative == <<"no_text", "allow", "handle">>
QQ == <<"dedup", "own", "no_text", "allow", "handle">>
QQGroup == <<"dedup", "own", "no_text", "allow", "handle">>    \* the event says the bot was mentioned
MaixCam == <<"allow", "handle">>
DingTalk == <<"no_text", "note", "unmentioned", "allow", "handle">>

(* The handlers an event of the channel may go to: Slack reports a mention both as a *)
(* message and as a mention.                                                         *)
Handlers(channel, call) ==
    CASE channel = "telegram" -> {Telegram} [] channel = "feishu" -> {Feishu}
      [] channel = "line" -> {Line} [] channel = "discord" -> {Discord}
      [] channel = "slack" -> {SlackMessage} \cup (IF call = "mention" THEN {SlackMention} ELSE {})
      [] channel = "slack_command" -> {SlackCommand} [] channel = "onebot" -> {OneBot}
      [] channel = "wecom" -> {WeComBot} [] channel = "wecom_app" -> {WeComApp}
      [] channel = "pico" -> {Pico} [] channel = "whatsapp" -> {WhatsApp}
      [] channel = "whatsapp_native" -> {WhatsAppNative} [] channel = "qq" -> {QQ}
      [] channel = "qq_group" -> {QQGroup} [] channel = "maixcam" -> {MaixCam}
      [] channel = "dingtalk" -> {DingTalk}
Deduplicating == {"onebot", "wecom", "wecom_app", "qq", "qq_group"}
DirectOnly == {"wecom_app", "pico", "slack_command", "qq", "qq_group", "maixcam"}

Untriggered == {"whatsapp", "whatsapp_native"}     \* answer every group message

(* What the channel's platform indicates while the agent works (TypingCapable,       *)
(* ReactionCapable, PlaceholderCapable).                                             *)
Indicates(channel) == channel \in {"telegram", "line", "discord", "pico", "onebot", "slack", "slack_command", "feishu"}

VARIABLES ibMsg,        \* the message: its channel and what the stages ask of it
          ibAt,         \* delivery -> [path, at]: the handler it runs and the next stage, 0 when dropped
          ibSender,     \* delivery -> the identity HandleMessage will test
          ibForced,     \* deliveries Telegram's orchestration forces an answer to
          ibSeen,       \* the id is among the processed ids
          ibForgotten,  \* history: how often it has left them again
          ibFiles,      \* files put in the media store, by delivery
          ibNoted,      \* the channel kept chat-side state of the message
          ibBusy,       \* deliveries whose indicators were started
          ibPublished,  \* deliveries handed to the bus
          ibFailed,     \* deliveries whose PublishInbound failed
          ibElsewhere   \* copies sent to other agents through the master
ibVars == <<ibMsg, ibAt, ibSender, ibForced, ibSeen, ibForgotten, ibFiles, ibNoted, ibBusy, ibPublished, ibFailed,
            ibElsewhere>>

(* id: whether it has one; admits: which of its identities the allow-list admits;    *)
(* call: how it calls the bot in a group; rule: what its channel asks of messages in  *)
(* groups; to: whom an orchestration message names.                                  *)
MessagesOf(c) ==
    [channel : {c}, own : IF c \in {"telegram", "slack", "discord", "qq", "qq_group"} THEN BOOLEAN ELSE {FALSE},
     known : IF c \in {"line", "slack", "onebot", "wecom", "wecom_app"} THEN BOOLEAN ELSE {TRUE},
     id : IF c = "onebot" THEN BOOLEAN ELSE {TRUE},
     admits : IF c = "telegram" THEN SUBSET {"user", "name"} ELSE SUBSET {"user"},
     group : IF c \in DirectOnly THEN {FALSE} ELSE BOOLEAN, call : {"mention", "prefix", "none"}, rule : IbRules,
     text : BOOLEAN, file : BOOLEAN,
     to : IF c = "telegram" THEN {"none", "notice", "all", "me", "other", "unknown"} ELSE {"none"},
     bridge : IF c = "telegram" THEN BOOLEAN ELSE {FALSE}, listener : IF c = "telegram" THEN BOOLEAN ELSE {FALSE}]
(* A bridge is a group's, an agent listens to a bridge, and no rule is asked of what  *)
(* is said in private.                                                               *)
WellFormed(m) == (m.listener => m.bridge) /\ (m.group \/ (~m.bridge /\ m.rule = "any"))
IbInit == /\ \E c \in IbChannels : ibMsg \in {m \in MessagesOf(c) : WellFormed(m)}
          /\ ibAt = [d \in Delivery |-> [path |-> <<>>, at |-> 0]]
          /\ ibSender = [d \in Delivery |-> "user"] /\ ibForced = {} /\ ibSeen = FALSE /\ ibForgotten = 0
          /\ ibFiles = {} /\ ibNoted = FALSE /\ ibBusy = {} /\ ibPublished = {} /\ ibFailed = {}
          /\ ibElsewhere = 0

(* ShouldRespondInGroup: a mention, else the configured trigger. *)
ShouldRespondInGroup(mentioned, m) ==
    mentioned \/ m.rule = "any" \/ (m.rule = "prefixes" /\ m.call = "prefix")
(* IsAllowedSender. *)
Allowed(m, identity) == identity \in m.admits

Stage(d) == ibAt[d].path[ibAt[d].at]
Running(d) == ibAt[d].at > 0
AtStage(d, s) == Running(d) /\ ibAt[d].at <= Len(ibAt[d].path) /\ Stage(d) = s
MovedTo(d, path, n) == [ibAt EXCEPT ![d] = [path |-> path, at |-> n]]
Advanced(d) == MovedTo(d, ibAt[d].path, IF ibAt[d].at = Len(ibAt[d].path) THEN 0 ELSE ibAt[d].at + 1)
Dropped(d) == MovedTo(d, ibAt[d].path, 0)

(* The platform delivers the message, or delivers it again. *)
Deliver(d) ==
    /\ ibAt[d].path = <<>> /\ \E p \in Handlers(ibMsg.channel, ibMsg.call) : ibAt' = MovedTo(d, p, 1)
    /\ d > 1 => ibAt[d - 1].path # <<>>
    /\ UNCHANGED <<ibMsg, ibSender, ibForced, ibSeen, ibForgotten, ibFiles, ibNoted, ibBusy, ibPublished, ibFailed,
                   ibElsewhere>>

(* The stages that only let a message through or drop it. *)
Tests == {"own", "type", "allow", "allow_or_bridge", "group", "unmentioned", "empty", "no_text"}
Passes(d) ==
    LET m == ibMsg IN
        [own |-> ~m.own, type |-> m.known, allow |-> Allowed(m, "user"),
         allow_or_bridge |-> Allowed(m, "user") \/ m.bridge,
         group |-> m.group => d \in ibForced \/ ShouldRespondInGroup(m.call = "mention", m),
         unmentioned |-> m.group => ShouldRespondInGroup(FALSE, m),
         empty |-> m.text \/ d \in ibFiles \/ (m.channel = "discord" /\ m.file),
         no_text |-> m.text]
Test(d) ==
    /\ \E s \in Tests : AtStage(d, s) /\ ibAt' = IF Passes(d)[s] THEN Advanced(d) ELSE Dropped(d)
    /\ UNCHANGED <<ibMsg, ibSender, ibForced, ibSeen, ibForgotten, ibFiles, ibNoted, ibBusy, ibPublished, ibFailed,
                   ibElsewhere>>

(* MarkMessageProcessed, isDuplicate: test and mark under one lock; OneBot lets a     *)
(* message without an id through.                                                    *)
MarkLater(d) ==
    /\ AtStage(d, "dedup") /\ ibSeen' = (ibSeen \/ d \in ibPublished)
    /\ ibAt' = IF ibSeen THEN Dropped(d) ELSE Advanced(d)
    /\ UNCHANGED <<ibMsg, ibSender, ibForced, ibForgotten, ibFiles, ibNoted, ibBusy, ibPublished, ibFailed,
                   ibElsewhere>>
Dedup(d) ==
    /\ AtStage(d, "dedup") /\ ibSeen' = ibMsg.id
    /\ ibAt' = IF ibSeen THEN Dropped(d) ELSE Advanced(d)
    /\ UNCHANGED <<ibMsg, ibSender, ibForced, ibForgotten, ibFiles, ibNoted, ibBusy, ibPublished, ibFailed,
                   ibElsewhere>>

(* Other messages push the id out of the ring (OneBot, WeCom), or it is among the     *)
(* half of the ids that QQ drops at random, its own message's step included.         *)
Forget ==
    /\ ibSeen /\ ibSeen' = FALSE
    /\ ibForgotten' = ibForgotten + 1
    /\ UNCHANGED <<ibMsg, ibAt, ibSender, ibForced, ibFiles, ibNoted, ibBusy, ibPublished, ibFailed,
                   ibElsewhere>>

(* Reply and quote tokens, pending reactions, session webhooks, chat ids. *)
Note(d) ==
    /\ AtStage(d, "note") /\ ibNoted' = TRUE /\ ibAt' = Advanced(d)
    /\ UNCHANGED <<ibMsg, ibSender, ibForced, ibSeen, ibForgotten, ibFiles, ibBusy, ibPublished, ibFailed,
                   ibElsewhere>>

(* downloadFile and storeMedia: a file that cannot be fetched is left out. *)
Download(d) ==
    /\ AtStage(d, "download") /\ ibAt' = Advanced(d)
    /\ \/ UNCHANGED ibFiles
       \/ ibMsg.file /\ ibFiles' = ibFiles \cup {d}
    /\ UNCHANGED <<ibMsg, ibSender, ibForced, ibSeen, ibForgotten, ibNoted, ibBusy, ibPublished, ibFailed,
                   ibElsewhere>>

(* Telegram's orchestration: whom the message names decides whether this agent       *)
(* answers, under which identity the sender goes on, and who else is told.           *)
Renames(m) == m.to \in {"me", "other", "unknown"} /\ ((m.to = "me" /\ m.bridge) \/ ~m.group)
Silent(m) == \/ m.bridge /\ m.to \in {"notice", "other", "unknown"}
             \/ m.group /\ m.to = "other"
             \/ m.bridge /\ m.to = "none" /\ m.call # "mention" /\ ~m.listener
Forces(m) == m.to \in {"all", "me"} \/ Renames(m) \/ (m.bridge /\ m.to = "none" /\ m.call # "mention" /\ m.listener)
Orchestrate(d) ==
    /\ AtStage(d, "orchestrate")
    /\ ibAt' = IF Silent(ibMsg) THEN Dropped(d) ELSE Advanced(d)
    /\ ibForced' = IF Forces(ibMsg) THEN ibForced \cup {d} ELSE ibForced
    /\ ibSender' = IF Renames(ibMsg) THEN [ibSender EXCEPT ![d] = "name"] ELSE ibSender
    /\ ibElsewhere' = IF ibMsg.to = "all" \/ (ibMsg.to = "other" /\ ibMsg.group /\ ~ibMsg.bridge)
                      THEN ibElsewhere + 1 ELSE ibElsewhere
    /\ UNCHANGED <<ibMsg, ibSeen, ibForgotten, ibFiles, ibNoted, ibBusy, ibPublished, ibFailed>>

(* HandleMessage up to the publish: the allow-list again, with the identity the      *)
(* message now has, then the indicators, each of which the platform may refuse.      *)
HandleMessage(d) ==
    /\ AtStage(d, "handle")
    /\ IF Allowed(ibMsg, ibSender[d])
       THEN /\ ibAt' = MovedTo(d, Append(ibAt[d].path, "publish"), ibAt[d].at + 1)
            /\ \E refused \in BOOLEAN :
                   ibBusy' = IF Indicates(ibMsg.channel) /\ ~refused THEN ibBusy \cup {d} ELSE ibBusy
       ELSE ibAt' = Dropped(d) /\ UNCHANGED ibBusy
    /\ UNCHANGED <<ibMsg, ibSender, ibForced, ibSeen, ibForgotten, ibFiles, ibNoted, ibPublished, ibFailed,
                   ibElsewhere>>

(* PublishInbound: an error (the bus is closed, the context is done) is logged. *)
Publish(d) ==
    /\ AtStage(d, "publish") /\ ibAt' = Advanced(d)
    /\ \/ ibPublished' = ibPublished \cup {d} /\ UNCHANGED ibFailed
       \/ ibFailed' = ibFailed \cup {d} /\ UNCHANGED ibPublished
    /\ UNCHANGED <<ibMsg, ibSender, ibForced, ibSeen, ibForgotten, ibFiles, ibNoted, ibBusy, ibElsewhere>>

IbNext == \/ \E d \in Delivery : \/ Deliver(d) \/ Test(d) \/ Dedup(d) \/ Note(d) \/ Download(d)
                                 \/ Orchestrate(d) \/ HandleMessage(d) \/ Publish(d)
          \/ Forget
IbSpec == IbInit /\ [][IbNext]_ibVars
---------------------------------------------------------------------------------
Over(d) == ibAt[d].path # <<>> /\ ~Running(d)

(* Type correctness of the deliveries and of what they leave behind. *)
IbTypeOK == /\ \A d \in Delivery : ibAt[d].at \in 0..Len(ibAt[d].path) /\ ibSender[d] \in {"user", "name"}
            /\ ibForced \cup ibFiles \cup ibBusy \subseteq Delivery /\ ibElsewhere \in 0..IbDeliveries
            /\ ibPublished \cap ibFailed = {} /\ \A d \in ibPublished \cup ibFailed : Over(d)
            /\ ibSeen \in BOOLEAN /\ ibForgotten \in Nat /\ ibNoted \in BOOLEAN

(* Every handler, whatever the order of its stages, publishes only what it should:   *)
(* not its own messages, only from an identity the allow-list admits, something the   *)
(* agent can read, and in a group only what called the bot.                          *)
CallsBot(m) == \/ m.call = "mention" \/ m.to \in {"all", "me"} \/ (m.bridge /\ m.listener)
               \/ m.rule = "any" \/ (m.rule = "prefixes" /\ m.call = "prefix")
Readable(m) == m.text \/ m.file \/ m.channel \notin {"line", "slack", "onebot", "pico", "whatsapp_native", "discord"}
OnlyWanted == \A d \in ibPublished : /\ ~ibMsg.own /\ Allowed(ibMsg, ibSender[d]) /\ Readable(ibMsg)
                                     /\ ibMsg.group /\ ibMsg.channel \notin Untriggered => CallsBot(ibMsg)

(* A platform that delivers a message again gets one answer on the channels that      *)
(* remember the ids they processed, even when the deliveries overlap, and one more    *)
(* for each time the id was forgotten meanwhile.                                      *)
PublishedOnce ==
    ibMsg.channel \in Deduplicating /\ ibMsg.id => Cardinality(ibPublished) <= 1 + ibForgotten

(* A first delivery marked as processed reaches the bus unless it is refused later or *)
(* the publish fails: then the platform's retry is taken for a duplicate and the      *)
(* message is lost, and nothing else loses one.                                       *)
Acceptable(m) == /\ ~m.own /\ m.known /\ Allowed(m, "user") /\ m.text
                 /\ m.group => ShouldRespondInGroup(m.channel = "onebot" /\ m.call = "mention", m)
LostOnlyByFailure ==
    (ibSeen \/ ibForgotten > 0) /\ Acceptable(ibMsg) /\ (\A d \in Delivery : ~Running(d))
        => ibPublished \cup ibFailed # {}

(* "check allowlist to avoid downloading attachments for rejected users": only LINE's *)
(* handler, which tests the sender last, and Telegram's bridge chat store files of a  *)
(* user the allow-list does not admit.                                                *)
StrangersLeaveNoFiles == ibFiles # {} /\ "user" \notin ibMsg.admits => ibMsg.channel = "line" \/ ibMsg.bridge

(* An indicator is started only for a message that goes on to the bus: it outlives    *)
(* its delivery without an answer to end it only if the publish failed.               *)
BusyMeansPublished == \A d \in ibBusy : Over(d) => d \in ibPublished \cup ibFailed

(* A message reaches the bus only when it is wanted, once while its id is known, and  *)
(* is lost only by a failed publish; strangers leave no files, and indicators only    *)
(* announce what is published (base.go and the channels).                             *)
InboundSafe ==
    /\ IbTypeOK
    /\ OnlyWanted
    /\ PublishedOnce
    /\ LostOnlyByFailure
    /\ StrangersLeaveNoFiles
    /\ BusyMeansPublished
==================================================================================
