---------------------------------- MODULE AIBot ----------------------------------
(* The WeCom AI bot channel (pkg/channels/wecom/aibot.go).  A question opens a      *)
(* stream task; WeCom polls the task's stream; the agent's answer reaches Send,     *)
(* which hands it to the earliest task of the chat: through the task's one-place    *)
(* channel while the stream is open, through its response_url once a poll closed    *)
(* it at the deadline.  Polls (HTTP handlers), the channel's one Send worker, the   *)
(* publishing goroutines and the clean-up loop interleave; taskMu makes each locked *)
(* section one step, and what is done with what a section read is a later step.     *)
EXTENDS Naturals, Sequences, FiniteSets, SequencesExt

CONSTANTS AbChats,       \* conversations
          AbPollers,     \* HTTP handlers that may run at once
          AbMaxTasks,    \* bound: questions asked
          AbParts        \* bound: messages the agent sends for one question
ASSUME AbAssumption == AbMaxTasks \in Nat /\ AbParts \in Nat /\ "none" \notin AbChats

Task == 1..AbMaxTasks
Answer == Task \X (1..AbParts)       \* the question it answers, and which part
NoTask == 0
IdlePoll == [pc |-> "idle", task |-> NoTask]
IdleSend == [pc |-> "idle", task |-> NoTask]

VARIABLES abChat,        \* a task's conversation, "none" before it exists
          abStreams,     \* streamTasks: what a poll can find
          abQueue,       \* chatTasks: the tasks of a chat, oldest first
          abAnswer,      \* answerCh: at most one answer
          abClosed,      \* StreamClosed
          abFinished,    \* Finished
          abCancelled,   \* the task's context is done
          abAge,         \* "fresh", "due" (past Deadline) or "old" (past taskMaxLifetime)
          abGrace,       \* closed for more than streamClosedGracePeriod
          abPoll,        \* the handlers
          abToPublish,   \* tasks whose goroutine has not yet handed the question on
          abInbound,     \* questions the agent has not yet read
          abOutbox,      \* the worker's queue: answers not yet given to Send
          abSend,        \* Send: "offer" and "post" with the task it chose, "posted"
          abRunning,
          abShown,       \* history: what the user saw in a task's stream or by its URL
          abPosted,      \* history: how often a response_url was used
          abRaced        \* history: a Send that chose the task overlapped a poll ending it
abVars == <<abChat, abStreams, abQueue, abAnswer, abClosed, abFinished, abCancelled, abAge, abGrace, abPoll,
            abToPublish, abInbound, abOutbox, abSend, abRunning, abShown, abPosted, abRaced>>
abAgent == <<abToPublish, abInbound>>
abClock == <<abAge, abGrace>>
abHistory == <<abShown, abPosted, abRaced>>

AbInit == /\ abChat = [t \in Task |-> "none"] /\ abStreams = {} /\ abQueue = [c \in AbChats |-> <<>>]
          /\ abAnswer = [t \in Task |-> <<>>] /\ abClosed = {} /\ abFinished = {} /\ abCancelled = {}
          /\ abAge = [t \in Task |-> "fresh"] /\ abGrace = {}
          /\ abPoll = [p \in AbPollers |-> IdlePoll]
          /\ abToPublish = {} /\ abInbound = <<>> /\ abOutbox = <<>> /\ abSend = IdleSend
          /\ abRunning = TRUE
          /\ abShown = [t \in Task |-> {}] /\ abPosted = [t \in Task |-> 0] /\ abRaced = {}

(* A queue without the tasks in gone, those that stay in their order: the loops over *)
(* a chat's tasks that keep some of them.                                            *)
Without(q, gone) ==
    LET kept == {i \in DOMAIN q : q[i] \notin gone}
        nth(n) == CHOOSE i \in kept : Cardinality({j \in kept : j <= i}) = n
    IN [n \in 1..Cardinality(kept) |-> q[nth(n)]]

Asked == {t \in Task : abChat[t] # "none"}
Ending(t) == \E p \in AbPollers : abPoll[p].task = t /\ abPoll[p].pc \in {"got", "expired"}

(* handleTextMessage: create the task, queue it, start the publishing goroutine and *)
(* answer the callback like a first poll.                                           *)
HandleText(p) ==
    \E c \in AbChats : LET t == Cardinality(Asked) + 1 IN
        /\ t \in Task /\ abPoll[p].pc = "idle" /\ abRunning
        /\ abChat' = [abChat EXCEPT ![t] = c]
        /\ abStreams' = abStreams \cup {t}
        /\ abQueue' = [abQueue EXCEPT ![c] = Append(@, t)]
        /\ abToPublish' = abToPublish \cup {t}
        /\ abPoll' = [abPoll EXCEPT ![p] = [pc |-> "looked", task |-> t]]
        /\ UNCHANGED <<abAnswer, abClosed, abFinished, abCancelled, abClock, abInbound, abOutbox, abSend,
                       abRunning, abHistory>>

(* handleStreamMessage: the task is looked up under the read lock; an unknown stream *)
(* is answered "not found" and changes nothing.                                      *)
HandleStream(p) ==
    /\ abPoll[p].pc = "idle" /\ abRunning
    /\ \E t \in abStreams : abPoll' = [abPoll EXCEPT ![p] = [pc |-> "looked", task |-> t]]
    /\ UNCHANGED <<abChat, abStreams, abQueue, abAnswer, abClosed, abFinished, abCancelled, abClock, abAgent,
                   abOutbox, abSend, abRunning, abHistory>>

(* getStreamResponse, the select: a waiting answer first, else the deadline, else an *)
(* empty response.                                                                   *)
DeadlineFirst(t) == IF abAge[t] # "fresh" THEN "expired" ELSE IF abAnswer[t] # <<>> THEN "got" ELSE "idle"
Selected(t) == IF abAnswer[t] # <<>> THEN "got" ELSE IF abAge[t] # "fresh" THEN "expired" ELSE "idle"
Select(p) ==
    LET t == abPoll[p].task  pc == Selected(t) IN
        /\ abPoll[p].pc = "looked"
        /\ abPoll' = [abPoll EXCEPT ![p] = IF pc = "idle" THEN IdlePoll ELSE [pc |-> pc, task |-> t]]
        /\ IF pc = "got" THEN /\ abShown' = [abShown EXCEPT ![t] = @ \cup {Head(abAnswer[t])}]
                              /\ abAnswer' = [abAnswer EXCEPT ![t] = <<>>]
                         ELSE UNCHANGED <<abShown, abAnswer>>
        /\ abRaced' = IF pc # "idle" /\ abSend.task = t /\ abSend.pc = "offer" THEN abRaced \cup {t} ELSE abRaced
        /\ UNCHANGED <<abChat, abStreams, abQueue, abClosed, abFinished, abCancelled, abClock, abAgent, abOutbox,
                       abSend, abRunning, abPosted>>

(* removeTask: cancel, mark, and splice out of both tables under the lock. *)
Unqueued(t) == [abQueue EXCEPT ![abChat[t]] = Without(@, {t})]
RemoveTask(t) == /\ abCancelled' = abCancelled \cup {t} /\ abFinished' = abFinished \cup {t}
                 /\ abStreams' = abStreams \ {t} /\ abQueue' = Unqueued(t)

(* getStreamResponse after an answer: the task is done. *)
FinishPoll(p) ==
    /\ abPoll[p].pc = "got" /\ RemoveTask(abPoll[p].task)
    /\ abPoll' = [abPoll EXCEPT ![p] = IdlePoll]
    /\ UNCHANGED <<abChat, abAnswer, abClosed, abClock, abAgent, abOutbox, abSend, abRunning, abHistory>>

(* getStreamResponse past the deadline: close the stream, keep the task for its URL. *)
CloseStream(p) ==
    LET t == abPoll[p].task IN
        /\ abPoll[p].pc = "expired"
        /\ abClosed' = abClosed \cup {t} /\ abStreams' = abStreams \ {t}
        /\ abPoll' = [abPoll EXCEPT ![p] = IdlePoll]
        /\ UNCHANGED <<abChat, abQueue, abAnswer, abFinished, abCancelled, abClock, abAgent, abOutbox, abSend,
                       abRunning, abHistory>>

(* The goroutine of handleTextMessage: PublishInbound under the task's context. *)
PublishQuestion(t) ==
    /\ t \in abToPublish /\ abToPublish' = abToPublish \ {t}
    /\ abInbound' = IF t \in abCancelled THEN abInbound ELSE Append(abInbound, t)
    /\ UNCHANGED <<abChat, abStreams, abQueue, abAnswer, abClosed, abFinished, abCancelled, abClock, abPoll,
                   abOutbox, abSend, abRunning, abHistory>>

(* External: the agent reads the questions in the order of the inbound queue and    *)
(* sends none, one or several messages (tool messages, chunks of a long answer).    *)
AgentReplies ==
    /\ abInbound # <<>> /\ abInbound' = Tail(abInbound)
    /\ \E n \in 0..AbParts : abOutbox' = abOutbox \o [i \in 1..n |-> <<Head(abInbound), i>>]
    /\ UNCHANGED <<abChat, abStreams, abQueue, abAnswer, abClosed, abFinished, abCancelled, abClock, abPoll,
                   abToPublish, abSend, abRunning, abHistory>>

(* Send, the locked part: drop finished heads, take the earliest task and read      *)
(* whether its stream is closed.  Without a task the answer is dropped.             *)
Message == Head(abOutbox)
ChatOf(m) == abChat[m[1]]
Compacted(q) == Without(q, abFinished)    \* only heads are ever finished
Earliest(q) == Head(q)
DropAnswer == abOutbox' = Tail(abOutbox) /\ abSend' = IdleSend
ChooseTask ==
    LET q == Compacted(abQueue[ChatOf(Message)]) IN
        /\ abSend.pc = "idle" /\ abOutbox # <<>>
        /\ IF ~abRunning \/ q = <<>> THEN DropAnswer /\ UNCHANGED <<abQueue, abRaced>>
           ELSE /\ abSend' = [pc |-> IF Earliest(q) \in abClosed THEN "post" ELSE "offer", task |-> Earliest(q)]
                /\ abQueue' = [abQueue EXCEPT ![ChatOf(Message)] = q]
                /\ abRaced' = IF Ending(Earliest(q)) THEN abRaced \cup {Earliest(q)} ELSE abRaced
                /\ UNCHANGED abOutbox
        /\ UNCHANGED <<abChat, abStreams, abAnswer, abClosed, abFinished, abCancelled, abClock, abPoll, abAgent,
                       abRunning, abShown, abPosted>>

(* Send, the select: into the channel, or dropped once the task is cancelled. *)
Room(t) == abAnswer[t] = <<>>
Offer ==
    LET t == abSend.task IN
        /\ abSend.pc = "offer"
        /\ \/ Room(t) /\ abAnswer' = [abAnswer EXCEPT ![t] = Append(@, Message)]
           \/ t \in abCancelled /\ UNCHANGED abAnswer
        /\ DropAnswer
        /\ UNCHANGED <<abChat, abStreams, abQueue, abClosed, abFinished, abCancelled, abClock, abPoll, abAgent,
                       abRunning, abHistory>>

(* sendViaResponseURL: delivered, refused, or there is no URL. *)
SendViaResponseURL ==
    LET t == abSend.task IN
        /\ abSend.pc = "post" /\ abSend' = [abSend EXCEPT !.pc = "posted"]
        /\ abPosted' = [abPosted EXCEPT ![t] = @ + 1]
        /\ \E ok \in BOOLEAN : abShown' = [abShown EXCEPT ![t] = IF ok THEN @ \cup {Message} ELSE @]
        /\ UNCHANGED <<abChat, abStreams, abQueue, abAnswer, abClosed, abFinished, abCancelled, abClock, abPoll,
                       abAgent, abOutbox, abRunning, abRaced>>

(* Send after the post, whatever came of it: the task is done. *)
FinishTask(t) == RemoveTask(t)
FinishPost ==
    /\ abSend.pc = "posted" /\ FinishTask(abSend.task) /\ DropAnswer
    /\ UNCHANGED <<abChat, abAnswer, abClosed, abClock, abPoll, abAgent, abRunning, abHistory>>

(* cleanupOldTasks: open streams past their lifetime, closed ones past their grace,  *)
(* and stranded finished tasks; what is dropped unfinished is cancelled.             *)
Overdue(t) == abAge[t] = "old" \/ t \in abGrace
QueuedTasks == UNION {ToSet(abQueue[c]) : c \in AbChats}
ForgetTasks(gone) == /\ abStreams' = {t \in abStreams : abAge[t] # "old"}
                     /\ abQueue' = [c \in AbChats |-> Without(abQueue[c], gone \cup abFinished)]
ExpireQuietly(gone) == ForgetTasks(gone) /\ UNCHANGED abCancelled
DropOverdue(gone) == ForgetTasks(gone) /\ abCancelled' = abCancelled \cup gone
CleanupOldTasks ==
    LET gone == {t \in QueuedTasks \cup abStreams : Overdue(t)} IN
        /\ abRunning /\ gone \cup (QueuedTasks \cap abFinished) # {}
        /\ DropOverdue(gone)
        /\ UNCHANGED <<abChat, abAnswer, abClosed, abFinished, abClock, abPoll, abAgent, abOutbox, abSend,
                       abRunning, abHistory>>

(* The clock passes a task's deadline, then its lifetime, and a closed stream's grace. *)
TimePasses(t) ==
    /\ t \in Asked
    /\ \/ /\ abAge[t] # "old" /\ UNCHANGED abGrace
          /\ abAge' = [abAge EXCEPT ![t] = IF @ = "fresh" THEN "due" ELSE "old"]
       \/ t \in abClosed \ abGrace /\ abGrace' = abGrace \cup {t} /\ UNCHANGED abAge
    /\ UNCHANGED <<abChat, abStreams, abQueue, abAnswer, abClosed, abFinished, abCancelled, abPoll, abAgent,
                   abOutbox, abSend, abRunning, abHistory>>

(* Stop: the channel's context, the parent of every task's, is cancelled. *)
StopBot == /\ abRunning /\ abRunning' = FALSE /\ abCancelled' = abCancelled \cup Asked
           /\ UNCHANGED <<abChat, abStreams, abQueue, abAnswer, abClosed, abFinished, abClock, abPoll, abAgent,
                          abOutbox, abSend, abHistory>>

AbSendStep == ChooseTask \/ Offer \/ SendViaResponseURL \/ FinishPost
AbNext == \/ \E p \in AbPollers : HandleText(p) \/ HandleStream(p) \/ Select(p) \/ FinishPoll(p) \/ CloseStream(p)
          \/ \E t \in Task : PublishQuestion(t) \/ TimePasses(t)
          \/ AgentReplies \/ AbSendStep \/ CleanupOldTasks \/ StopBot
AbSpec == AbInit /\ [][AbNext]_abVars
(* The worker's goroutine runs, the clean-up ticker keeps ticking and time passes. *)
AbFairSpec == /\ AbSpec /\ WF_abVars(AbSendStep) /\ WF_abVars(CleanupOldTasks)
              /\ \A t \in Task : WF_abVars(TimePasses(t))
---------------------------------------------------------------------------------
(* Type correctness of the channel's tables and of the goroutines around them. *)
AbTypeOK == /\ abChat \in [Task -> AbChats \cup {"none"}] /\ abStreams \subseteq Asked
            /\ \A c \in AbChats : ToSet(abQueue[c]) \subseteq Asked /\ IsInjective(abQueue[c])
            /\ \A t \in Task : Len(abAnswer[t]) <= 1 /\ ToSet(abAnswer[t]) \subseteq Answer
            /\ (abClosed \cup abFinished \cup abCancelled \cup abGrace \cup abToPublish) \subseteq Asked
            /\ abAge \in [Task -> {"fresh", "due", "old"}] /\ abGrace \subseteq abClosed
            /\ \A p \in AbPollers : abPoll[p].pc \in {"idle", "looked", "got", "expired"}
            /\ abSend.pc \in {"idle", "offer", "post", "posted"} /\ (abSend.pc = "idle" <=> abSend.task = NoTask)
            /\ abShown \in [Task -> SUBSET Answer]

(* The two tables agree whatever polls, Send and clean-up do to them: an open stream *)
(* is queued in its chat, a queued task is unfinished (what the clean-up's warning   *)
(* calls "this should not happen"), and a closed stream can no longer be polled.     *)
TablesAgree == /\ \A t \in abStreams : t \in ToSet(abQueue[abChat[t]]) /\ t \notin abClosed
               /\ \A c \in AbChats : \A t \in ToSet(abQueue[c]) : abChat[t] = c /\ t \notin abFinished

(* A response_url "can only be used once": no interleaving of Send with polls and    *)
(* clean-up posts to the same task's URL twice.                                      *)
ResponseUrlOnce == \A t \in Task : abPosted[t] <= 1

(* An answer is left in the channel of a task nobody can poll any more only when the *)
(* Send that chose the task overlapped the poll that ended it, or the task was       *)
(* cancelled with the answer still unread: never by a poll that saw the answer.      *)
StrandedOnlyByOverlap ==
    \A t \in Asked \ abStreams : abAnswer[t] # <<>> => t \in abRaced \cup abCancelled

(* Answers are shown in turn: one that reaches the stream of a later question of its *)
(* chat does so only after its own task was answered or dropped, and none crosses    *)
(* into another chat.                                                                *)
AnswersInTurn == \A t \in Task : \A m \in abShown[t] :
                     /\ abChat[m[1]] = abChat[t]
                     /\ m[1] < t => m[1] \notin ToSet(abQueue[abChat[t]])

(* Send, which waits for room in a task's channel with no timeout of its own and     *)
(* blocks every other answer of the channel meanwhile, does return in the end: the   *)
(* clean-up cancels the task it waits on.                                            *)
SendReturns == abSend.pc # "idle" ~> abSend.pc = "idle"

(* The tables of a bot agree, a response_url is used once, the oldest question  *)
(* is answered first, and an answer is stranded only where Send overlapped the  *)
(* end of its task (aibot.go).                                                  *)
AnswersSafe ==
    /\ AbTypeOK
    /\ TablesAgree
    /\ ResponseUrlOnce
    /\ StrandedOnlyByOverlap
    /\ AnswersInTurn
==================================================================================
