------------------------------- MODULE ToolProfiles -------------------------------
(* What each tool of a worker does (pkg/tools): the steps a call takes outside the    *)
(* agent, in order, and what the tool makes of a step that goes wrong.  A tool with   *)
(* several actions has one sequence for each.  Arguments, texts and formats are left  *)
(* out; a call whose arguments are rejected takes no step.                            *)
EXTENDS Naturals, Sequences

(* A step.  on: what it touches, changes: whether it changes it.  checks: whether the *)
(* tool looks at the status a service or process answers with.  onError: the call     *)
(* "ends" with an error, goes on as if nothing had happened ("ignored"), or tries the *)
(* next step instead ("else").                                                        *)
Ask == [on |-> "outside", changes |-> FALSE, checks |-> TRUE, onError |-> "ends"]
Tell == [Ask EXCEPT !.changes = TRUE]
Blind(step) == [step EXCEPT !.checks = FALSE]
Careless(step) == [step EXCEPT !.onError = "ignored"]
OrElse(step) == [step EXCEPT !.onError = "else"]
On(thing, step) == [step EXCEPT !.on = thing]

(* siamClient's get on the one hand, its post, put and delete on the other: an answer *)
(* with an error status is passed on as the result.                                   *)
Get == Blind(Ask)
Post == Blind(Tell)

(* siam.go, approval.go: the tools that ask the master.  Reading an agent's messages  *)
(* takes them out of its queue.  send_message may first copy its text to a Telegram   *)
(* group; update_and_deploy is a PUT and then a POST.                                 *)
DelegateMission == {<<Post>>}
StoreMemory == {<<Post>>}
SearchMemory == {<<Get>>}
GetMetrics == {<<Get>>}
GetAgents == {<<Get>>}
SpawnAgent == {<<Post>>}
CatalogAgent == {<<Get>>, <<Post>>}
TerminateAgent == {<<Post>>}
GetSkills == {<<Get>>}
GetAgentSkills == {<<Get>>}
Scale == {<<Post>>}
GetJobs == {<<Get>>}
SubmitJob == {<<Post>>}
RunCommand == {<<Post>>}
Claim == On("flag", Ask)
Raise == On("flag", Tell)
SendMessage == {<<Claim, Raise, Post>>, <<Claim, Raise, Careless(Blind(Tell)), Post>>}
FindAgents == {<<Get>>}
GetMessages == {<<Post>>}
GetNodes == {<<Get>>}
PromoteAgent == {<<Post>>}
PromotionRitual == {<<Post>>}
BroadcastUpdate == {<<Post>>}
OpenBrowser == {<<Post>>}
Forge == {<<Get>>, <<Post>>}
UpdateSoul == {<<Get>>, <<On("soul", Post)>>, <<On("deployed", Post)>>,
               <<On("soul", Post), On("deployed", Post)>>}
Ritual == {<<Get>>, <<Post>>}
SelfImprove == {<<Get>>, <<Post>>}
RequestApprovalTool == {<<Post>>}
GetMission == {<<Get>>}

(* The tools that call the master themselves and look at the status, but for the      *)
(* daily ritual.  claude_code polls its task and gives up after three minutes without *)
(* an error.                                                                          *)
Negotiate == {<<Tell>>}
CastVote == {<<Tell>>}
Learn == {<<Tell>>}
Recall == {<<Ask>>}
BroadcastBridge == {<<Tell>>}
BIReport == {<<Tell>>}
DailyRitual == {<<Post>>}
ClaudeCode == {<<Tell, Ask>>, <<Tell>>}
TokenStatus == {<<Ask>>}
FinOpsReport == {<<Ask>>}

(* Google, Facebook and Telegram.  The approval tool reads Telegram's updates, which  *)
(* takes them from the channel that polls them too; a photo is written whatever the   *)
(* status of its download.                                                            *)
SendEmail == {<<Tell>>}
ReadEmails == {<<Ask>>}
ListCalendar == {<<Ask>>}
CreateCalendarEvent == {<<Tell>>}
DriveUpload == {<<Ask, Ask, Tell>>}
DriveSearch == {<<Ask, Ask>>}
DriveDownload == {<<Ask, Ask, Tell>>}
SaveSession == {<<Tell>>}
FacebookPost == {<<Ask, Tell>>}
TelegramSendFile == {<<Ask, Tell>>}
TelegramDownload == {<<Ask, Ask, Blind(Ask), Tell>>}
TelegramApproval == {<<Careless(Blind(Ask)), Tell, Tell>>}

(* The web: one search provider is chosen, and only DuckDuckGo's status is not looked *)
(* at; a fetched page is passed on with its status.                                   *)
BraveSearch == {<<Ask>>}
TavilySearch == {<<Ask>>}
DuckDuckGoSearch == {<<Blind(Ask)>>}
PerplexitySearch == {<<Ask>>}
GLMSearch == {<<Ask>>}
WebSearch == BraveSearch \cup TavilySearch \cup DuckDuckGoSearch \cup PerplexitySearch \cup GLMSearch
WebFetch == {<<Blind(Ask)>>}

(* Files of the workspace, commands, skills and scripts.  edit_file and append_file   *)
(* read a file and write it back; writing replaces it in one step.  An installation   *)
(* by force removes the skill first, and its note of origin may fail unseen.          *)
ReadFile == {<<On("file", Ask)>>}
WriteFile == {<<On("file", Tell)>>}
ListDir == {<<Ask>>}
EditFile == {<<On("file", Ask), On("file", Tell)>>}
AppendFile == {<<On("file", Ask), On("file", Tell)>>}
Exec == {<<Tell>>}
FindSkills == {<<Ask>>}
InstallSkill == {<<Ask, Tell, Careless(Tell)>>, <<Careless(Tell), Tell, Careless(Tell)>>}
DynamicScript == {<<Tell, Tell>>}
CallMCPTool == {<<Tell>>}
Message == {<<Tell>>}

(* Devices and processes.  rish, termux-api: what a process printed is the result     *)
(* even if it failed; a screen capture is two commands, the focused window has a      *)
(* second source; a video is asked of one server, then of ffmpeg.                     *)
DetectMotion == {<<Tell, Tell>>}
ReadBattery == {<<OrElse(Ask), OrElse(Ask), Ask>>}
ReadThermal == {<<OrElse(Ask), Ask>>}
ToggleGpio == {<<Tell>>}
IoTToolbox == ReadBattery \cup ReadThermal \cup ToggleGpio
RishCommand == {<<Blind(Tell)>>}
RishScreencap == {<<Blind(Tell), Careless(Ask)>>}
RishFocus == {<<OrElse(Blind(Ask)), Blind(Ask)>>}
Rish == RishCommand \cup RishScreencap \cup RishFocus
TermuxAPI == {<<Tell>>, <<Careless(Tell), Tell>>}
TermuxRich == {<<Ask>>}
BrowserLaunch == {<<Tell>>}
DesktopBrowser == {<<Tell, Tell>>}
I2CScan == {<<Ask, Ask>>}
I2CRead == {<<Ask, Ask, Ask>>, <<Ask, Ask, Tell, Ask>>}
I2CWrite == {<<Ask, Ask, Tell>>}
SPITransfer == {<<Ask, Tell>>}
SPIRead == {<<Ask, Ask>>}

(* spawn starts a sub-agent in the background: its result is asynchronous. *)
SpawnTool == {<<Tell>>}

(* The tools by their names. *)
Actions == [
    siam_delegate_mission |-> DelegateMission, siam_store_memory |-> StoreMemory,
    siam_search_memory |-> SearchMemory, siam_get_metrics |-> GetMetrics, siam_get_agents |-> GetAgents,
    siam_spawn_agent |-> SpawnAgent, siam_catalog_agent |-> CatalogAgent, siam_terminate_agent |-> TerminateAgent,
    siam_get_skills |-> GetSkills, siam_get_agent_skills |-> GetAgentSkills, siam_scale |-> Scale,
    siam_get_jobs |-> GetJobs, siam_submit_job |-> SubmitJob, siam_run_command |-> RunCommand,
    siam_send_message |-> SendMessage, siam_find_agents |-> FindAgents, siam_get_messages |-> GetMessages,
    siam_get_nodes |-> GetNodes, siam_promote_agent |-> PromoteAgent, siam_promotion_ritual |-> PromotionRitual,
    siam_broadcast_update |-> BroadcastUpdate, siam_open_browser |-> OpenBrowser, siam_forge |-> Forge,
    siam_update_soul |-> UpdateSoul, siam_ritual |-> Ritual, siam_self_improve |-> SelfImprove,
    siam_request_approval |-> RequestApprovalTool, siam_get_mission |-> GetMission,
    siam_negotiate |-> Negotiate, siam_cast_vote |-> CastVote, siam_learn |-> Learn, siam_recall |-> Recall,
    siam_broadcast |-> BroadcastBridge, siam_bi_report |-> BIReport, siam_daily_ritual |-> DailyRitual,
    siam_claude_code |-> ClaudeCode, siam_token_status |-> TokenStatus, siam_finops_report |-> FinOpsReport,
    siam_send_email |-> SendEmail, siam_read_emails |-> ReadEmails, siam_list_calendar |-> ListCalendar,
    siam_create_calendar_event |-> CreateCalendarEvent, siam_drive_upload |-> DriveUpload,
    siam_drive_search |-> DriveSearch, siam_drive_download |-> DriveDownload,
    facebook |-> SaveSession \cup FacebookPost, telegram_send_file |-> TelegramSendFile,
    telegram_download_latest_photo |-> TelegramDownload, telegram_request_approval |-> TelegramApproval,
    web_search |-> WebSearch, web_fetch |-> WebFetch, read_file |-> ReadFile, write_file |-> WriteFile,
    list_dir |-> ListDir, edit_file |-> EditFile, append_file |-> AppendFile, exec |-> Exec,
    find_skills |-> FindSkills, install_skill |-> InstallSkill, script |-> DynamicScript, mcp |-> CallMCPTool,
    message |-> Message, detect_motion |-> DetectMotion, siam_iot |-> IoTToolbox, android_rish |-> Rish,
    termux_api |-> TermuxAPI, termux_rich |-> TermuxRich, open_browser |-> BrowserLaunch,
    desktop_browser |-> DesktopBrowser, i2c |-> I2CScan \cup I2CRead \cup I2CWrite,
    spi |-> SPITransfer \cup SPIRead, spawn |-> SpawnTool]
===================================================================================
