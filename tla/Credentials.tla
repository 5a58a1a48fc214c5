------------------------------- MODULE Credentials -------------------------------
(* The credentials of the model providers: auth.json (pkg/auth/store.go), the logins  *)
(* and logouts of the command line (cmd/ottoclaw/internal/auth) and of the launcher's *)
(* pages (cmd/ottoclaw-launcher/internal/server), the tokens that requests refresh    *)
(* (createAntigravityTokenSource, createCodexTokenSource), and the auth methods that  *)
(* config.json repeats.  Both files are read and replaced as a whole, by any number   *)
(* of processes, without a lock.                                                      *)
EXTENDS Naturals, Sequences, FiniteSets

CONSTANTS AuPlans,      \* sets of jobs; a job is [id, does, via, provider], ids from 2 on
          AuFailures,   \* bound: reads, writes and refreshes that fail
          AuLapses      \* bound: tokens that grow old

Providers == {"openai", "anthropic", "google-antigravity"}
AuJobs == [id : Nat \ {0, 1}, does : {"login", "logout", "logout_all", "use", "models"},
           via : {"web", "cli", "loop"}, provider : Providers \cup {"antigravity", "all"}]
(* The jobs of a plan have identifiers of their own, and only the logout from all     *)
(* providers names none.                                                              *)
ASSUME AuAssumption ==
    \A plan \in AuPlans : /\ plan \subseteq AuJobs /\ \A i, j \in plan : i.id = j.id => i = j
                          /\ \A j \in plan : (j.does = "logout_all") <=> (j.provider = "all")

VARIABLES auPlan,     \* the jobs of this behaviour
          auRotates,  \* whether a refresh token can be used once only
          auFile,     \* auth.json: provider -> credential
          auConfig,   \* config.json: provider -> "", "oauth", "token"
          auJob,      \* job -> [pc, cred, store, config, lenient, said]
          auSerial,   \* tokens issued so far
          auValid,    \* refresh tokens the provider accepts
          auAge,      \* token -> 0 fresh, 1 to be refreshed, 2 expired
          auDevice,   \* activeDeviceSession: its job, 0 for none
          auDone,     \* device sessions that are done
          auShown,    \* history: those whose end /api/auth/status has shown
          auStates,   \* oauthSessions: jobs whose state is in the table
          auStarted,  \* history: the jobs in the order they began
          auOver,     \* history: pairs of jobs that ran at the same time
          auAsked,    \* history: pairs of device logins that asked for a code at the same time
          auFails     \* failures so far
auVars == <<auPlan, auRotates, auFile, auConfig, auJob, auSerial, auValid, auAge, auDevice, auDone, auShown,
            auStates, auStarted, auOver, auAsked, auFails>>
auTokens == <<auSerial, auValid, auAge>>
auSessions == <<auDevice, auDone, auShown, auStates, auAsked>>
auFixed == <<auPlan, auRotates, auStarted, auOver>>

(* login: the job that logged in, 1 for an earlier one; refresh: its refresh token.   *)
Credential(login, token, refresh, project) == [login |-> login, token |-> token, refresh |-> refresh, project |-> project]
NoCred == Credential(0, 0, 0, FALSE)
Method(p) == IF p = "anthropic" THEN "token" ELSE "oauth"
Google(j) == j.provider \in {"google-antigravity", "antigravity"}
(* The entry a job reads and writes: a login by the alias writes the full name's, a   *)
(* logout by the alias deletes the alias's, which is never there.                     *)
Entry(j) == IF j.does # "logout" /\ Google(j) THEN "google-antigravity" ELSE j.provider
MethodEntry(j) == IF Google(j) THEN "google-antigravity" ELSE j.provider

(* The token an earlier login of a provider has left, 0 for none. *)
FirstToken(p) == CASE p = "openai" -> 1 [] p = "google-antigravity" -> 2 [] OTHER -> 0
AuInit == \E plan \in AuPlans, rotates, before, project \in BOOLEAN :
    /\ project => before
    /\ auPlan = plan /\ auRotates = rotates
    /\ auFile = [p \in Providers |-> IF ~before THEN NoCred
                                     ELSE Credential(1, FirstToken(p), FirstToken(p), project /\ FirstToken(p) = 2)]
    /\ auConfig = [p \in Providers |-> IF before THEN Method(p) ELSE ""]
    /\ auJob = [j \in plan |-> [pc |-> "new", cred |-> NoCred, store |-> <<>>, config |-> <<>>, lenient |-> FALSE,
                                said |-> "nothing"]]
    /\ auSerial = 2 /\ auValid = {1, 2} /\ auAge = [n \in 1..2 |-> 0]
    /\ auDevice = 0 /\ auDone = {} /\ auShown = {} /\ auStates = {}
    /\ auStarted = <<>> /\ auOver = {} /\ auAsked = {} /\ auFails = 0

----------------------------------------------------------------------------------
At(j, pc) == j \in auPlan /\ auJob[j].pc = pc
Goes(j, pc) == auJob' = [auJob EXCEPT ![j].pc = pc]
Holds(j, pc, cred) == auJob' = [auJob EXCEPT ![j] = [auJob[j] EXCEPT !.pc = pc, !.cred = cred]]
Ends(j, said) ==
    auJob' = [auJob EXCEPT ![j] = [pc |-> "ended", cred |-> NoCred, store |-> <<>>, config |-> <<>>,
                                   lenient |-> auJob[j].lenient, said |-> said]]
Fails == auFails < AuFailures /\ auFails' = auFails + 1
Active == {j \in auPlan : auJob[j].pc \notin {"new", "ended"}}
Starts(j) ==
    /\ At(j, "new") /\ auStarted' = Append(auStarted, j.id)
    /\ auOver' = auOver \cup {{i.id, j.id} : i \in Active}
    /\ UNCHANGED <<auPlan, auRotates>>

(* A login begins: a pasted token is stored as it is; a device login of the launcher  *)
(* is refused while another goes on (handleOpenAILogin), and the launcher's browser   *)
(* login puts its state into the table (handleGoogleAntigravityLogin).                *)
Device(j) == j.does = "login" /\ j.via = "web" /\ j.provider = "openai"
Browser(j) == j.does = "login" /\ j.via = "web" /\ Google(j)
Pending == auDevice # 0 /\ auDevice \notin auDone
PasteToken(j) ==
    /\ j.does = "login" /\ j.provider = "anthropic" /\ Starts(j) /\ Holds(j, "load", Credential(j.id, 0, 0, FALSE))
    /\ UNCHANGED <<auFile, auConfig, auTokens, auSessions, auFails>>
BeginLogin(j) ==
    /\ j.does = "login" /\ j.provider # "anthropic" /\ Starts(j)
    /\ IF Device(j) /\ Pending THEN Ends(j, "pending") /\ UNCHANGED auAsked
       ELSE /\ Goes(j, IF Device(j) THEN "request" ELSE "user")
            /\ auAsked' = auAsked \cup {{i.id, j.id} : i \in {k \in auPlan : Device(j) /\ At(k, "request")}}
    /\ auStates' = auStates \cup (IF Browser(j) THEN {j.id} ELSE {})
    /\ UNCHANGED <<auFile, auConfig, auTokens, auDevice, auDone, auShown, auFails>>
RequestDeviceCode(j) ==
    /\ At(j, "request")
    /\ \/ Ends(j, "error") /\ UNCHANGED auDevice
       \/ auDevice' = j.id /\ Goes(j, "user")
    /\ UNCHANGED <<auFixed, auFile, auConfig, auTokens, auDone, auShown, auStates, auAsked, auFails>>

(* The user agrees and the code is exchanged for tokens, with or without one to       *)
(* refresh them; or time is up, the code cannot be exchanged, or the user declines.   *)
NewToken == /\ auSerial' = auSerial + 1
            /\ auAge' = [n \in 1..auSerial + 1 |-> IF n = auSerial + 1 THEN 0 ELSE auAge[n]]
Issue == NewToken /\ auValid' = auValid \cup {auSerial + 1}
EndSession(j) == auDone' = auDone \cup (IF Device(j) THEN {j.id} ELSE {})
ExchangeCodeForTokens(j) ==
    /\ At(j, "user") /\ (Browser(j) => j.id \in auStates) /\ auStates' = auStates \ {j.id}
    /\ Issue /\ \E refresh \in {auSerial + 1, 0} :
           Holds(j, IF Google(j) THEN "project" ELSE "load", Credential(j.id, auSerial + 1, refresh, FALSE))
    /\ UNCHANGED <<auFixed, auFile, auConfig, auDevice, auDone, auShown, auAsked, auFails>>
LoginFails(j) ==
    /\ At(j, "user") /\ Ends(j, "error") /\ EndSession(j) /\ auStates' = auStates \ {j.id}
    /\ UNCHANGED <<auFixed, auFile, auConfig, auTokens, auDevice, auShown, auAsked, auFails>>

(* What follows a token source's credential: it may have expired, and its project may *)
(* be unknown; "models" wants the project and does not look at the expiry.            *)
UseOf(j, cred) ==
    IF j.does = "models" THEN IF cred.project THEN Ends(j, "ok") ELSE Ends(j, "error")
    ELSE IF Google(j) /\ auAge[cred.token] = 2 THEN Ends(j, "error")
    ELSE IF Google(j) /\ ~cred.project THEN Holds(j, "project", cred)
    ELSE Ends(j, "ok")
FetchProjectID(j) ==
    /\ At(j, "project")
    /\ \/ auJob' = [auJob EXCEPT ![j] = [auJob[j] EXCEPT !.pc = "load",
                                                        !.cred = [auJob[j].cred EXCEPT !.project = TRUE],
                                                        !.lenient = (j.does = "use")]]
       \/ IF j.does = "login" THEN Goes(j, "load") ELSE Ends(j, "ok")
    /\ UNCHANGED <<auFixed, auFile, auConfig, auTokens, auSessions, auFails>>

(* A request's token, GetCredential: an old one is refreshed if it can be.            *)
GetCredential(j) ==
    /\ j.does \in {"use", "models"} /\ Starts(j)
    /\ LET cred == auFile[Entry(j)] IN
       CASE cred = NoCred -> Ends(j, "error")
         [] cred # NoCred /\ cred.refresh # 0 /\ auAge[cred.token] > 0 -> Holds(j, "refresh", cred)
         [] OTHER -> IF cred.token = 0 THEN Ends(j, "ok") ELSE UseOf(j, cred)
    /\ UNCHANGED <<auFile, auConfig, auTokens, auSessions, auFails>>
Refused(j) == IF j.does = "models" THEN UseOf(j, auJob[j].cred) ELSE Ends(j, "error")
(* Fault: the refreshed credential is made afresh. *)
RefreshAfresh(cred) == Credential(cred.login, auSerial + 1, IF auRotates THEN auSerial + 1 ELSE cred.refresh, FALSE)
Refreshed(cred) ==
    [cred EXCEPT !.token = auSerial + 1, !.refresh = IF auRotates THEN auSerial + 1 ELSE @]
RefreshAccessToken(j) ==
    /\ At(j, "refresh")
    /\ LET old == auJob[j].cred IN
       \/ /\ old.refresh \in auValid /\ NewToken
          /\ auValid' = IF auRotates THEN (auValid \ {old.refresh}) \cup {auSerial + 1} ELSE auValid
          /\ \/ Holds(j, "load", Refreshed(old)) /\ UNCHANGED auFails
             \/ Refused(j) /\ Fails
       \/ /\ old.refresh \notin auValid /\ Refused(j) /\ UNCHANGED <<auTokens, auFails>>
    /\ UNCHANGED <<auFixed, auFile, auConfig, auSessions>>

(* SetCredential and DeleteCredential: LoadStore, and SaveStore of the whole.         *)
NotStored(j) ==
    /\ EndSession(j)
    /\ IF j.does = "models" THEN UseOf(j, auJob[j].cred) ELSE Ends(j, IF auJob[j].lenient THEN "ok" ELSE "error")
LoadStore(j) ==
    /\ IF j.does = "logout" THEN Starts(j) ELSE At(j, "load") /\ UNCHANGED auFixed
    /\ \/ /\ auJob' = [auJob EXCEPT ![j] = [auJob[j] EXCEPT !.pc = "save", !.store = auFile]]
          /\ UNCHANGED <<auDone, auFails>>
       \/ NotStored(j) /\ Fails
    /\ UNCHANGED <<auFile, auConfig, auTokens, auDevice, auShown, auStates, auAsked>>
Written(j) == [p \in Providers |-> IF p # Entry(j) THEN auJob[j].store[p]
                                   ELSE IF j.does = "logout" THEN NoCred ELSE auJob[j].cred]
SaveStore(j) ==
    /\ At(j, "save")
    /\ \/ /\ auFile' = Written(j) /\ UNCHANGED <<auDone, auFails>>
          /\ IF j.does \in {"login", "logout"} THEN Goes(j, "config") ELSE UseOf(j, auJob[j].cred)
       \/ NotStored(j) /\ Fails /\ UNCHANGED auFile
    /\ UNCHANGED <<auFixed, auConfig, auTokens, auDevice, auShown, auStates, auAsked>>
DeleteAllCredentials(j) ==
    /\ j.does = "logout_all" /\ Starts(j)
    /\ auFile' = [p \in Providers |-> NoCred] /\ Goes(j, "config")
    /\ UNCHANGED <<auConfig, auTokens, auSessions, auFails>>

(* config.json follows, and a failure to read it is nobody's error; one to write it   *)
(* is the command line's openai and anthropic logins'.                                *)
Told(j) == IF j.does = "login" /\ j.via = "cli" /\ ~Google(j) THEN "error" ELSE "ok"
LoadConfig(j) ==
    /\ At(j, "config")
    /\ \/ /\ auJob' = [auJob EXCEPT ![j] = [auJob[j] EXCEPT !.pc = "saveconfig", !.config = auConfig]]
          /\ UNCHANGED <<auDone, auFails>>
       \/ Ends(j, "ok") /\ EndSession(j) /\ Fails
    /\ UNCHANGED <<auFixed, auFile, auConfig, auTokens, auDevice, auShown, auStates, auAsked>>
SaveConfig(j) ==
    /\ At(j, "saveconfig") /\ EndSession(j)
    /\ \/ /\ auConfig' = [p \in Providers |-> IF j.does # "logout_all" /\ p # MethodEntry(j) THEN auJob[j].config[p]
                                              ELSE IF j.does = "login" THEN Method(p) ELSE ""]
          /\ Ends(j, "ok") /\ UNCHANGED auFails
       \/ Ends(j, Told(j)) /\ Fails /\ UNCHANGED auConfig
    /\ UNCHANGED <<auFixed, auFile, auTokens, auDevice, auShown, auStates, auAsked>>

(* /api/auth/status shows the device login and drops it when it is done.              *)
Status ==
    /\ auDevice \in auDone /\ auShown' = auShown \cup {auDevice} /\ auDevice' = 0
    /\ UNCHANGED <<auFixed, auFile, auConfig, auJob, auTokens, auDone, auStates, auAsked, auFails>>
(* A stored token grows old; only a job that has yet to read it can tell.             *)
TimePasses(n) ==
    /\ \E j \in auPlan : j.does \in {"use", "models"} /\ At(j, "new") /\ auFile[Entry(j)].token = n
    /\ auAge[n] = 0 /\ Cardinality({m \in DOMAIN auAge : auAge[m] > 0}) < AuLapses
    /\ \E age \in {1, 2} : auAge' = [auAge EXCEPT ![n] = age]
    /\ UNCHANGED <<auFixed, auFile, auConfig, auJob, auSerial, auValid, auSessions, auFails>>

AuJobStep(j) == \/ PasteToken(j) \/ BeginLogin(j) \/ RequestDeviceCode(j) \/ ExchangeCodeForTokens(j) \/ LoginFails(j)
                \/ FetchProjectID(j) \/ GetCredential(j) \/ RefreshAccessToken(j) \/ LoadStore(j) \/ SaveStore(j)
                \/ DeleteAllCredentials(j) \/ LoadConfig(j) \/ SaveConfig(j)
AuNext == \/ \E j \in auPlan : AuJobStep(j)
          \/ Status \/ \E n \in 1..auSerial : TimePasses(n)
AuSpec == AuInit /\ [][AuNext]_auVars

----------------------------------------------------------------------------------
AuTypeOK ==
    /\ auSerial \in Nat /\ DOMAIN auAge = 1..auSerial /\ auValid \subseteq 1..auSerial
    /\ auDone \subseteq {j.id : j \in auPlan}
    /\ \A j \in auPlan : auJob[j].said \in {"nothing", "ok", "error", "pending"}
    /\ \A p \in Providers : auFile[p].token <= auSerial /\ auConfig[p] \in {"", Method(p)}

Writes(j) == auJob[j].pc # "new" /\ ~(auJob[j].said = "pending")
Overlapped(j) == \E k \in auPlan : {j.id, k.id} \in auOver /\ k # j /\ Writes(k)
Later(j) == {k \in auPlan : \E m, n \in DOMAIN auStarted : m < n /\ auStarted[m] = j.id /\ auStarted[n] = k.id}

(* A login that was reported as done stays stored, and a logout stays a logout, until *)
(* the next login or logout of the provider, unless another job ran at the same time  *)
(* (SetCredential, DeleteCredential); a logout by the alias deletes nothing           *)
(* (authLogoutCmd).                                                                   *)
LoginStands ==
    \A j \in auPlan : j.does = "login" /\ auJob[j].said = "ok" =>
        \/ auFile[Entry(j)].login = j.id
        \/ Overlapped(j) \/ \E k \in Later(j) : k.does = "logout_all" \/ (k.does # "use" /\ Entry(k) = Entry(j))
LogoutStands ==
    \A j \in auPlan : j.does \in {"logout", "logout_all"} /\ auJob[j].said = "ok" =>
        \A p \in Providers : (j.does = "logout" => p = Entry(j)) =>
            \/ auFile[p] = NoCred
            \/ Overlapped(j) \/ \E k \in Later(j) : k.does = "login" /\ Entry(k) = p

(* The provider still takes the refresh token that is stored, unless it was used up   *)
(* by a job that has yet to store its successor, that failed to, or that ran beside   *)
(* another (createCodexTokenSource).                                                  *)
TokenUsable ==
    \A p \in Providers : auFile[p].refresh \in auValid \cup {0}
        \/ auFails > 0 \/ (\E j \in Active : auJob[j].pc \in {"load", "save"}) \/ auOver # {}

(* A refreshed credential is still that of its login, project included, and a login   *)
(* keeps the project once it is stored.                                               *)
ProjectKept ==
    \A j \in auPlan : j.does \in {"use", "models"} /\ auJob[j].pc \in {"load", "save"} /\ ~Overlapped(j) =>
        /\ auJob[j].cred.login = auFile[Entry(j)].login
        /\ auFile[Entry(j)].project => auJob[j].cred.project

(* When every job has ended, config.json names a method for the providers that are    *)
(* logged in, unless something failed, jobs overlapped, or a logout used the alias.   *)
MethodsAgree ==
    Active = {} /\ auFails = 0 /\ auOver = {} /\ (\A j \in auPlan : j.does = "logout" => j.provider # "antigravity") =>
        \A p \in Providers : auConfig[p] = (IF auFile[p] = NoCred THEN "" ELSE Method(p))

(* Two device logins are polled for at a time only when one of them had asked for its *)
(* code at once with another, which took its place as the session, and the end of one *)
(* is shown unless another took its place.                                            *)
Polled == {j \in Active : Device(j) /\ auJob[j].pc # "request"}
Replaced(i) == \E k \in auPlan : k # i /\ Device(k) /\ {i.id, k.id} \in auAsked
OneDeviceLogin ==
    /\ \A i, j \in Polled : i # j => Replaced(i) \/ Replaced(j)
    /\ \A j \in auDone : j = auDevice \/ j \in auShown
           \/ \E k \in auPlan : Device(k) /\ k.id # j /\ auJob[k].pc # "new" /\ auJob[k].said # "pending"

CredentialsSafe == AuTypeOK /\ LoginStands /\ LogoutStands /\ TokenUsable /\ ProjectKept /\ MethodsAgree /\ OneDeviceLogin
==================================================================================
