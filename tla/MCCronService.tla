------------------------------- MODULE MCCronService -------------------------------
(* Small instances of what the processes of one machine write over one another: the *)
(* jobs, a one-time job, a recurring one, which the command line may add too, and   *)
(* one whose schedule is ill-formed, and the credentials.  Every behaviour drives   *)
(* one of them, which "part" names, and leaves the other as it began.               *)
EXTENDS CronService, Credentials

CONSTANTS at, every, wrong
VARIABLE part  \* the component this behaviour drives

MCAuJobs ==
    << <<"login", "web", "openai">>, <<"login", "cli", "openai">>, <<"login", "web", "google-antigravity">>,
       <<"login", "cli", "antigravity">>, <<"login", "cli", "anthropic">>, <<"logout", "cli", "openai">>,
       <<"logout", "web", "antigravity">>, <<"logout_all", "web", "all">>, <<"use", "loop", "openai">>,
       <<"use", "loop", "google-antigravity">>, <<"models", "cli", "google-antigravity">> >>
MCAuJob(id, x) == [id |-> id, does |-> x[1], via |-> x[2], provider |-> x[3]]
MCAuGoogle == {"google-antigravity", "antigravity"}
MCAuMeet(p, q) == p = q \/ {p, q} \subseteq MCAuGoogle \/ {p, q} \cap {"anthropic", "all"} # {}
MCAuPlans ==
    {{}} \cup
    {{MCAuJob(2, MCAuJobs[w[1]]), MCAuJob(3, MCAuJobs[w[2]])} :
        w \in {v \in (DOMAIN MCAuJobs) \X (DOMAIN MCAuJobs) :
                  v[1] <= v[2] /\ MCAuMeet(MCAuJobs[v[1]][3], MCAuJobs[v[2]][3])}}



Parts == {"cron", "credentials"}
SumInit ==
    /\ part \in Parts
    /\ Init /\ (part # "cron" => fresh = Jobs \ IllJobs)
    /\ AuInit /\ (part # "credentials" => auPlan = {} /\ ~auRotates /\ auConfig["openai"] = "")
SumNext ==
    /\ UNCHANGED part
    /\ \/ part = "cron" /\ Next /\ UNCHANGED <<auVars>>
       \/ part = "credentials" /\ AuNext /\ UNCHANGED <<vars>>
sumVars == <<part, vars, auVars>>
SumSpec == SumInit /\ [][SumNext]_sumVars

(* The fairness of each component, asked for in the behaviours that drive it. *)
SumFairSpec ==
    /\ SumSpec
    /\ WF_vars(part = "cron" /\ Tick)
    /\ WF_vars(part = "cron" /\ CheckJobs)
    /\ WF_vars(part = "cron" /\ (\E j \in Jobs : Begin(j)))
====================================================================================
