------------------------------ MODULE Fallback ------------------------------
(***************************************************************************)
(* The provider fallback chain (pkg/providers/fallback.go) and the         *)
(* cooldowns it shares between requests (cooldown.go).  A request walks    *)
(* through the candidates: it asks whether the provider is available,      *)
(* calls the model without any lock, and records the result.  Time is in   *)
(* minutes; an entry holds what is left of its cooldowns and the age of    *)
(* its last failure instead of instants.                                   *)
(***************************************************************************)
EXTENDS Naturals, Sequences, SequencesExt

CONSTANTS
    FbModels,       \* the configured models, a sequence of [provider, model]
    FbRequests,     \* requests that may be under way at once
    FbErrors,       \* errors a call may end with, [status, says]
    FbTimes,        \* bound: the lapses of time, in minutes
    FbMaxRequests,  \* bound: requests made
    FbMaxLapses     \* bound: lapses of time

VARIABLES
    fbRequest,  \* request -> [pc, at, tried, skipped, reason, fresh, outcome]
    fbEntry,    \* CooldownTracker.entries: provider -> [errors, billing, cool, off, age]
    fbMade,     \* requests made so far
    fbLapses    \* lapses of time so far

fbVars == <<fbRequest, fbEntry, fbMade, fbLapses>>

FbProviders == {m.provider : m \in ToSet(FbModels)}

FbLeast(a, b) == IF a < b THEN a ELSE b

(* Subtraction that ends at zero. *)
FbLess(a, b) == IF a < b THEN 0 ELSE a - b

(* ResolveCandidates: the primary and the fallbacks, each model once. *)
Candidates ==
    FoldLeft(LAMBDA seen, m : IF m \in ToSet(seen) THEN seen ELSE Append(seen, m), <<>>, FbModels)

---------------------------------------------------------------------------
(* ClassifyError: a status that is known decides, then the words.  What is *)
(* neither is no reason to try another model.                              *)
ByStatus(status) ==
    CASE status \in {401, 403} -> "auth"
      [] status = 402 -> "billing"
      [] status = 429 -> "rate_limit"
      [] status = 400 -> "format"
      [] status \in {408, 500, 502, 503, 521, 522, 523, 524, 529} -> "timeout"
      [] OTHER -> "none"

Words == {"rate_limit", "billing", "timeout", "auth", "format", "image", "overloaded"}

ByMessage(says) ==
    IF says = "overloaded" THEN "rate_limit" ELSE IF says \in Words THEN says ELSE "none"

Classify(e) ==
    IF e.says = "image" THEN "format"
    ELSE IF ByStatus(e.status) # "none" THEN ByStatus(e.status) ELSE ByMessage(e.says)

Retriable(reason) == reason \notin {"format", "none"}

---------------------------------------------------------------------------
(* cooldown.go *)
FailureWindow == 24 * 60

StandardCooldown(n) == FbLeast(60, 5 ^ FbLeast(n - 1, 3))

BillingCooldown(n) == FbLeast(24 * 60, 5 * 60 * 2 ^ FbLeast(n - 1, 10))

NoEntry == [errors |-> 0, billing |-> 0, cool |-> 0, off |-> 0, age |-> 0]

Available(p) == fbEntry[p].off = 0 /\ fbEntry[p].cool = 0

(* MarkFailure on an entry. *)
Marked(e, reason) ==
    LET old == e.errors > 0 /\ e.age > FailureWindow
        errors == IF old THEN 1 ELSE e.errors + 1
        billing == (IF old THEN 0 ELSE e.billing) + (IF reason = "billing" THEN 1 ELSE 0)
    IN  IF reason = "billing"
          THEN [e EXCEPT !.errors = errors, !.billing = billing, !.age = 0, !.off = BillingCooldown(billing)]
          ELSE [e EXCEPT !.errors = errors, !.billing = billing, !.age = 0, !.cool = StandardCooldown(errors)]

(* Time passes. *)
Lapse(d) ==
    /\ fbLapses < FbMaxLapses
    /\ fbLapses' = fbLapses + 1
    /\ fbEntry' = [p \in FbProviders |->
           [fbEntry[p] EXCEPT !.cool = FbLess(@, d), !.off = FbLess(@, d),
                              !.age = IF fbEntry[p].errors = 0 THEN 0 ELSE FbLeast(@ + d, FailureWindow + 1)]]
    /\ UNCHANGED <<fbRequest, fbMade>>

---------------------------------------------------------------------------
FbIdle == [pc |-> "idle", at |-> 1, tried |-> {}, skipped |-> {}, reason |-> "none", fresh |-> TRUE,
           outcome |-> "none"]

FbInit ==
    /\ fbRequest = [r \in FbRequests |-> FbIdle]
    /\ fbEntry = [p \in FbProviders |-> NoEntry]
    /\ fbMade = 0
    /\ fbLapses = 0

FbAt(r, pc) == fbRequest[r].pc = pc

Provider(r) == Candidates[fbRequest[r].at].provider

FbReturn(r, outcome) ==
    fbRequest' = [fbRequest EXCEPT ![r].pc = "done", ![r].outcome = outcome]

Execute(r) ==
    /\ fbRequest[r].pc \in {"idle", "done"}
    /\ fbMade < FbMaxRequests
    /\ fbMade' = fbMade + 1
    /\ fbRequest' = [fbRequest EXCEPT ![r] = [FbIdle EXCEPT !.pc = "check"]]
    /\ UNCHANGED <<fbEntry, fbLapses>>

(* The next candidate, or the end of the list. *)
FbAdvance(q) ==
    IF q.at = Len(Candidates) THEN [q EXCEPT !.pc = "done", !.outcome = "exhausted"]
    ELSE [q EXCEPT !.pc = "check", !.at = @ + 1]

Skip(r) ==
    /\ FbAt(r, "check")
    /\ ~Available(Provider(r))
    /\ fbRequest' = [fbRequest EXCEPT ![r] = FbAdvance([@ EXCEPT !.skipped = @ \cup {fbRequest[r].at}])]
    /\ UNCHANGED <<fbEntry, fbMade, fbLapses>>

(* Fault: the cooldown is not asked. *)
CallAnyway(r) ==
    /\ FbAt(r, "check")
    /\ fbRequest' = [fbRequest EXCEPT ![r].pc = "call", ![r].tried = @ \cup {fbRequest[r].at}, ![r].fresh = TRUE]
    /\ UNCHANGED <<fbEntry, fbMade, fbLapses>>

Call(r) ==
    /\ FbAt(r, "check")
    /\ Available(Provider(r))
    /\ fbRequest' = [fbRequest EXCEPT ![r].pc = "call", ![r].tried = @ \cup {fbRequest[r].at}, ![r].fresh = TRUE]
    /\ UNCHANGED <<fbEntry, fbMade, fbLapses>>

(* The call returns: with an answer, *)
Succeed(r) ==
    /\ FbAt(r, "call")
    /\ fbRequest' = [fbRequest EXCEPT ![r].pc = "good"]
    /\ UNCHANGED <<fbEntry, fbMade, fbLapses>>

MarkSuccess(r) ==
    /\ FbAt(r, "good")
    /\ fbEntry' = [fbEntry EXCEPT ![Provider(r)] = [NoEntry EXCEPT !.age = fbEntry[Provider(r)].age]]
    /\ FbReturn(r, "success")
    /\ UNCHANGED <<fbMade, fbLapses>>

(* with an error that another model cannot mend, the user's abort included,*)
Abort(r) ==
    /\ FbAt(r, "call")
    /\ \E e \in FbErrors : ~Retriable(Classify(e))
    /\ FbReturn(r, "aborted")
    /\ UNCHANGED <<fbEntry, fbMade, fbLapses>>

(* or with one that it may.                                                *)
Fail(r) ==
    /\ FbAt(r, "call")
    /\ \E e \in FbErrors :
           /\ Retriable(Classify(e))
           /\ fbRequest' = [fbRequest EXCEPT ![r].pc = "bad", ![r].reason = Classify(e)]
    /\ UNCHANGED <<fbEntry, fbMade, fbLapses>>

(* Calls of the provider that are under way know nothing of this failure.  *)
MarkFailure(r) ==
    /\ FbAt(r, "bad")
    /\ fbEntry' = [fbEntry EXCEPT ![Provider(r)] = Marked(@, fbRequest[r].reason)]
    /\ fbRequest' = [q \in FbRequests |->
           IF q = r THEN FbAdvance(fbRequest[r])
           ELSE IF fbRequest[q].pc \in {"call", "good"} /\ Provider(q) = Provider(r)
                THEN [fbRequest[q] EXCEPT !.fresh = FALSE]
                ELSE fbRequest[q]]
    /\ UNCHANGED <<fbMade, fbLapses>>

---------------------------------------------------------------------------
FbTypeOK ==
    /\ \A r \in FbRequests :
           /\ fbRequest[r].pc \in {"idle", "check", "call", "good", "bad", "done"}
           /\ fbRequest[r].at \in DOMAIN Candidates
           /\ fbRequest[r].outcome \in {"none", "success", "aborted", "exhausted"}
    /\ \A p \in FbProviders :
           /\ fbEntry[p].cool \in 0 .. 60
           /\ fbEntry[p].off \in 0 .. 24 * 60
           /\ fbEntry[p].age \in 0 .. FailureWindow + 1

(* A request that reports the chain exhausted has called or skipped every  *)
(* candidate, none of them twice, and one that succeeds has passed over    *)
(* all those before its own (FallbackChain.Execute, fallback.go:93).       *)
ExhaustedTriedAll ==
    \A r \in FbRequests :
        LET q == fbRequest[r] IN
        /\ q.tried \cap q.skipped = {}
        /\ q.outcome = "exhausted" => q.tried \cup q.skipped = DOMAIN Candidates
        /\ q.outcome = "success" => q.tried \cup q.skipped = 1 .. q.at

(* A cooldown ends early only by the success of a call that was under way  *)
(* when it began: no call begins while it lasts (cooldown.go:50 and :94).  *)
EndedByOlderCall ==
    \A p \in FbProviders :
          fbLapses' = fbLapses /\ (fbEntry[p].cool > 0 \/ fbEntry[p].off > 0)
              /\ fbEntry'[p].cool = 0 /\ fbEntry'[p].off = 0
          => \E r \in FbRequests : FbAt(r, "good") /\ Provider(r) = p /\ ~fbRequest[r].fresh

(* The failures that set the length of a cooldown are no older than the    *)
(* window: a provider whose last failure is older than a day starts again  *)
(* with one minute (cooldown.go:57).                                       *)
WindowForgets ==
    \A p \in FbProviders :
          fbEntry[p].age > FailureWindow /\ fbEntry'[p].age = 0 /\ fbEntry'[p].errors > 0
          => fbEntry'[p].cool <= 1 /\ fbEntry'[p].off <= 5 * 60

---------------------------------------------------------------------------
FbStep(r) ==
    Skip(r) \/ Call(r) \/ Succeed(r) \/ MarkSuccess(r) \/ Abort(r) \/ Fail(r) \/ MarkFailure(r)

FbNext ==
    \/ \E r \in FbRequests : Execute(r) \/ FbStep(r)
    \/ \E d \in FbTimes : Lapse(d)

FbSpec == FbInit /\ [][FbNext]_fbVars

(* The failover and its cooldowns: a request gives up only when every      *)
(* model was tried or skipped, a cooldown ends early only by a call that   *)
(* is older than it, and a day without failures starts it afresh           *)
(* (fallback.go, cooldown.go).                                             *)
FallbackCorrect ==
    /\ [](FbTypeOK /\ ExhaustedTriedAll)
    /\ [][EndedByOlderCall /\ WindowForgets]_fbVars
=============================================================================
