---------------------------- MODULE MediaStore ----------------------------
(***************************************************************************)
(* pkg/media/store.go: references to downloaded files, and the cleaner     *)
(* that drops the old ones.  A reference leaves the three maps under the   *)
(* lock; its file is removed after the lock is gone, one after another,    *)
(* while channels store new references and the agent loop resolves and     *)
(* opens what it was sent (resolveMediaRefs in pkg/agent/loop_media.go).   *)
(***************************************************************************)
EXTENDS Naturals, Sequences, FiniteSets

CONSTANTS
    MdClients,  \* goroutines of channels and of the agent loop
    MdPaths,    \* files a channel may download
    MdScopes,   \* scopes, one for a message
    MdMaxRefs   \* bound: references stored

VARIABLES
    mdRefs,         \* s.refs: reference -> path
    mdScopeToRefs,  \* s.scopeToRefs, the scopes it has
    mdRefToScope,   \* s.refToScope
    mdOld,          \* references stored more than MaxAge ago
    mdFiles,        \* paths that exist
    mdCall,         \* goroutine -> its call: [pc, path, scope, ref, doomed]
    mdIssued,       \* history: the path of each reference ever stored
    mdSpent,        \* history: paths ever downloaded
    mdStuck         \* history: paths whose removal failed

mdVars == <<mdRefs, mdScopeToRefs, mdRefToScope, mdOld, mdFiles, mdCall, mdIssued, mdSpent, mdStuck>>
mdMaps == <<mdRefs, mdScopeToRefs, mdRefToScope>>

MdGoroutines == MdClients \cup {"cleaner"}
MdIdle == [pc |-> "idle", path |-> "none", scope |-> "none", ref |-> 0, doomed |-> {}]

MdInit ==
    /\ mdRefs = <<>> /\ mdScopeToRefs = <<>> /\ mdRefToScope = <<>>
    /\ mdOld = {} /\ mdFiles = {} /\ mdSpent = {} /\ mdStuck = {}
    /\ mdCall = [g \in MdGoroutines |-> MdIdle]
    /\ mdIssued = <<>>

MdDoes(g, call) == mdCall' = [mdCall EXCEPT ![g] = call]

Without(f, gone) == [x \in DOMAIN f \ gone |-> f[x]]

With(f, x, y) == [z \in DOMAIN f \cup {x} |-> IF z = x THEN y ELSE f[z]]

---------------------------------------------------------------------------
(* DownloadFile (pkg/utils): the name of each file is new.                 *)
Download(p) ==
    /\ p \notin mdSpent
    /\ mdFiles' = mdFiles \cup {p} /\ mdSpent' = mdSpent \cup {p}
    /\ UNCHANGED <<mdMaps, mdOld, mdCall, mdIssued, mdStuck>>

(* Store looks for the file before it takes the lock.                      *)
StatFile(c, p, s) ==
    /\ mdCall[c].pc = "idle"
    /\ p \in mdFiles
    /\ MdDoes(c, [MdIdle EXCEPT !.pc = "storing", !.path = p, !.scope = s])
    /\ UNCHANGED <<mdMaps, mdOld, mdFiles, mdIssued, mdSpent, mdStuck>>

Store(c) ==
    LET call == mdCall[c]
        ref  == Len(mdIssued) + 1
        had  == IF call.scope \in DOMAIN mdScopeToRefs THEN mdScopeToRefs[call.scope] ELSE {} IN
    /\ call.pc = "storing"
    /\ Len(mdIssued) < MdMaxRefs
    /\ mdRefs' = With(mdRefs, ref, call.path)
    /\ mdScopeToRefs' = With(mdScopeToRefs, call.scope, had \cup {ref})
    /\ mdRefToScope' = With(mdRefToScope, ref, call.scope)
    /\ mdIssued' = Append(mdIssued, call.path)
    /\ MdDoes(c, MdIdle)
    /\ UNCHANGED <<mdOld, mdFiles, mdSpent, mdStuck>>

(* Resolve and ResolveWithMeta give the path away; the file is opened      *)
(* without the lock.                                                       *)
Resolve(c, r) ==
    /\ mdCall[c].pc = "idle"
    /\ r \in DOMAIN mdRefs
    /\ MdDoes(c, [MdIdle EXCEPT !.pc = "opening", !.path = mdRefs[r], !.ref = r])
    /\ UNCHANGED <<mdMaps, mdOld, mdFiles, mdIssued, mdSpent, mdStuck>>

OpenFile(c) ==
    /\ mdCall[c].pc = "opening"
    /\ MdDoes(c, IF mdCall[c].path \in mdFiles THEN MdIdle ELSE [mdCall[c] EXCEPT !.pc = "missing"])
    /\ UNCHANGED <<mdMaps, mdOld, mdFiles, mdIssued, mdSpent, mdStuck>>

(* The file is skipped with a warning. *)
SkipMissing(c) ==
    /\ mdCall[c].pc = "missing"
    /\ MdDoes(c, MdIdle)
    /\ UNCHANGED <<mdMaps, mdOld, mdFiles, mdIssued, mdSpent, mdStuck>>

---------------------------------------------------------------------------
(* ReleaseAll, phase 1.  Its one caller, the agent loop, has it commented  *)
(* out; it is part of the interface.                                       *)
ReleaseAll(c, s) ==
    /\ mdCall[c].pc = "idle"
    /\ s \in DOMAIN mdScopeToRefs
    /\ LET gone == mdScopeToRefs[s] IN
       /\ MdDoes(c, [MdIdle EXCEPT !.pc = "removing",
                                   !.doomed = {mdRefs[r] : r \in gone \cap DOMAIN mdRefs}])
       /\ mdRefs' = Without(mdRefs, gone)
       /\ mdRefToScope' = Without(mdRefToScope, gone)
       /\ mdOld' = mdOld \ gone
    /\ mdScopeToRefs' = Without(mdScopeToRefs, {s})
    /\ UNCHANGED <<mdFiles, mdIssued, mdSpent, mdStuck>>

(* Fault: what is left of a scope whose references have expired stays.     *)
ScopesAfterAll(gone) == mdScopeToRefs

(* CleanExpired, phase 1: each expired reference leaves its scope, and the *)
(* scope goes with its last one.                                           *)
ScopesAfter(gone) ==
    LET left(s) == mdScopeToRefs[s] \ {r \in gone : r \in DOMAIN mdRefToScope /\ mdRefToScope[r] = s} IN
    [s \in {x \in DOMAIN mdScopeToRefs : left(x) # {}} |-> left(s)]

CleanExpired ==
    LET gone == mdOld \cap DOMAIN mdRefs IN
    /\ mdCall["cleaner"].pc = "idle"
    /\ gone # {}
    /\ MdDoes("cleaner", [MdIdle EXCEPT !.pc = "removing", !.doomed = {mdRefs[r] : r \in gone}])
    /\ mdScopeToRefs' = ScopesAfter(gone)
    /\ mdRefs' = Without(mdRefs, gone)
    /\ mdRefToScope' = Without(mdRefToScope, gone)
    /\ mdOld' = mdOld \ gone
    /\ UNCHANGED <<mdFiles, mdIssued, mdSpent, mdStuck>>

(* Phase 2, of either: a file that is gone already is no error, and one    *)
(* that cannot be removed stays.                                           *)
RemoveFile(g, p) ==
    LET left == mdCall[g].doomed \ {p} IN
    /\ mdCall[g].pc = "removing"
    /\ p \in mdCall[g].doomed
    /\ MdDoes(g, IF left = {} THEN MdIdle ELSE [mdCall[g] EXCEPT !.doomed = left])
    /\ \/ mdFiles' = mdFiles \ {p} /\ UNCHANGED mdStuck
       \/ p \in mdFiles /\ mdStuck' = mdStuck \cup {p} /\ UNCHANGED mdFiles
    /\ UNCHANGED <<mdMaps, mdOld, mdIssued, mdSpent>>

(* MaxAge passes. *)
GrowOld(r) ==
    /\ r \in DOMAIN mdRefs \ mdOld
    /\ mdOld' = mdOld \cup {r}
    /\ UNCHANGED <<mdMaps, mdFiles, mdCall, mdIssued, mdSpent, mdStuck>>

MdNext ==
    \/ \E p \in MdPaths : Download(p)
    \/ \E c \in MdClients :
           \/ \E p \in MdPaths, s \in MdScopes : StatFile(c, p, s)
           \/ Store(c) \/ OpenFile(c) \/ SkipMissing(c)
           \/ \E r \in DOMAIN mdRefs : Resolve(c, r)
           \/ \E s \in MdScopes : ReleaseAll(c, s)
    \/ CleanExpired
    \/ \E g \in MdGoroutines : \E p \in mdCall[g].doomed : RemoveFile(g, p)
    \/ \E r \in DOMAIN mdRefs : GrowOld(r)

MdSpec == MdInit /\ [][MdNext]_mdVars

---------------------------------------------------------------------------
MdTypeOK ==
    /\ DOMAIN mdRefs \subseteq DOMAIN mdIssued
    /\ mdOld \subseteq DOMAIN mdRefs
    /\ mdFiles \subseteq mdSpent /\ mdStuck \subseteq mdSpent /\ mdSpent \subseteq MdPaths
    /\ \A g \in MdGoroutines : mdCall[g].pc \in {"idle", "storing", "opening", "missing", "removing"}

(* The three maps tell the same story: every reference is in the one scope *)
(* it names, and no scope is empty (store.go:111, :147, :192).             *)
MapsAgree ==
    /\ DOMAIN mdRefToScope = DOMAIN mdRefs
    /\ \A s \in DOMAIN mdScopeToRefs :
           mdScopeToRefs[s] # {} /\ mdScopeToRefs[s] = {r \in DOMAIN mdRefs : mdRefToScope[r] = s}
    /\ \A r \in DOMAIN mdRefs : mdRefToScope[r] \in DOMAIN mdScopeToRefs

SharesPath(r) == \E q \in DOMAIN mdIssued : q # r /\ mdIssued[q] = mdIssued[r]

(* A reference that resolves names a file that exists, unless another      *)
(* reference to the same path was dropped (store.go:160, "Phase 2").       *)
ReferenceHasFile ==
    \A r \in DOMAIN mdRefs : mdRefs[r] \in mdFiles \/ SharesPath(r)

(* Whoever resolved a reference finds no file only if the reference was    *)
(* dropped meanwhile, or its path had another (loop_media.go:56).          *)
MissingWasDropped ==
    \A c \in MdClients : mdCall[c].pc = "missing" =>
        mdCall[c].ref \notin DOMAIN mdRefs \/ SharesPath(mdCall[c].ref)

(* No stored file is forgotten: while it exists it has a reference, or     *)
(* somebody is about to remove it, or could not (store.go:205).            *)
NoFileLeft ==
    \A r \in DOMAIN mdIssued :
        \/ mdIssued[r] \notin mdFiles
        \/ \E q \in DOMAIN mdRefs : mdRefs[q] = mdIssued[r]
        \/ \E g \in MdGoroutines : mdIssued[r] \in mdCall[g].doomed
        \/ mdIssued[r] \in mdStuck

(* References and files go together (pkg/media/store.go).                  *)
MediaSafe == MdTypeOK /\ MapsAgree /\ ReferenceHasFile /\ MissingWasDropped /\ NoFileLeft
=============================================================================
