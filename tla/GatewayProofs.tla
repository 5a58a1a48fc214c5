--------------------------- MODULE GatewayProofs ---------------------------
(***************************************************************************)
(* Proofs about services of the gateway, for any number of clients, files, *)
(* scopes and references, channels, rounds, restarts, messages and power   *)
(* losses: references and files go together (module MediaStore), a notice  *)
(* nobody asked for knows the last active chat (module Notices), and the   *)
(* lines of a session are kept (module JSONLStore).                        *)
(***************************************************************************)
EXTENDS MediaStore, Notices, JSONLStore, FiniteSetTheorems, TLAPS

LEMMA WithIs ==
  ASSUME NEW f, NEW x, NEW y
  PROVE  /\ DOMAIN With(f, x, y) = DOMAIN f \cup {x}
         /\ With(f, x, y)[x] = y
         /\ \A z \in DOMAIN f : z # x => With(f, x, y)[z] = f[z]
BY DEF With

LEMMA WithoutIs ==
  ASSUME NEW f, NEW dropped
  PROVE  /\ DOMAIN Without(f, dropped) = DOMAIN f \ dropped
         /\ \A z \in DOMAIN f \ dropped : Without(f, dropped)[z] = f[z]
BY DEF Without

MdCallType == [pc     : {"idle", "storing", "opening", "missing", "removing"},
               path   : MdPaths \cup {"none"},
               scope  : MdScopes \cup {"none"},
               ref    : Nat,
               doomed : SUBSET MdPaths]

MdTyped ==
    /\ mdIssued \in Seq(MdPaths)
    /\ mdFiles \subseteq mdSpent /\ mdStuck \subseteq mdSpent /\ mdSpent \subseteq MdPaths
    /\ mdCall \in [MdGoroutines -> MdCallType]

(* A reference keeps the path it was issued for.                           *)
RefsIssued ==
    /\ mdOld \subseteq DOMAIN mdRefs
    /\ DOMAIN mdRefs \subseteq DOMAIN mdIssued
    /\ \A r \in DOMAIN mdRefs : mdRefs[r] = mdIssued[r]

(* A downloaded path has lost a reference when its file is gone, or is     *)
(* about to go; the path of every reference was downloaded.                *)
Lost(p) == \E q \in DOMAIN mdIssued : q \notin DOMAIN mdRefs /\ mdIssued[q] = p
PathsSpent ==
    /\ \A r \in DOMAIN mdIssued : mdIssued[r] \in mdSpent
    /\ \A p \in mdSpent : p \notin mdFiles => Lost(p)

(* What goroutine g knows in its call.                                     *)
CallKnows(g) ==
    /\ mdCall[g].pc # "removing" => mdCall[g].doomed = {}
    /\ \A p \in mdCall[g].doomed : Lost(p)
    /\ mdCall[g].pc = "storing" => mdCall[g].path \in mdSpent
    /\ mdCall[g].pc \in {"opening", "missing"} =>
           mdCall[g].ref \in DOMAIN mdIssued /\ mdIssued[mdCall[g].ref] = mdCall[g].path
    /\ mdCall[g].pc = "missing" => mdCall[g].path \in mdSpent \ mdFiles
CallsKnow == \A g \in MdGoroutines : CallKnows(g)

MInv == MdTyped /\ RefsIssued /\ PathsSpent /\ CallsKnow /\ MapsAgree /\ NoFileLeft

(* No step takes anything of this back.                                    *)
Onward ==
    /\ mdSpent \subseteq mdSpent'
    /\ \A p : Lost(p) => Lost(p)'
    /\ \A r \in DOMAIN mdIssued : r \in DOMAIN mdIssued' /\ mdIssued'[r] = mdIssued[r]
    /\ \A p \in mdSpent : p \notin mdFiles => p \notin mdFiles'
OthersStay(g) == \A h \in MdGoroutines : h # g => mdCall'[h] = mdCall[h]

LEMMA CallIs ==
  ASSUME MdTyped, NEW g \in MdGoroutines, NEW made \in MdCallType, MdDoes(g, made)
  PROVE  mdCall' \in [MdGoroutines -> MdCallType] /\ mdCall'[g] = made /\ OthersStay(g)
BY DEF MdTyped, MdDoes, OthersStay

LEMMA KnowsStill ==
  ASSUME NEW g, CallKnows(g), Onward, mdCall'[g] = mdCall[g]
  PROVE  CallKnows(g)'
<1>1. mdCall'[g].pc # "removing" => mdCall'[g].doomed = {}
  BY DEF CallKnows
<1>2. \A p \in mdCall'[g].doomed : Lost(p)'
  BY DEF CallKnows, Onward
<1>3. mdCall'[g].pc = "storing" => mdCall'[g].path \in mdSpent'
  BY DEF CallKnows, Onward
<1>4. mdCall'[g].pc \in {"opening", "missing"} =>
          mdCall'[g].ref \in DOMAIN mdIssued' /\ mdIssued'[mdCall'[g].ref] = mdCall'[g].path
  BY DEF CallKnows, Onward
<1>5. mdCall'[g].pc = "missing" => mdCall'[g].path \in mdSpent' \ mdFiles'
  BY DEF CallKnows, Onward
<1> QED
  BY <1>1, <1>2, <1>3, <1>4, <1>5 DEF CallKnows

LEMMA OneCallSteps ==
  ASSUME CallsKnow, Onward, NEW g \in MdGoroutines, OthersStay(g), CallKnows(g)'
  PROVE  CallsKnow'
<1> SUFFICES ASSUME NEW h \in MdGoroutines PROVE CallKnows(h)'
  BY DEF CallsKnow
<1>1. CASE h = g
  BY <1>1
<1>2. CASE h # g
  BY <1>2, KnowsStill DEF CallsKnow, OthersStay
<1> QED
  BY <1>1, <1>2

LEMMA IdleIs == MdIdle \in MdCallType /\ MdIdle.pc = "idle" /\ MdIdle.doomed = {}
BY DEF MdIdle, MdCallType

(* The references of "dropped" go.                                         *)
LEMMA Dropped ==
  ASSUME RefsIssued, PathsSpent, NEW dropped, mdRefs' = Without(mdRefs, dropped), mdOld' = mdOld \ dropped,
         UNCHANGED <<mdIssued, mdFiles, mdSpent>>
  PROVE  /\ RefsIssued' /\ PathsSpent' /\ Onward
         /\ \A p : (\E r \in dropped \cap DOMAIN mdRefs : mdRefs[r] = p) => Lost(p)'
<1>1. /\ DOMAIN mdRefs' = DOMAIN mdRefs \ dropped
      /\ \A r \in DOMAIN mdRefs \ dropped : mdRefs'[r] = mdRefs[r]
  BY WithoutIs
<1>2. RefsIssued'
  BY <1>1 DEF RefsIssued
<1>3. \A p : Lost(p) => Lost(p)'
  BY <1>1 DEF Lost
<1>4. PathsSpent'
  BY <1>3 DEF PathsSpent
<1>5. Onward
  BY <1>3 DEF Onward
<1>6. \A p : (\E r \in dropped \cap DOMAIN mdRefs : mdRefs[r] = p) => Lost(p)'
  BY <1>1 DEF RefsIssued, Lost
<1> QED
  BY <1>2, <1>4, <1>5, <1>6

(* Store: the reference is new, in its scope, and has the path it is for.  *)
LEMMA StoreKeepsMaps ==
  ASSUME MdTyped, RefsIssued, MapsAgree, NEW c \in MdClients, Store(c)
  PROVE  MapsAgree'
<1> DEFINE made == mdCall[c]
           had  == IF made.scope \in DOMAIN mdScopeToRefs THEN mdScopeToRefs[made.scope] ELSE {}
<1>0. PICK ref : ref = Len(mdIssued) + 1
  OBVIOUS
<1>1. PICK scope : scope = made.scope
  OBVIOUS
<1>2. ref \notin DOMAIN mdRefs
  BY <1>0 DEF MdTyped, RefsIssued
<1>3. /\ mdRefs' = With(mdRefs, ref, made.path)
      /\ mdScopeToRefs' = With(mdScopeToRefs, scope, had \cup {ref})
      /\ mdRefToScope' = With(mdRefToScope, ref, scope)
  BY <1>0, <1>1 DEF Store
<1>7. had = {r \in DOMAIN mdRefs : mdRefToScope[r] = scope}
  BY <1>1 DEF MapsAgree
<1> HIDE DEF made, had
<1>4. DOMAIN mdRefs' = DOMAIN mdRefs \cup {ref}
  BY <1>3, WithIs
<1>5. /\ DOMAIN mdScopeToRefs' = DOMAIN mdScopeToRefs \cup {scope}
      /\ mdScopeToRefs'[scope] = had \cup {ref}
      /\ \A s \in DOMAIN mdScopeToRefs : s # scope => mdScopeToRefs'[s] = mdScopeToRefs[s]
  BY <1>3 DEF With
<1>6. /\ DOMAIN mdRefToScope' = DOMAIN mdRefToScope \cup {ref} /\ mdRefToScope'[ref] = scope
      /\ \A r \in DOMAIN mdRefToScope : r # ref => mdRefToScope'[r] = mdRefToScope[r]
  BY <1>3 DEF With
<1>8. DOMAIN mdRefToScope' = DOMAIN mdRefs'
  BY <1>4, <1>6 DEF MapsAgree
<1>9. ASSUME NEW s \in DOMAIN mdScopeToRefs'
      PROVE  mdScopeToRefs'[s] # {} /\ mdScopeToRefs'[s] = {r \in DOMAIN mdRefs' : mdRefToScope'[r] = s}
  <2>1. CASE s = scope
    BY <1>2, <1>4, <1>5, <1>6, <1>7, <2>1 DEF MapsAgree
  <2>2. CASE s # scope
    BY <1>2, <1>4, <1>5, <1>6, <2>2, <1>9 DEF MapsAgree
  <2> QED
    BY <2>1, <2>2
<1>10. \A r \in DOMAIN mdRefs' : mdRefToScope'[r] \in DOMAIN mdScopeToRefs'
  BY <1>2, <1>4, <1>5, <1>6 DEF MapsAgree
<1> QED
  BY <1>8, <1>9, <1>10 DEF MapsAgree

(* References leave their scopes, and a scope its last one: ReleaseAll     *)
(* drops the whole of one scope, CleanExpired some of each.                *)
LEMMA ReleaseKeepsMaps ==
  ASSUME MapsAgree, NEW s \in DOMAIN mdScopeToRefs,
         mdRefs' = Without(mdRefs, mdScopeToRefs[s]),
         mdRefToScope' = Without(mdRefToScope, mdScopeToRefs[s]),
         mdScopeToRefs' = Without(mdScopeToRefs, {s})
  PROVE  MapsAgree'
<1>0. PICK dropped : dropped = mdScopeToRefs[s]
  OBVIOUS
<1>1. dropped = {r \in DOMAIN mdRefs : mdRefToScope[r] = s}
  BY <1>0 DEF MapsAgree
<1>2. DOMAIN mdRefs' = DOMAIN mdRefs \ dropped
  BY <1>0, WithoutIs
<1>3. /\ DOMAIN mdRefToScope' = DOMAIN mdRefToScope \ dropped
      /\ \A r \in DOMAIN mdRefToScope \ dropped : mdRefToScope'[r] = mdRefToScope[r]
  BY <1>0, WithoutIs
<1>4. /\ DOMAIN mdScopeToRefs' = DOMAIN mdScopeToRefs \ {s}
      /\ \A x \in DOMAIN mdScopeToRefs \ {s} : mdScopeToRefs'[x] = mdScopeToRefs[x]
  BY WithoutIs
<1>5. ASSUME NEW x \in DOMAIN mdScopeToRefs'
      PROVE  mdScopeToRefs'[x] # {} /\ mdScopeToRefs'[x] = {r \in DOMAIN mdRefs' : mdRefToScope'[r] = x}
  <2>1. x \in DOMAIN mdScopeToRefs /\ x # s /\ mdScopeToRefs'[x] = mdScopeToRefs[x]
    BY <1>4, <1>5
  <2>2. mdScopeToRefs[x] # {} /\ mdScopeToRefs[x] = {r \in DOMAIN mdRefs : mdRefToScope[r] = x}
    BY <2>1 DEF MapsAgree
  <2>3. {r \in DOMAIN mdRefs : mdRefToScope[r] = x} = {r \in DOMAIN mdRefs' : mdRefToScope'[r] = x}
    BY <1>1, <1>2, <1>3, <2>1 DEF MapsAgree
  <2> QED
    BY <2>1, <2>2, <2>3
<1>6. DOMAIN mdRefToScope' = DOMAIN mdRefs'
  BY <1>2, <1>3 DEF MapsAgree
<1>7. \A r \in DOMAIN mdRefs' : mdRefToScope'[r] \in DOMAIN mdScopeToRefs'
  BY <1>1, <1>2, <1>3, <1>4 DEF MapsAgree
<1> QED
  BY <1>5, <1>6, <1>7 DEF MapsAgree

LEMMA CleaningKeepsMaps ==
  ASSUME MapsAgree, NEW dropped,
         mdRefs' = Without(mdRefs, dropped), mdRefToScope' = Without(mdRefToScope, dropped),
         mdScopeToRefs' = ScopesAfter(dropped)
  PROVE  MapsAgree'
<1> DEFINE left(s) == mdScopeToRefs[s] \ {r \in dropped : r \in DOMAIN mdRefToScope /\ mdRefToScope[r] = s}
<1>1. /\ DOMAIN mdScopeToRefs' = {s \in DOMAIN mdScopeToRefs : left(s) # {}}
      /\ \A s \in DOMAIN mdScopeToRefs' : mdScopeToRefs'[s] = left(s)
  BY DEF ScopesAfter
<1>2. DOMAIN mdRefs' = DOMAIN mdRefs \ dropped
  BY WithoutIs
<1>3. /\ DOMAIN mdRefToScope' = DOMAIN mdRefToScope \ dropped
      /\ \A r \in DOMAIN mdRefToScope \ dropped : mdRefToScope'[r] = mdRefToScope[r]
  BY WithoutIs
<1>4. \A s \in DOMAIN mdScopeToRefs : left(s) = {r \in DOMAIN mdRefs \ dropped : mdRefToScope[r] = s}
  BY DEF MapsAgree
<1> HIDE DEF left
<1>5. ASSUME NEW s \in DOMAIN mdScopeToRefs'
      PROVE  mdScopeToRefs'[s] # {} /\ mdScopeToRefs'[s] = {r \in DOMAIN mdRefs' : mdRefToScope'[r] = s}
  BY <1>1, <1>2, <1>3, <1>4, <1>5 DEF MapsAgree
<1>6. ASSUME NEW r \in DOMAIN mdRefs' PROVE mdRefToScope'[r] \in DOMAIN mdScopeToRefs'
  <2>1. r \in DOMAIN mdRefs \ dropped /\ mdRefToScope'[r] = mdRefToScope[r]
    BY <1>2, <1>3, <1>6 DEF MapsAgree
  <2>2. mdRefToScope[r] \in DOMAIN mdScopeToRefs /\ r \in left(mdRefToScope[r])
    BY <1>4, <2>1 DEF MapsAgree
  <2> QED
    BY <1>1, <2>1, <2>2
<1> QED
  BY <1>2, <1>3, <1>5, <1>6 DEF MapsAgree

(* References are dropped by a goroutine that takes their paths with it.   *)
LEMMA DroppingKeeps ==
  ASSUME MInv, NEW g \in MdGoroutines, NEW dropped, mdCall[g].pc = "idle",
         MdDoes(g, [MdIdle EXCEPT !.pc = "removing",
                                  !.doomed = {mdRefs[r] : r \in dropped \cap DOMAIN mdRefs}]),
         mdRefs' = Without(mdRefs, dropped), mdOld' = mdOld \ dropped,
         UNCHANGED <<mdIssued, mdFiles, mdSpent, mdStuck>>, MapsAgree'
  PROVE  MInv'
<1> DEFINE doomed == {mdRefs[r] : r \in dropped \cap DOMAIN mdRefs}
           made == [MdIdle EXCEPT !.pc = "removing", !.doomed = doomed]
<1>1. doomed \subseteq MdPaths
  BY DEF MInv, MdTyped, RefsIssued
<1>2. made \in MdCallType /\ made.pc = "removing" /\ made.doomed = doomed
  BY <1>1 DEF MdIdle, MdCallType
<1>3. RefsIssued' /\ PathsSpent' /\ Onward
  BY Dropped DEF MInv
<1>4. \A p \in doomed : Lost(p)'
  BY Dropped DEF MInv
<1>5. mdCall' \in [MdGoroutines -> MdCallType] /\ mdCall'[g] = made /\ OthersStay(g)
  BY <1>2, CallIs DEF MInv
<1>6. \A r \in DOMAIN mdRefs : mdRefs[r] \in doomed \/ (r \in DOMAIN mdRefs' /\ mdRefs'[r] = mdRefs[r])
  <2>1. /\ DOMAIN mdRefs' = DOMAIN mdRefs \ dropped
        /\ \A r \in DOMAIN mdRefs \ dropped : mdRefs'[r] = mdRefs[r]
    BY WithoutIs
  <2> QED
    BY <2>1
<1> HIDE DEF doomed, made
<1>7. MdTyped'
  BY <1>5 DEF MInv, MdTyped
<1>8. CallKnows(g)'
  BY <1>2, <1>4, <1>5 DEF CallKnows
<1>9. CallsKnow'
  BY <1>3, <1>5, <1>8, OneCallSteps DEF MInv
<1>10. mdCall[g].doomed = {}
  BY DEF MInv, CallsKnow, CallKnows
<1>11. NoFileLeft'
  <2> SUFFICES ASSUME NEW r \in DOMAIN mdIssued, mdIssued[r] \in mdFiles, mdIssued[r] \notin mdStuck
               PROVE  \/ \E q \in DOMAIN mdRefs' : mdRefs'[q] = mdIssued[r]
                      \/ \E h \in MdGoroutines : mdIssued[r] \in mdCall'[h].doomed
    BY DEF NoFileLeft
  <2>1. CASE \E q \in DOMAIN mdRefs : mdRefs[q] = mdIssued[r]
    BY <1>2, <1>5, <1>6, <2>1
  <2>2. CASE \E h \in MdGoroutines : mdIssued[r] \in mdCall[h].doomed
    BY <1>5, <1>10, <2>2 DEF OthersStay
  <2> QED
    BY <2>1, <2>2 DEF MInv, NoFileLeft
<1> QED
  BY <1>3, <1>7, <1>9, <1>11 DEF MInv

(* Nothing but the call of one goroutine changes.                          *)
LEMMA CallKeeps ==
  ASSUME MInv, NEW g \in MdGoroutines, NEW made \in MdCallType, MdDoes(g, made),
         mdCall[g].pc # "removing", made.pc # "removing", made.doomed = {},
         made.pc = "storing" => made.path \in mdSpent,
         made.pc \in {"opening", "missing"} =>
             made.ref \in DOMAIN mdIssued /\ mdIssued[made.ref] = made.path,
         made.pc = "missing" => made.path \in mdSpent \ mdFiles,
         UNCHANGED <<mdMaps, mdOld, mdFiles, mdIssued, mdSpent, mdStuck>>
  PROVE  MInv'
<1>1. mdCall' \in [MdGoroutines -> MdCallType] /\ mdCall'[g] = made /\ OthersStay(g)
  BY CallIs DEF MInv
<1>2. UNCHANGED <<mdRefs, mdScopeToRefs, mdRefToScope>>
  BY DEF mdMaps
<1>3. \A p : Lost(p)' <=> Lost(p)
  BY <1>2 DEF Lost
<1>4. RefsIssued' /\ PathsSpent' /\ MapsAgree' /\ Onward
  BY <1>2, <1>3 DEF MInv, RefsIssued, PathsSpent, MapsAgree, Onward
<1>5. MdTyped'
  BY <1>1 DEF MInv, MdTyped
<1>6. CallKnows(g)'
  BY <1>1 DEF CallKnows
<1>7. CallsKnow'
  BY <1>1, <1>4, <1>6, OneCallSteps DEF MInv
<1>8. mdCall[g].doomed = {}
  BY DEF MInv, CallsKnow, CallKnows
<1>9. \A h \in MdGoroutines : mdCall'[h].doomed = mdCall[h].doomed
  BY <1>1, <1>8 DEF OthersStay
<1>10. NoFileLeft'
  BY <1>2, <1>9 DEF MInv, NoFileLeft
<1> QED
  BY <1>4, <1>5, <1>7, <1>10 DEF MInv

LEMMA StoreKeeps ==
  ASSUME MInv, NEW c \in MdClients, Store(c)
  PROVE  MInv'
<1>0. PICK ref : ref = Len(mdIssued) + 1
  OBVIOUS
<1>1. PICK path : path = mdCall[c].path
  OBVIOUS
<1>2. /\ mdCall[c].pc = "storing" /\ mdRefs' = With(mdRefs, ref, path)
      /\ mdIssued' = Append(mdIssued, path) /\ MdDoes(c, MdIdle)
      /\ UNCHANGED <<mdOld, mdFiles, mdSpent, mdStuck>>
  BY <1>0, <1>1 DEF Store
<1>3. c \in MdGoroutines /\ path \in mdSpent /\ path \in MdPaths /\ mdCall[c].doomed = {}
  BY <1>1, <1>2 DEF MInv, MdTyped, MdGoroutines, CallsKnow, CallKnows
<1>4. /\ mdIssued' \in Seq(MdPaths) /\ DOMAIN mdIssued' = DOMAIN mdIssued \cup {ref}
      /\ ref \notin DOMAIN mdIssued /\ mdIssued'[ref] = path
      /\ \A r \in DOMAIN mdIssued : mdIssued'[r] = mdIssued[r]
  BY <1>0, <1>2, <1>3 DEF MInv, MdTyped
<1>5. ref \notin DOMAIN mdRefs
  BY <1>4 DEF MInv, RefsIssued
<1>6. /\ DOMAIN mdRefs' = DOMAIN mdRefs \cup {ref} /\ mdRefs'[ref] = path
      /\ \A r \in DOMAIN mdRefs : mdRefs'[r] = mdRefs[r]
  BY <1>2, <1>5 DEF With
<1>7. /\ mdCall' \in [MdGoroutines -> MdCallType] /\ mdCall'[c] = MdIdle /\ OthersStay(c)
      /\ mdCall'[c].pc = "idle" /\ mdCall'[c].doomed = {}
  BY <1>2, <1>3, CallIs, IdleIs DEF MInv
<1>8. MdTyped'
  BY <1>2, <1>4, <1>7 DEF MInv, MdTyped
<1>9. RefsIssued'
  BY <1>2, <1>4, <1>6 DEF MInv, RefsIssued
<1>10. \A p : Lost(p) => Lost(p)'
  BY <1>4, <1>6 DEF Lost
<1>11. PathsSpent'
  BY <1>2, <1>3, <1>4, <1>10 DEF MInv, PathsSpent
<1>12. Onward
  BY <1>2, <1>4, <1>10 DEF Onward
<1>13. CallKnows(c)'
  BY <1>7 DEF CallKnows
<1>14. CallsKnow'
  BY <1>3, <1>7, <1>12, <1>13, OneCallSteps DEF MInv
<1>15. MapsAgree'
  BY StoreKeepsMaps DEF MInv
<1>16. NoFileLeft'
  <2> SUFFICES ASSUME NEW r \in DOMAIN mdIssued', mdIssued'[r] \in mdFiles, mdIssued'[r] \notin mdStuck
               PROVE  \/ \E q \in DOMAIN mdRefs' : mdRefs'[q] = mdIssued'[r]
                      \/ \E h \in MdGoroutines : mdIssued'[r] \in mdCall'[h].doomed
    BY <1>2 DEF NoFileLeft
  <2>1. CASE r = ref
    BY <1>4, <1>6, <2>1
  <2>2. CASE r # ref
    <3>1. r \in DOMAIN mdIssued /\ mdIssued'[r] = mdIssued[r]
      BY <1>4, <2>2
    <3>2. CASE \E q \in DOMAIN mdRefs : mdRefs[q] = mdIssued[r]
      BY <1>6, <3>1, <3>2
    <3>3. CASE \E h \in MdGoroutines : mdIssued[r] \in mdCall[h].doomed
      BY <1>3, <1>7, <3>1, <3>3 DEF OthersStay
    <3> QED
      BY <3>1, <3>2, <3>3 DEF MInv, NoFileLeft
  <2> QED
    BY <2>1, <2>2
<1> QED
  BY <1>8, <1>9, <1>11, <1>14, <1>15, <1>16 DEF MInv

LEMMA RemovingKeeps ==
  ASSUME MInv, NEW g \in MdGoroutines, NEW p \in mdCall[g].doomed, RemoveFile(g, p)
  PROVE  MInv'
<1> DEFINE left == mdCall[g].doomed \ {p}
           made == IF left = {} THEN MdIdle ELSE [mdCall[g] EXCEPT !.doomed = left]
<1>1. /\ mdCall[g].pc = "removing" /\ MdDoes(g, made)
      /\ UNCHANGED <<mdOld, mdIssued, mdSpent>> /\ mdFiles' \subseteq mdFiles
      /\ UNCHANGED <<mdRefs, mdScopeToRefs, mdRefToScope>>
      /\ \A f \in mdFiles : f \in mdFiles' \/ f = p
      /\ p \in mdFiles' => p \in mdStuck'
      /\ mdStuck \subseteq mdStuck' /\ mdStuck' \subseteq mdStuck \cup mdFiles
  BY DEF RemoveFile, mdMaps
<1>2. mdCall[g] \in MdCallType /\ Lost(p)
  BY DEF MInv, MdTyped, CallsKnow, CallKnows
<1>3. /\ made \in MdCallType /\ made.pc \in {"idle", "removing"} /\ made.doomed = left
      /\ made.pc = "idle" => left = {}
  <2>1. CASE left = {}
    BY <2>1, IdleIs
  <2>2. CASE left # {}
    BY <1>1, <1>2, <2>2 DEF MdCallType
  <2> QED
    BY <2>1, <2>2
<1> HIDE DEF made
<1>4. mdCall' \in [MdGoroutines -> MdCallType] /\ mdCall'[g] = made /\ OthersStay(g)
  BY <1>1, <1>3, CallIs DEF MInv
<1>5. MdTyped'
  BY <1>1, <1>4 DEF MInv, MdTyped
<1>6. RefsIssued' /\ MapsAgree'
  BY <1>1 DEF MInv, RefsIssued, MapsAgree
<1>7. \A f : Lost(f)' <=> Lost(f)
  BY <1>1 DEF Lost
<1>8. PathsSpent' /\ Onward
  BY <1>1, <1>2, <1>7 DEF MInv, PathsSpent, Onward
<1>9. CallKnows(g)'
  <2>1. \A f \in mdCall[g].doomed : Lost(f)
    BY DEF MInv, CallsKnow, CallKnows
  <2>2. \A f \in mdCall'[g].doomed : Lost(f)'
    BY <1>3, <1>4, <1>7, <2>1
  <2> QED
    BY <1>3, <1>4, <2>2 DEF CallKnows
<1>10. CallsKnow'
  BY <1>4, <1>8, <1>9, OneCallSteps DEF MInv
<1>11. NoFileLeft'
  <2> SUFFICES ASSUME NEW r \in DOMAIN mdIssued, mdIssued[r] \in mdFiles', mdIssued[r] \notin mdStuck'
               PROVE  \/ \E q \in DOMAIN mdRefs : mdRefs[q] = mdIssued[r]
                      \/ \E h \in MdGoroutines : mdIssued[r] \in mdCall'[h].doomed
    BY <1>1 DEF NoFileLeft
  <2>1. mdIssued[r] # p /\ mdIssued[r] \in mdFiles /\ mdIssued[r] \notin mdStuck
    BY <1>1
  <2>2. CASE \E h \in MdGoroutines : mdIssued[r] \in mdCall[h].doomed
    <3>1. PICK h \in MdGoroutines : mdIssued[r] \in mdCall[h].doomed
      BY <2>2
    <3>2. mdIssued[r] \in mdCall'[h].doomed
      BY <1>3, <1>4, <2>1, <3>1 DEF OthersStay
    <3> QED
      BY <3>2
  <2> QED
    BY <2>1, <2>2 DEF MInv, NoFileLeft
<1> QED
  BY <1>5, <1>6, <1>8, <1>10, <1>11 DEF MInv

LEMMA MediaInvariant == MdSpec => []MInv
<1>1. MdInit => MInv
  <2> SUFFICES ASSUME MdInit PROVE MInv
    OBVIOUS
  <2>1. /\ mdIssued \in Seq(MdPaths) /\ DOMAIN mdIssued = {} /\ DOMAIN mdRefs = {}
        /\ DOMAIN mdScopeToRefs = {} /\ DOMAIN mdRefToScope = {}
    BY DEF MdInit
  <2>2. /\ mdCall \in [MdGoroutines -> MdCallType]
        /\ \A g \in MdGoroutines : mdCall[g].pc = "idle" /\ mdCall[g].doomed = {}
    BY IdleIs DEF MdInit
  <2>3. CallsKnow
    BY <2>2 DEF CallsKnow, CallKnows
  <2> QED
    BY <2>1, <2>2, <2>3 DEF MdInit, MInv, MdTyped, RefsIssued, PathsSpent, MapsAgree, NoFileLeft
<1>2. MInv /\ [MdNext]_mdVars => MInv'
  <2> SUFFICES ASSUME MInv, [MdNext]_mdVars PROVE MInv'
    OBVIOUS
  <2>0. /\ \A c \in MdClients : c \in MdGoroutines
        /\ \A g \in MdGoroutines : mdCall[g] \in MdCallType
    BY DEF MdGoroutines, MInv, MdTyped
  <2>1. ASSUME NEW p \in MdPaths, Download(p) PROVE MInv'
    <3>1. /\ p \notin mdSpent /\ mdFiles' = mdFiles \cup {p} /\ mdSpent' = mdSpent \cup {p}
          /\ UNCHANGED <<mdRefs, mdScopeToRefs, mdRefToScope, mdOld, mdCall, mdIssued, mdStuck>>
      BY <2>1 DEF Download, mdMaps
    <3>2. MdTyped' /\ RefsIssued' /\ MapsAgree'
      BY <3>1 DEF MInv, MdTyped, RefsIssued, MapsAgree
    <3>3. \A f : Lost(f)' <=> Lost(f)
      BY <3>1 DEF Lost
    <3>4. PathsSpent' /\ Onward
      BY <3>1, <3>3 DEF MInv, PathsSpent, Onward
    <3>5. CallsKnow'
      BY <3>1, <3>4, KnowsStill DEF MInv, CallsKnow
    <3>6. NoFileLeft'
      BY <3>1 DEF MInv, PathsSpent, NoFileLeft
    <3> QED
      BY <3>2, <3>4, <3>5, <3>6 DEF MInv
  <2>2. ASSUME NEW c \in MdClients, NEW p \in MdPaths, NEW s \in MdScopes, StatFile(c, p, s) PROVE MInv'
    <3> DEFINE made == [MdIdle EXCEPT !.pc = "storing", !.path = p, !.scope = s]
    <3>1. made \in MdCallType /\ made.pc = "storing" /\ made.doomed = {} /\ made.path = p
      BY DEF MdIdle, MdCallType
    <3>2. /\ p \in mdSpent /\ mdCall[c].pc = "idle" /\ MdDoes(c, made)
          /\ UNCHANGED <<mdMaps, mdOld, mdFiles, mdIssued, mdSpent, mdStuck>>
      BY <2>2 DEF StatFile, MInv, MdTyped
    <3> HIDE DEF made
    <3> QED
      BY <2>0, <3>1, <3>2, CallKeeps
  <2>3. ASSUME NEW c \in MdClients, NEW r \in DOMAIN mdRefs, Resolve(c, r) PROVE MInv'
    <3> DEFINE made == [MdIdle EXCEPT !.pc = "opening", !.path = mdRefs[r], !.ref = r]
    <3>1. r \in DOMAIN mdIssued /\ mdIssued[r] = mdRefs[r] /\ r \in Nat /\ mdIssued[r] \in MdPaths
      BY DEF MInv, MdTyped, RefsIssued
    <3>2. made \in MdCallType /\ made.pc = "opening" /\ made.doomed = {} /\ made.path = mdRefs[r] /\ made.ref = r
      BY <3>1 DEF MdIdle, MdCallType
    <3>3. /\ mdCall[c].pc = "idle" /\ MdDoes(c, made)
          /\ UNCHANGED <<mdMaps, mdOld, mdFiles, mdIssued, mdSpent, mdStuck>>
      BY <2>3 DEF Resolve
    <3> HIDE DEF made
    <3> QED
      BY <2>0, <3>1, <3>2, <3>3, CallKeeps
  <2>4. ASSUME NEW c \in MdClients, OpenFile(c) \/ SkipMissing(c) PROVE MInv'
    <3>1. /\ mdCall[c].pc \in {"opening", "missing"}
          /\ UNCHANGED <<mdMaps, mdOld, mdFiles, mdIssued, mdSpent, mdStuck>>
      BY <2>4 DEF OpenFile, SkipMissing
    <3>2. ASSUME MdDoes(c, MdIdle) PROVE MInv'
      BY <2>0, <3>1, <3>2, IdleIs, CallKeeps
    <3>3. ASSUME mdCall[c].pc = "opening", mdCall[c].path \notin mdFiles,
                 MdDoes(c, [mdCall[c] EXCEPT !.pc = "missing"])
          PROVE  MInv'
      <4> DEFINE made == [mdCall[c] EXCEPT !.pc = "missing"]
      <4>1. /\ made \in MdCallType /\ made.pc = "missing" /\ made.doomed = mdCall[c].doomed
            /\ made.path = mdCall[c].path /\ made.ref = mdCall[c].ref
        BY <2>0 DEF MdCallType
      <4>2. /\ mdCall[c].doomed = {} /\ mdCall[c].ref \in DOMAIN mdIssued
            /\ mdIssued[mdCall[c].ref] = mdCall[c].path
        BY <2>0, <3>3 DEF MInv, CallsKnow, CallKnows
      <4>3. mdCall[c].path \in mdSpent
        BY <4>2 DEF MInv, PathsSpent
      <4> HIDE DEF made
      <4> QED
        BY <2>0, <3>1, <3>3, <4>1, <4>2, <4>3, CallKeeps DEF made
    <3> QED
      BY <2>4, <3>2, <3>3 DEF OpenFile, SkipMissing
  <2>5. ASSUME NEW c \in MdClients, NEW s \in MdScopes, ReleaseAll(c, s) PROVE MInv'
    <3>1. PICK dropped : dropped = mdScopeToRefs[s]
      OBVIOUS
    <3>2. /\ s \in DOMAIN mdScopeToRefs /\ mdCall[c].pc = "idle"
          /\ MdDoes(c, [MdIdle EXCEPT !.pc = "removing",
                                      !.doomed = {mdRefs[r] : r \in dropped \cap DOMAIN mdRefs}])
          /\ mdRefs' = Without(mdRefs, dropped) /\ mdRefToScope' = Without(mdRefToScope, dropped)
          /\ mdScopeToRefs' = Without(mdScopeToRefs, {s}) /\ mdOld' = mdOld \ dropped
          /\ UNCHANGED <<mdIssued, mdFiles, mdSpent, mdStuck>>
      BY <2>5, <3>1 DEF ReleaseAll
    <3>3. MapsAgree'
      BY <3>1, <3>2, ReleaseKeepsMaps DEF MInv
    <3> QED
      BY <2>0, <3>2, <3>3, DroppingKeeps
  <2>6. ASSUME CleanExpired PROVE MInv'
    <3>1. PICK dropped : dropped = mdOld \cap DOMAIN mdRefs
      OBVIOUS
    <3>2. /\ mdCall["cleaner"].pc = "idle"
          /\ MdDoes("cleaner", [MdIdle EXCEPT !.pc = "removing", !.doomed = {mdRefs[r] : r \in dropped}])
          /\ mdRefs' = Without(mdRefs, dropped) /\ mdRefToScope' = Without(mdRefToScope, dropped)
          /\ mdScopeToRefs' = ScopesAfter(dropped) /\ mdOld' = mdOld \ dropped
          /\ UNCHANGED <<mdIssued, mdFiles, mdSpent, mdStuck>>
      BY <2>6, <3>1 DEF CleanExpired
    <3>3. dropped \cap DOMAIN mdRefs = dropped
      BY <3>1
    <3>4. MapsAgree'
      BY <3>2, CleaningKeepsMaps DEF MInv
    <3>5. "cleaner" \in MdGoroutines
      BY DEF MdGoroutines
    <3> QED
      BY <3>2, <3>3, <3>4, <3>5, DroppingKeeps
  <2>7. ASSUME NEW r \in DOMAIN mdRefs, GrowOld(r) PROVE MInv'
    <3>1. /\ mdOld' = mdOld \cup {r}
          /\ UNCHANGED <<mdRefs, mdScopeToRefs, mdRefToScope, mdFiles, mdCall, mdIssued, mdSpent, mdStuck>>
      BY <2>7 DEF GrowOld, mdMaps
    <3>2. MdTyped' /\ RefsIssued' /\ MapsAgree' /\ NoFileLeft'
      BY <3>1 DEF MInv, MdTyped, RefsIssued, MapsAgree, NoFileLeft
    <3>3. PathsSpent' /\ CallsKnow'
      BY <3>1 DEF MInv, PathsSpent, CallsKnow, CallKnows, Lost
    <3> QED
      BY <3>2, <3>3 DEF MInv
  <2>8. CASE UNCHANGED mdVars
    <3>1. MdTyped' /\ RefsIssued' /\ MapsAgree' /\ NoFileLeft'
      BY <2>8 DEF mdVars, MInv, MdTyped, RefsIssued, MapsAgree, NoFileLeft
    <3>2. PathsSpent' /\ CallsKnow'
      BY <2>8 DEF mdVars, MInv, PathsSpent, CallsKnow, CallKnows, Lost
    <3> QED
      BY <3>1, <3>2 DEF MInv
  <2> QED
    BY <2>1, <2>2, <2>3, <2>4, <2>5, <2>6, <2>7, <2>8, StoreKeeps, RemovingKeeps DEF MdNext
<1> QED
  BY <1>1, <1>2, PTL DEF MdSpec

(* Every reference is in the one scope it names; a reference whose file is *)
(* gone shares its path with one that was dropped; whoever finds no file   *)
(* had a reference that was dropped meanwhile, or such a one; and no file  *)
(* is left that nobody knows of or failed to remove (pkg/media/store.go).  *)
THEOREM FilesFollowReferences == MdSpec => []MediaSafe
<1>1. MInv => MediaSafe
  <2> SUFFICES ASSUME MInv PROVE MediaSafe
    OBVIOUS
  <2>1. MdTypeOK
    BY DEF MInv, MdTyped, RefsIssued, MdTypeOK, MdCallType
  <2>2. ReferenceHasFile
    BY DEF MInv, RefsIssued, PathsSpent, Lost, ReferenceHasFile, SharesPath
  <2>3. MissingWasDropped
    <3> SUFFICES ASSUME NEW c \in MdClients, mdCall[c].pc = "missing", mdCall[c].ref \in DOMAIN mdRefs
                 PROVE  SharesPath(mdCall[c].ref)
      BY DEF MissingWasDropped
    <3>1. CallKnows(c)
      BY DEF MInv, CallsKnow, MdGoroutines
    <3>2. mdIssued[mdCall[c].ref] = mdCall[c].path /\ Lost(mdCall[c].path)
      BY <3>1 DEF CallKnows, MInv, PathsSpent
    <3> QED
      BY <3>2 DEF Lost, SharesPath
  <2> QED
    BY <2>1, <2>2, <2>3 DEF MInv, MediaSafe
<1> QED
  BY <1>1, MediaInvariant, PTL

---------------------------------------------------------------------------
NtChats == NtChannels \cup {"none"}
NtSinces == SUBSET {"failure", "budget", "unasked"}
BeatType == [pc : {"waiting", "begins", "round", "over"}, to : NtChannels \cup {"cli", "none"},
             active : NtChannels \cup {"none", "unsure"}]

(* Whom a notice goes to in a process that began with this chat.           *)
Addressee == IF ntAtStart.active = "none" THEN "cli" ELSE ntAtStart.active

(* While the file was right when the process began, the managers that have *)
(* loaded it hold what it said, the file keeps saying so until the last    *)
(* has, and every heartbeat goes to whom it named.                         *)
LoadedAsOfStart ==
    ntAtStart.since = {} =>
        /\ ntMem["heartbeat"] = ntAtStart.active
        /\ ntPhase # "starting" => ntMem["devices"] = ntAtStart.active
        /\ ntPhase = "starting" => ntFile = ntAtStart.active
        /\ \A w \in Beats : ntBeat[w].pc \in {"begins", "round"} => ntBeat[w].to = Addressee

NInv == NtTypeOK /\ ntAtStart \in [active : NtChats, since : NtSinces]
        /\ FileIsActive /\ NoticeAsOfStart /\ NoticeIsReal /\ LoadedAsOfStart

LEMMA NoticesInvariant == NtSpec => []NInv
<1>1. NtInit => NInv
  <2> SUFFICES ASSUME NtInit PROVE NInv
    OBVIOUS
  <2>1. NtTypeOK /\ ntAtStart \in [active : NtChats, since : NtSinces]
    BY DEF NtInit, NtTypeOK, NtChats, NtSinces, BeatWaits
  <2>2. FileIsActive /\ NoticeAsOfStart /\ NoticeIsReal /\ LoadedAsOfStart
    BY DEF NtInit, FileIsActive, NoticeAsOfStart, NoticeIsReal, LoadedAsOfStart, NtNobody, BeatWaits,
           Managers
  <2> QED
    BY <2>1, <2>2 DEF NInv
<1>2. NInv /\ [NtNext]_ntVars => NInv'
  <2> SUFFICES ASSUME NInv, [NtNext]_ntVars PROVE NInv'
    OBVIOUS
  <2>0. /\ ntFile \in NtChats /\ ntMem \in [Managers -> NtChats] /\ ntActive \in NtChats
        /\ ntBeat \in [Beats -> BeatType] /\ ntSince \in NtSinces
        /\ ntAtStart \in [active : NtChats, since : NtSinces]
        /\ FileIsActive /\ NoticeAsOfStart /\ NoticeIsReal /\ LoadedAsOfStart
        /\ ntPhase \in {"starting", "running", "stopping"}
    BY DEF NInv, NtTypeOK, NtChats, NtSinces, BeatType
  (* What a step has to show of the new state.                             *)
  <2>t. ASSUME ntFile' \in NtChats, ntMem' \in [Managers -> NtChats], ntActive' \in NtChats,
               ntBeat' \in [Beats -> BeatType], ntSince' \in NtSinces,
               ntAtStart' \in [active : NtChats, since : NtSinces],
               ntPhase' \in {"starting", "running", "stopping"},
               FileIsActive', NoticeAsOfStart', NoticeIsReal', LoadedAsOfStart'
        PROVE  NInv'
    BY <2>t DEF NInv, NtTypeOK, NtChats, NtSinces, BeatType
  <2>1. ASSUME NEW c \in NtChannels, NEW saved \in BOOLEAN, UserRound(c, saved) PROVE NInv'
    <3>1. /\ ntPhase = "running" /\ ntMem' = [ntMem EXCEPT !["loop"] = c]
          /\ ntFile' = (IF saved THEN c ELSE ntFile) /\ ntActive' = c
          /\ ntSince' = (IF saved THEN {} ELSE {"failure"})
          /\ UNCHANGED <<ntPhase, ntBeat, ntNotice, ntAtStart>>
      BY <2>1 DEF UserRound, RecordLastChannel, Doubts
    <3>2. /\ ntFile' \in NtChats /\ ntMem' \in [Managers -> NtChats] /\ ntActive' \in NtChats
          /\ ntSince' \in NtSinces
          /\ ntMem'["heartbeat"] = ntMem["heartbeat"] /\ ntMem'["devices"] = ntMem["devices"]
      BY <2>0, <3>1 DEF NtChats, NtSinces, Managers
    <3>3. FileIsActive'
      BY <3>1 DEF FileIsActive
    <3>4. NoticeAsOfStart' /\ NoticeIsReal' /\ LoadedAsOfStart'
      BY <2>0, <3>1, <3>2 DEF NoticeAsOfStart, NoticeIsReal, LoadedAsOfStart, Addressee
    <3> QED
      BY <2>0, <2>t, <3>1, <3>2, <3>3, <3>4
  <2>2. ASSUME NEW c \in NtChannels, RefuseUser(c) PROVE NInv'
    <3>1. /\ ntPhase = "running" /\ ntActive' = c /\ ntSince' = {"budget"}
          /\ UNCHANGED <<ntFile, ntMem, ntPhase, ntBeat, ntNotice, ntAtStart>>
      BY <2>2 DEF RefuseUser
    <3>2. ntActive' \in NtChats /\ ntSince' \in NtSinces
      BY <3>1 DEF NtChats, NtSinces
    <3>3. FileIsActive'
      BY <3>1 DEF FileIsActive
    <3>4. NoticeAsOfStart' /\ NoticeIsReal' /\ LoadedAsOfStart'
      BY <2>0, <3>1 DEF NoticeAsOfStart, NoticeIsReal, LoadedAsOfStart, Addressee
    <3> QED
      BY <2>0, <2>t, <3>1, <3>2, <3>3, <3>4
  (* A round nobody asked for, of a beat (ntBeat may change) or not.       *)
  <2>3. ASSUME NEW c \in NtChannels, NEW saved \in BOOLEAN, RecordLastChannel(c, saved), Unasked,
               UNCHANGED <<ntPhase, ntNotice, ntActive>>, ntBeat' \in [Beats -> BeatType],
               \A w \in Beats : ntBeat'[w].to = ntBeat[w].to
                                /\ (ntBeat'[w].pc \in {"begins", "round"}
                                        => ntBeat[w].pc \in {"begins", "round"})
        PROVE  NInv'
    <3>1. /\ ntMem' = [ntMem EXCEPT !["loop"] = c]
          /\ ntFile' = (IF saved THEN c ELSE ntFile)
          /\ ntSince' = ntSince \cup {"unasked"}
      BY <2>3 DEF RecordLastChannel, Unasked
    <3>2. /\ ntAtStart' \in [active : NtChats, since : NtSinces] /\ ntAtStart'.active = ntAtStart.active
          /\ ntAtStart'.since = (IF ntPhase = "starting" THEN ntAtStart.since \cup {"unasked"}
                                                         ELSE ntAtStart.since)
      BY <2>0, <2>3 DEF Unasked, NtSinces
    <3>3. /\ ntFile' \in NtChats /\ ntMem' \in [Managers -> NtChats] /\ ntSince' \in NtSinces
          /\ ntMem'["heartbeat"] = ntMem["heartbeat"] /\ ntMem'["devices"] = ntMem["devices"]
      BY <2>0, <3>1 DEF NtChats, NtSinces, Managers
    <3>4. FileIsActive'
      BY <3>1 DEF FileIsActive
    <3>5. ntAtStart'.since = {} => ntPhase # "starting" /\ ntAtStart.since = {}
      BY <3>2
    <3>6. NoticeAsOfStart' /\ NoticeIsReal'
      BY <2>0, <2>3, <3>2, <3>5 DEF NoticeAsOfStart, NoticeIsReal
    <3>7. LoadedAsOfStart'
      BY <2>0, <2>3, <3>2, <3>3, <3>5 DEF LoadedAsOfStart, Addressee
    <3> QED
      BY <2>0, <2>3, <2>t, <3>2, <3>3, <3>4, <3>6, <3>7
  <2>4. ASSUME NEW c \in NtChannels, NEW saved \in BOOLEAN, BackgroundRound(c, saved) PROVE NInv'
    BY <2>0, <2>3, <2>4 DEF BackgroundRound
  (* A beat goes on, or says what it has to say.                           *)
  <2>5. ASSUME NEW w \in Beats, NEW b \in BeatType, ntBeat' = [ntBeat EXCEPT ![w] = b],
               b.pc \in {"begins", "round"} =>
                   (ntAtStart.since = {} => b.to = Addressee),
               NoticeAsOfStart', NoticeIsReal',
               UNCHANGED <<ntFile, ntMem, ntPhase, ntActive, ntSince, ntAtStart>>
        PROVE  NInv'
    <3>1. ntBeat' \in [Beats -> BeatType] /\ ntBeat'[w] = b
          /\ \A x \in Beats : x # w => ntBeat'[x] = ntBeat[x]
      BY <2>0, <2>5
    <3>2. FileIsActive'
      BY <2>0, <2>5 DEF FileIsActive
    <3>3. LoadedAsOfStart'
      BY <2>0, <2>5, <3>1 DEF LoadedAsOfStart, Addressee
    <3> QED
      BY <2>0, <2>5, <2>t, <3>1, <3>2, <3>3
  <2>n. ASSUME UNCHANGED <<ntNotice, ntAtStart>> PROVE NoticeAsOfStart' /\ NoticeIsReal'
    BY <2>0, <2>n DEF NoticeAsOfStart, NoticeIsReal
  <2>6. ASSUME NEW w \in Beats, BeatStopped(w) \/ BeatIdle(w) PROVE NInv'
    <3>1. PICK b \in BeatType : ntBeat' = [ntBeat EXCEPT ![w] = b] /\ b.pc \in {"waiting", "over"}
      BY <2>6 DEF BeatStopped, BeatIdle, BeatEnds, BeatWaits, BeatOver, BeatType
    <3>2. UNCHANGED <<ntFile, ntMem, ntPhase, ntActive, ntSince, ntAtStart, ntNotice>>
      BY <2>6 DEF BeatStopped, BeatIdle
    <3> QED
      BY <2>5, <2>n, <3>1, <3>2
  <2>7. ASSUME NEW w \in Beats, BeatFindsTasks(w) PROVE NInv'
    <3>1. PICK to : to = IF ntMem["heartbeat"] = "none" THEN "cli" ELSE ntMem["heartbeat"]
      OBVIOUS
    <3> DEFINE b == [pc |-> "begins", to |-> to,
                     active |-> IF ntSince = {} THEN ntActive ELSE "unsure"]
    <3>2. b \in BeatType /\ b.to = to
      BY <2>0, <3>1 DEF BeatType, NtChats, Managers
    <3>3. /\ ntBeat' = [ntBeat EXCEPT ![w] = b]
          /\ UNCHANGED <<ntFile, ntMem, ntPhase, ntActive, ntSince, ntAtStart, ntNotice>>
      BY <2>7, <3>1 DEF BeatFindsTasks
    <3>4. ntAtStart.since = {} => to = Addressee
      BY <2>0, <3>1 DEF LoadedAsOfStart, Addressee
    <3> HIDE DEF b
    <3> QED
      BY <2>5, <2>n, <3>2, <3>3, <3>4
  <2>8. ASSUME NEW w \in Beats, NEW saved \in BOOLEAN, BeatRound(w, saved) PROVE NInv'
    <3>1. PICK to : to = ntBeat[w].to
      OBVIOUS
    <3> DEFINE b == [ntBeat[w] EXCEPT !.pc = "round"]
    <3>2. ntBeat[w] \in BeatType /\ ntBeat[w].pc = "begins"
      BY <2>0, <2>8 DEF BeatRound
    <3>3. b \in BeatType /\ b.to = to /\ b.pc = "round" /\ to \in NtChannels \cup {"cli", "none"}
      BY <3>1, <3>2 DEF BeatType
    <3>4. /\ ntBeat' = [ntBeat EXCEPT ![w] = b]
          /\ UNCHANGED <<ntPhase, ntNotice, ntActive>>
      BY <2>0, <2>8 DEF BeatRound
    <3> HIDE DEF b
    <3>5. CASE IsInternal(to)
      <4>1. UNCHANGED <<ntMem, ntFile, ntSince, ntAtStart>>
        BY <2>8, <3>1, <3>5 DEF BeatRound
      <4>2. ntAtStart.since = {} => to = Addressee
        BY <2>0, <3>1, <3>2 DEF LoadedAsOfStart
      <4> QED
        BY <2>5, <2>n, <3>3, <3>4, <4>1, <4>2
    <3>6. CASE ~IsInternal(to)
      <4>1. to \in NtChannels
        BY <3>3, <3>6 DEF IsInternal
      <4>2. RecordLastChannel(to, saved) /\ Unasked
        BY <2>8, <3>1, <3>6 DEF BeatRound
      <4>3. ntBeat' \in [Beats -> BeatType]
            /\ \A x \in Beats : ntBeat'[x].to = ntBeat[x].to
                                /\ (ntBeat'[x].pc \in {"begins", "round"}
                                        => ntBeat[x].pc \in {"begins", "round"})
        BY <2>0, <3>1, <3>2, <3>3, <3>4
      <4> QED
        BY <2>3, <3>4, <4>1, <4>2, <4>3
    <3> QED
      BY <3>5, <3>6
  <2>9. ASSUME NEW w \in Beats, BeatTells(w) PROVE NInv'
    <3>0. BeatEnds(w) \in BeatType /\ BeatEnds(w).pc \in {"waiting", "over"}
      BY DEF BeatEnds, BeatWaits, BeatOver, BeatType
    <3>1. PICK b \in BeatType : ntBeat' = [ntBeat EXCEPT ![w] = b] /\ b.pc \in {"waiting", "over"}
      BY <2>9, <3>0 DEF BeatTells
    <3>2. /\ ntBeat[w].pc = "round"
          /\ UNCHANGED <<ntFile, ntMem, ntPhase, ntActive, ntSince, ntAtStart>>
      BY <2>9 DEF BeatTells
    <3>3. \/ ntNotice' = ntNotice
          \/ ntNotice'.by = "heartbeat" /\ ntNotice'.to = ntBeat[w].to
      BY <2>9 DEF BeatTells
    <3>4. ntAtStart.since = {} => ntBeat[w].to = Addressee
      BY <2>0, <3>2 DEF LoadedAsOfStart
    <3>5. NoticeAsOfStart' /\ NoticeIsReal'
      BY <2>0, <3>2, <3>3, <3>4 DEF NoticeAsOfStart, NoticeIsReal, Addressee
    <3> QED
      BY <2>5, <3>1, <3>2, <3>5
  <2>10. ASSUME DevicesLoad PROVE NInv'
    <3>1. /\ ntPhase = "starting" /\ ntPhase' = "running"
          /\ ntMem' = [ntMem EXCEPT !["devices"] = ntFile]
          /\ UNCHANGED <<ntFile, ntBeat, ntNotice, ntActive, ntSince, ntAtStart>>
      BY <2>10 DEF DevicesLoad
    <3>2. /\ ntMem' \in [Managers -> NtChats] /\ ntMem'["devices"] = ntFile
          /\ ntMem'["heartbeat"] = ntMem["heartbeat"]
      BY <2>0, <3>1 DEF Managers
    <3>3. FileIsActive' /\ LoadedAsOfStart'
      BY <2>0, <3>1, <3>2 DEF FileIsActive, LoadedAsOfStart, Addressee
    <3> QED
      BY <2>0, <2>n, <2>t, <3>1, <3>2, <3>3
  <2>11. ASSUME DeviceEvent PROVE NInv'
    <3>1. /\ ntPhase = "running" /\ ~IsInternal(ntMem["devices"])
          /\ ntNotice'.by = "devices" /\ ntNotice'.to = ntMem["devices"]
          /\ UNCHANGED <<ntFile, ntMem, ntPhase, ntBeat, ntActive, ntSince, ntAtStart>>
      BY <2>11 DEF DeviceEvent
    <3>2. NoticeIsReal'
      BY <3>1 DEF NoticeIsReal, IsInternal
    <3>3. NoticeAsOfStart'
      BY <2>0, <3>1 DEF NoticeAsOfStart, LoadedAsOfStart, IsInternal
    <3>4. FileIsActive' /\ LoadedAsOfStart'
      BY <2>0, <3>1 DEF FileIsActive, LoadedAsOfStart, Addressee
    <3> QED
      BY <2>0, <2>t, <3>1, <3>2, <3>3, <3>4
  <2>12. ASSUME ntPhase' = ntPhase \/ (ntPhase = "running" /\ ntPhase' = "stopping"),
                UNCHANGED <<ntFile, ntMem, ntBeat, ntNotice, ntActive, ntSince, ntAtStart>>
         PROVE  NInv'
    <3>1. FileIsActive' /\ LoadedAsOfStart'
      BY <2>0, <2>12 DEF FileIsActive, LoadedAsOfStart, Addressee
    <3> QED
      BY <2>0, <2>12, <2>n, <2>t, <3>1
  <2>13. ASSUME Restart PROVE NInv'
    <3>1. /\ ntMem' = [m \in Managers |-> IF m = "devices" THEN "none" ELSE ntFile]
          /\ ntPhase' = "starting"
          /\ ntBeat' = [w \in Beats |-> BeatWaits]
          /\ ntNotice'.by = "nobody"
          /\ ntAtStart' = [active |-> ntActive, since |-> ntSince]
          /\ UNCHANGED <<ntFile, ntActive, ntSince>>
      BY <2>13 DEF Restart, NtNobody
    <3>2. /\ ntMem' \in [Managers -> NtChats] /\ ntMem'["heartbeat"] = ntFile
          /\ ntAtStart' \in [active : NtChats, since : NtSinces]
          /\ ntAtStart'.active = ntActive /\ ntAtStart'.since = ntSince
      BY <2>0, <3>1 DEF Managers, NtChats
    <3>3. ntBeat' \in [Beats -> BeatType] /\ \A w \in Beats : ntBeat'[w].pc = "waiting"
      BY <3>1 DEF BeatType, BeatWaits
    <3>4. NoticeAsOfStart' /\ NoticeIsReal'
      BY <3>1 DEF NoticeAsOfStart, NoticeIsReal
    <3>5. FileIsActive' /\ LoadedAsOfStart'
      BY <2>0, <3>1, <3>2, <3>3 DEF FileIsActive, LoadedAsOfStart
    <3> QED
      BY <2>0, <2>t, <3>1, <3>2, <3>3, <3>4, <3>5
  <2>14. ASSUME EditTasks \/ Shutdown \/ StopHeartbeat \/ UNCHANGED ntVars PROVE NInv'
    BY <2>12, <2>14 DEF EditTasks, Shutdown, StopHeartbeat, ntVars
  <2> QED
    BY <2>1, <2>2, <2>4, <2>6, <2>7, <2>8, <2>9, <2>10, <2>11, <2>13, <2>14 DEF NtNext
<1> QED
  BY <1>1, <1>2, PTL DEF NtSpec

(* The file names the chat that wrote last unless something is known to    *)
(* have parted them; a process that began with such a file sends all its   *)
(* notices to whom it named, and a device's event to nobody but a real     *)
(* chat (pkg/state/state.go, pkg/heartbeat/service.go).                    *)
THEOREM NoticesGoWhereTheFileSaid == NtSpec => []NoticesSafe
<1>1. NInv => NoticesSafe
  BY DEF NInv, NoticesSafe
<1> QED
  BY <1>1, NoticesInvariant, PTL

---------------------------------------------------------------------------
(* With every user of a session on one lock one call at most is under way.            *)
OneLock == \A v, w \in Writers : Shard[v] = Shard[w]
OneCall == \A v, w \in Writers : pc[v] # "idle" /\ pc[w] # "idle" => v = w

(* The numbered messages a reader of file f finds behind s lines, and the order of    *)
(* what a file or a call holds.                                                       *)
Within(lines) == 1 .. Len(lines)
Seen(f, s) == {f.lines[i] : i \in {j \in Within(f.lines) : j > s}} \ {Junk}
RisingTo(lines, m) ==
    /\ \A i \in Within(lines) : lines[i] < m
    /\ \A i, j \in Within(lines) : i < j => lines[i] = Junk \/ lines[j] = Junk \/ lines[i] < lines[j]

(* Every line is older than the message of an append under way, which is older than   *)
(* those to come.                                                                     *)
LinesRise == RisingTo(file.lines, next) /\ RisingTo(disk.lines, next)

(* What a power loss keeps is a beginning of the file, but that a line torn then may  *)
(* have been written on.  What is not sure to be kept was not acknowledged, nor was a *)
(* torn line.                                                                         *)
Loose(i) == i > Len(disk.lines) \/ (disk.torn /\ i = Len(disk.lines))
DiskBegins ==
    /\ Len(disk.lines) <= Len(file.lines)
    /\ \A i \in Within(disk.lines) : ~Loose(i) => file.lines[i] = disk.lines[i]
    /\ \A i \in Within(file.lines) : Loose(i) => file.lines[i] \notin acked
    /\ file.torn => Loose(Len(file.lines))
    /\ disk.torn => disk.lines[Len(disk.lines)] \notin acked
    /\ \A m \in acked : m < next

(* Where a call stands and what it carries: at stage p with c.                        *)
Placed(p, c) ==
    \/ p = "idle"
    \/ /\ p = "append" /\ c.op = "add" /\ c.msg \in 1 .. next - 1 /\ RisingTo(file.lines, c.msg)
       /\ \A m \in acked : m < c.msg
    \/ /\ p = "sync" /\ c.op = "add" /\ c.msg \in 1 .. next - 1 /\ ~file.torn
       /\ \A m \in acked : m < c.msg
    \/ /\ p = "meta" /\ c.op = "add" /\ c.msg \in 1 .. next - 1 /\ c.skip = skip /\ disk = file /\ ~file.torn
    \/ p = "meta" /\ c.op = "summary" /\ c.skip = skip
    \/ p = "meta" /\ c.op = "truncate" /\ (c.skip = skip \/ c.skip <= Len(file.lines))
    \/ /\ p \in {"meta", "rewrite"} /\ c.op \in {"set", "compact"} /\ c.skip = 0
       /\ ToSet(c.lines) \subseteq ToSet(file.lines) \ {Junk} /\ RisingTo(c.lines, next)
       /\ p = "meta" /\ c.op = "compact" => ToSet(c.lines) = Seen(file, skip)
       /\ p = "rewrite" => skip = 0 /\ Cardinality(live \ ToSet(c.lines)) <= tears + faults
CallsPlaced == \A w \in Writers : Placed(pc[w], call[w])

(* The lines that are not synced are of calls that failed, one each, but for the line *)
(* of the call under way.                                                             *)
Syncing == IF \E w \in Writers : pc[w] = "sync" THEN 1 ELSE 0
Unsynced ==
    /\ skip <= Len(disk.lines) + faults
    /\ Len(file.lines) <= Len(disk.lines) + faults + Syncing

(* The account of what is lost.  It holds of the file, and of what a power loss would *)
(* make of it, and counts the message that a torn line, or an offset beyond the end,  *)
(* will still cost.  A message counts from the moment its line is written.            *)
Begun(stages) == {call[w].msg : w \in {v \in Writers : pc[v] \in stages /\ call[v].op = "add"}}
Missing(f, stages) == (live \cup Begun(stages)) \ Seen(f, skip)
Losses(f, stages) == Cardinality(Missing(f, stages)) + (IF f.torn THEN 1 ELSE 0)
LossAccounted ==
    /\ Losses(file, {"sync", "meta"}) <= tears + faults
    /\ Losses(file, {"sync", "meta"}) + skip <= tears + faults + Len(file.lines)
    /\ Losses(disk, {"meta"}) <= tears + faults
    /\ Losses(disk, {"meta"}) + skip <= tears + faults + Len(disk.lines)
    /\ Losses(disk, {"meta"}) + Len(file.lines) <= tears + faults + Len(disk.lines) + Syncing

JsInv == TypeOK /\ OneCall /\ LinesRise /\ DiskBegins /\ CallsPlaced /\ Unsynced /\ LossAccounted

(* The ranks of a finite set of numbers.                                             *)
UpTo(K, i) == {j \in K : j <= i}
LEMMA RanksAre ==
  ASSUME NEW K \in SUBSET Nat, IsFiniteSet(K)
  PROVE  /\ \A i \in K : Cardinality(UpTo(K, i)) \in 1 .. Cardinality(K)
         /\ \A i, j \in K : i < j => Cardinality(UpTo(K, i)) < Cardinality(UpTo(K, j))
         /\ \A n \in 1 .. Cardinality(K) : \E i \in K : Cardinality(UpTo(K, i)) = n
<1> DEFINE n == Cardinality(K)
           rank == [i \in K |-> Cardinality(UpTo(K, i))]
<1>1. n \in Nat
  BY FS_CardinalityType
<1>2. ASSUME NEW i \in K
      PROVE  IsFiniteSet(UpTo(K, i)) /\ Cardinality(UpTo(K, i)) \in 1 .. n
  <2>1. UpTo(K, i) \subseteq K /\ i \in UpTo(K, i)
    BY DEF UpTo
  <2>2. IsFiniteSet(UpTo(K, i)) /\ Cardinality(UpTo(K, i)) <= n
    BY <2>1, FS_Subset
  <2>3. Cardinality(UpTo(K, i)) \in Nat /\ Cardinality(UpTo(K, i)) # 0
    BY <2>1, <2>2, FS_CardinalityType, FS_EmptySet
  <2> QED
    BY <1>1, <2>2, <2>3
<1>3. ASSUME NEW i \in K, NEW j \in K, i < j
      PROVE  Cardinality(UpTo(K, i)) < Cardinality(UpTo(K, j))
  <2>1. UpTo(K, i) \subseteq UpTo(K, j)
    <3> SUFFICES ASSUME NEW k \in UpTo(K, i) PROVE k \in UpTo(K, j)
      OBVIOUS
    <3>1. k \in K /\ k <= i /\ k \in Nat /\ i \in Nat /\ j \in Nat
      BY DEF UpTo
    <3>2. k <= j
      BY <1>3, <3>1
    <3> QED
      BY <3>1, <3>2 DEF UpTo
  <2>4. j \in UpTo(K, j) /\ j \notin UpTo(K, i)
    <3>1. i \in Nat /\ j \in Nat
      OBVIOUS
    <3>2. j <= j /\ ~(j <= i)
      BY <1>3, <3>1
    <3> QED
      BY <3>2 DEF UpTo
  <2>2. /\ Cardinality(UpTo(K, i)) <= Cardinality(UpTo(K, j))
        /\ Cardinality(UpTo(K, i)) # Cardinality(UpTo(K, j))
    BY <1>2, <2>1, <2>4, FS_Subset
  <2> QED
    BY <1>1, <1>2, <2>2
<1>4. rank \in Injection(K, 1 .. n)
  <2>1. rank \in [K -> 1 .. n]
    BY <1>2
  <2>2. ASSUME NEW i \in K, NEW j \in K, i # j PROVE rank[i] # rank[j]
    <3>1. rank[i] = Cardinality(UpTo(K, i)) /\ rank[j] = Cardinality(UpTo(K, j))
      OBVIOUS
    <3>2. i < j \/ j < i
      BY <2>2
    <3> QED
      BY <1>1, <1>2, <1>3, <3>1, <3>2
  <2> HIDE DEF rank
  <2> QED
    BY <2>1, <2>2 DEF Injection, IsInjective
<1>5. IsFiniteSet(1 .. n) /\ Cardinality(1 .. n) = n
  BY <1>1, FS_Interval
<1>6. rank \in Surjection(K, 1 .. n)
  <2> HIDE DEF rank
  <2> QED
    BY <1>4, <1>5, FS_Injection
<1>7. \A k \in 1 .. n : \E i \in K : rank[i] = k
  <2> HIDE DEF rank
  <2> QED
    BY <1>6 DEF Surjection
<1> QED
  BY <1>2, <1>3, <1>7

(* What a reader finds: the numbered messages behind the offset, in their order.      *)
LEMMA HistoryIs ==
  ASSUME NEW X, NEW f, f.lines \in Seq(X), NEW s \in Nat, NEW m \in Nat, RisingTo(f.lines, m)
  PROVE  /\ History(f, s) \in Seq(X) /\ ToSet(History(f, s)) = Seen(f, s)
         /\ \A i \in Within(History(f, s)) : History(f, s)[i] \in Seen(f, s)
         /\ \A i, j \in Within(History(f, s)) : i < j => History(f, s)[i] < History(f, s)[j]
<1> DEFINE q == f.lines
           kept == {i \in s + 1 .. Len(q) : q[i] # Junk}
           nth(n) == CHOOSE i \in kept : Cardinality({j \in kept : j <= i}) = n
           c == Cardinality(kept)
           r == History(f, s)
<1>0. q \in Seq(X)
  OBVIOUS
<1>4. r = [n \in 1 .. c |-> q[nth(n)]]
  BY DEF History
<1>15. RisingTo(q, m)
  OBVIOUS
<1>16. Seen(f, s) = {q[i] : i \in {j \in Within(q) : j > s}} \ {Junk}
  BY DEF Seen
<1> HIDE DEF q
<1>1. DOMAIN q = 1 .. Len(q) /\ Len(q) \in Nat
  BY <1>0
<1>2. kept \in SUBSET Nat /\ IsFiniteSet(kept) /\ kept \subseteq 1 .. Len(q)
  <2>1. IsFiniteSet(1 .. Len(q))
    BY <1>1, FS_Interval
  <2>2. kept \subseteq 1 .. Len(q)
    BY <1>1
  <2> QED
    BY <1>1, <2>1, <2>2, FS_Subset
<1>3. c \in Nat
  BY <1>2, FS_CardinalityType
<1>5. \A n \in 1 .. c : nth(n) \in kept /\ Cardinality(UpTo(kept, nth(n))) = n
  <2> HIDE DEF kept
  <2> QED
    BY <1>2, RanksAre DEF UpTo
<1>6. Seen(f, s) = {q[i] : i \in kept}
  BY <1>1, <1>16 DEF Within
<1> HIDE DEF nth, r, c
<1>7. \A n \in 1 .. c : q[nth(n)] \in X /\ q[nth(n)] \in Seen(f, s)
  <2> SUFFICES ASSUME NEW n \in 1 .. c PROVE q[nth(n)] \in X /\ q[nth(n)] \in Seen(f, s)
    OBVIOUS
  <2>1. nth(n) \in kept
    BY <1>5
  <2> HIDE DEF kept
  <2>2. q[nth(n)] \in Seen(f, s)
    BY <1>6, <2>1
  <2>3. nth(n) \in DOMAIN q
    BY <1>1, <1>2, <2>1
  <2> QED
    BY <1>0, <2>2, <2>3
<1>8. r \in Seq(X) /\ Len(r) = c /\ DOMAIN r = 1 .. c
  <2> HIDE DEF kept, q
  <2> QED
    BY <1>3, <1>4, <1>7
<1>9. \A n, k \in 1 .. c : n < k => nth(n) < nth(k)
  <2> SUFFICES ASSUME NEW n \in 1 .. c, NEW k \in 1 .. c, n < k, ~(nth(n) < nth(k))
               PROVE  FALSE
    OBVIOUS
  <2>1. /\ nth(n) \in kept /\ nth(k) \in kept
        /\ Cardinality(UpTo(kept, nth(n))) = n /\ Cardinality(UpTo(kept, nth(k))) = k
    BY <1>5
  <2>2. nth(n) = nth(k) \/ nth(k) < nth(n)
    <3>1. nth(n) \in Nat /\ nth(k) \in Nat
      BY <1>2, <2>1
    <3> QED
      BY <3>1
  <2>3. ~(k < n) /\ k # n
    BY <1>3
  <2> HIDE DEF kept
  <2> QED
    BY <1>2, <2>1, <2>2, <2>3, RanksAre
<1>10. ASSUME NEW i \in kept PROVE q[i] \in ToSet(r)
  <2>1. PICK n \in 1 .. c : n = Cardinality(UpTo(kept, i))
    <3> HIDE DEF kept
    <3> QED
      BY <1>2, RanksAre DEF c
  <2>2. nth(n) \in kept /\ Cardinality(UpTo(kept, nth(n))) = Cardinality(UpTo(kept, i))
    BY <1>5, <2>1
  <2>3. nth(n) = i
    <3>1. nth(n) \in Nat /\ i \in Nat /\ n \in Nat
      BY <1>2, <1>3, <2>2
    <3>2. ~(nth(n) < i) /\ ~(i < nth(n))
      <4> HIDE DEF kept
      <4> QED
        BY <1>2, <2>1, <2>2, <3>1, RanksAre
    <3> QED
      BY <3>1, <3>2
  <2> QED
    BY <1>4, <1>8, <2>1, <2>3 DEF ToSet
<1>11. \A n \in 1 .. c : r[n] = q[nth(n)]
  BY <1>4
<1>12. ToSet(r) = Seen(f, s)
  <2>1. \A x \in ToSet(r) : x \in Seen(f, s)
    BY <1>7, <1>8, <1>11 DEF ToSet
  <2>2. \A x \in Seen(f, s) : x \in ToSet(r)
    BY <1>6, <1>10
  <2> QED
    BY <2>1, <2>2
<1>13. ASSUME NEW n \in 1 .. c, NEW k \in 1 .. c, n < k PROVE r[n] < r[k]
  <2>1. nth(n) \in kept /\ nth(k) \in kept /\ nth(n) < nth(k)
    BY <1>5, <1>9, <1>13
  <2>2. q[nth(n)] # Junk /\ q[nth(k)] # Junk /\ nth(n) \in Within(q) /\ nth(k) \in Within(q)
    BY <1>2, <2>1 DEF Within
  <2>3. q[nth(n)] < q[nth(k)]
    BY <1>15, <2>1, <2>2 DEF RisingTo
  <2> QED
    BY <1>11, <2>3
<1>14. Within(r) = 1 .. c
  BY <1>8 DEF Within
<1> QED
  BY <1>7, <1>8, <1>11, <1>12, <1>13, <1>14 DEF r

(* Without one of its messages a history is in order still.                           *)
LEMMA RemovedAre ==
  ASSUME NEW X, NEW h \in Seq(X), NEW n \in 1 .. Len(h)
  PROVE  /\ RemoveAt(h, n) \in Seq(X) /\ Len(RemoveAt(h, n)) = Len(h) - 1
         /\ \A i \in 1 .. Len(h) - 1 : RemoveAt(h, n)[i] = IF i < n THEN h[i] ELSE h[i + 1]
<1>1. Len(h) \in Nat /\ n \in Nat /\ n - 1 \in 0 .. Len(h)
  OBVIOUS
<1>2. /\ SubSeq(h, 1, n - 1) \in Seq(X) /\ Len(SubSeq(h, 1, n - 1)) = n - 1
      /\ \A i \in 1 .. n - 1 : SubSeq(h, 1, n - 1)[i] = h[i]
  BY <1>1
<1>3. /\ SubSeq(h, n + 1, Len(h)) \in Seq(X) /\ Len(SubSeq(h, n + 1, Len(h))) = Len(h) - n
      /\ \A i \in 1 .. Len(h) - n : SubSeq(h, n + 1, Len(h))[i] = h[n + i]
  BY <1>1
<1> DEFINE a == SubSeq(h, 1, n - 1)
           b == SubSeq(h, n + 1, Len(h))
<1>4. RemoveAt(h, n) = a \o b
  BY DEF RemoveAt
<1> HIDE DEF a, b
<1>5. /\ a \o b \in Seq(X) /\ Len(a \o b) = Len(h) - 1
      /\ \A i \in 1 .. Len(h) - 1 : (a \o b)[i] = IF i <= n - 1 THEN a[i] ELSE b[i - (n - 1)]
  <2>1. a \in Seq(X) /\ b \in Seq(X) /\ Len(a) = n - 1 /\ Len(b) = Len(h) - n
    BY <1>2, <1>3 DEF a, b
  <2>2. Len(a) + Len(b) = Len(h) - 1
    BY <1>1, <2>1
  <2>3. /\ a \o b \in Seq(X) /\ Len(a \o b) = Len(a) + Len(b)
        /\ \A i \in 1 .. Len(a) + Len(b) : (a \o b)[i] = IF i <= Len(a) THEN a[i] ELSE b[i - Len(a)]
    <3>1. a \in Seq(X) /\ b \in Seq(X)
      BY <2>1
    <3> HIDE DEF a, b
    <3>2. a \o b \in Seq(X)
      BY ONLY <3>1
    <3>3. Len(a \o b) = Len(a) + Len(b)
      BY ONLY <3>1
    <3>4. \A i \in 1 .. Len(a) + Len(b) : (a \o b)[i] = IF i <= Len(a) THEN a[i] ELSE b[i - Len(a)]
      BY ONLY <3>1
    <3> QED
      BY ONLY <3>2, <3>3, <3>4
  <2> QED
    BY ONLY <2>1, <2>2, <2>3
<1>6. ASSUME NEW i \in 1 .. Len(h) - 1 PROVE (a \o b)[i] = IF i < n THEN h[i] ELSE h[i + 1]
  <2>1. CASE i < n
    <3>1. i \in 1 .. n - 1
      BY <1>1, <2>1
    <3> QED
      BY <1>2, <1>5, <2>1, <3>1 DEF a
  <2>2. CASE ~(i < n)
    <3>1. i - (n - 1) \in 1 .. Len(h) - n /\ n + (i - (n - 1)) = i + 1 /\ ~(i <= n - 1)
      BY <1>1, <2>2
    <3> QED
      BY <1>3, <1>5, <2>2, <3>1 DEF b
  <2> QED
    BY <2>1, <2>2
<1> QED
  BY <1>4, <1>5, <1>6

(* What a set keeps of the history it was given.                                      *)
LEMMA ReplacementsAre ==
  ASSUME NEW X, file.lines \in Seq(X), skip \in Nat, NEW m \in Nat, RisingTo(file.lines, m), NEW r \in Replacements
  PROVE  /\ r \in Seq(X) /\ ToSet(r) \subseteq Seen(file, skip)
         /\ \A i, j \in Within(r) : i < j => r[i] < r[j]
<1> DEFINE h == History(file, skip)
<1>1. /\ h \in Seq(X) /\ \A i \in 1 .. Len(h) : h[i] \in Seen(file, skip)
      /\ \A i, j \in 1 .. Len(h) : i < j => h[i] < h[j]
  BY HistoryIs DEF Within
<1> HIDE DEF h
<1>2. CASE r = <<>>
  BY <1>2 DEF ToSet, Within
<1>3. ASSUME NEW n \in 1 .. Len(h), r = RemoveAt(h, n)
      PROVE  /\ r \in Seq(X) /\ ToSet(r) \subseteq Seen(file, skip)
             /\ \A i, j \in Within(r) : i < j => r[i] < r[j]
  <2>1. /\ r \in Seq(X) /\ Len(r) = Len(h) - 1 /\ Len(h) \in Nat /\ DOMAIN r = 1 .. Len(r)
        /\ \A i \in 1 .. Len(h) - 1 : r[i] = IF i < n THEN h[i] ELSE h[i + 1]
    <3>1. /\ RemoveAt(h, n) \in Seq(X) /\ Len(RemoveAt(h, n)) = Len(h) - 1
          /\ \A i \in 1 .. Len(h) - 1 : RemoveAt(h, n)[i] = IF i < n THEN h[i] ELSE h[i + 1]
      BY <1>1, RemovedAre
    <3>2. r \in Seq(X) => DOMAIN r = 1 .. Len(r)
      OBVIOUS
    <3>3. Len(h) \in Nat
      BY <1>1
    <3> QED
      BY <1>3, <3>1, <3>2, <3>3
  <2>2. \A i \in 1 .. Len(r) : \E k \in 1 .. Len(h) : r[i] = h[k] /\ k = (IF i < n THEN i ELSE i + 1)
    <3> DEFINE at(i) == IF i < n THEN i ELSE i + 1
    <3>1. \A i \in 1 .. Len(r) : at(i) \in 1 .. Len(h)
      BY <2>1
    <3>2. \A i \in 1 .. Len(r) : r[i] = h[at(i)]
      BY <2>1
    <3>3. \A i : at(i) = (IF i < n THEN i ELSE i + 1)
      OBVIOUS
    <3> HIDE DEF at
    <3> QED
      BY <3>1, <3>2, <3>3
  <2>3. ToSet(r) \subseteq Seen(file, skip)
    BY <1>1, <2>1, <2>2 DEF ToSet
  <2>4. ASSUME NEW i \in Within(r), NEW j \in Within(r), i < j PROVE r[i] < r[j]
    <3>1. i \in 1 .. Len(r) /\ j \in 1 .. Len(r)
      BY DEF Within
    <3>2. PICK k \in 1 .. Len(h) : r[i] = h[k] /\ k = (IF i < n THEN i ELSE i + 1)
      BY <2>2, <3>1
    <3>3. PICK l \in 1 .. Len(h) : r[j] = h[l] /\ l = (IF j < n THEN j ELSE j + 1)
      BY <2>2, <3>1
    <3>4. k < l
      BY <2>1, <2>4, <3>1, <3>2, <3>3
    <3> QED
      BY <1>1, <3>2, <3>3, <3>4
  <2> QED
    BY <2>1, <2>3, <2>4
<1> QED
  BY <1>2, <1>3 DEF Replacements, h

(* What a write puts behind the lines of a file, and what a power loss may leave.     *)
Reach(f) == IF f.torn THEN Len(f.lines) ELSE Len(f.lines) + 1
LEMMA BehindIs ==
  ASSUME NEW f \in File, f.torn => f.lines # <<>>, NEW m \in AnyLine, NEW t \in BOOLEAN
  PROVE  /\ Behind(f, m, t) \in File /\ Behind(f, m, t).torn = t
         /\ Len(Behind(f, m, t).lines) = Reach(f) /\ Reach(f) \in Nat \ {0}
         /\ \A i \in 1 .. Reach(f) - 1 : Behind(f, m, t).lines[i] = f.lines[i]
         /\ Behind(f, m, t).lines[Reach(f)] = IF f.torn THEN Junk ELSE m
<1> USE DEF Reach
<1> DEFINE q == f.lines
           g == Behind(f, m, t)
<1>1. q \in Seq(AnyLine) /\ f.torn \in BOOLEAN /\ Len(q) \in Nat
  BY DEF File
<1>2. Junk \in AnyLine
  BY JsAssumption DEF Junk, AnyLine
<1>3. CASE f.torn
  <2>1. q # <<>>
    BY <1>3
  <2>2. g.lines = Append(Front(q), Junk) /\ g.torn = t /\ g = [lines |-> Append(Front(q), Junk), torn |-> t]
    BY <1>3 DEF Behind
  <2> HIDE DEF q, g
  <2>3. Len(q) \in Nat \ {0}
    BY <1>1, <2>1
  <2>4. /\ Front(q) \in Seq(AnyLine) /\ Len(Front(q)) = Len(q) - 1
        /\ \A i \in 1 .. Len(q) - 1 : Front(q)[i] = q[i]
    <3>1. Len(q) - 1 \in 0 .. Len(q) /\ Front(q) = SubSeq(q, 1, Len(q) - 1)
      BY <2>3 DEF Front
    <3>2. ASSUME NEW l \in 0 .. Len(q)
          PROVE  /\ SubSeq(q, 1, l) \in Seq(AnyLine) /\ Len(SubSeq(q, 1, l)) = l
                 /\ \A i \in 1 .. l : SubSeq(q, 1, l)[i] = q[i]
      BY <1>1
    <3> QED
      BY <3>1, <3>2
  <2> DEFINE r == Front(q)
             x == Append(r, Junk)
  <2> HIDE DEF r
  <2>5. /\ x \in Seq(AnyLine) /\ Len(x) = Len(r) + 1 /\ x[Len(r) + 1] = Junk
        /\ \A i \in 1 .. Len(r) : x[i] = r[i]
    BY <1>2, <2>4 DEF r
  <2> HIDE DEF x
  <2>6. Len(x) = Len(q) /\ x[Len(q)] = Junk /\ \A i \in 1 .. Len(q) - 1 : x[i] = q[i]
    BY <2>3, <2>4, <2>5 DEF r
  <2>7. g = [lines |-> x, torn |-> t] /\ g.lines = x /\ g.torn = t
    BY <2>2 DEF x, r
  <2>8. g \in File
    BY <2>5, <2>7 DEF File
  <2> QED
    BY <1>1, <1>3, <2>3, <2>6, <2>7, <2>8 DEF g, q
<1>4. CASE ~f.torn
  <2> DEFINE x == Append(q, m)
  <2>1. g = [lines |-> x, torn |-> t]
    BY <1>4 DEF Behind
  <2> HIDE DEF q
  <2>2. /\ x \in Seq(AnyLine) /\ Len(x) = Len(q) + 1 /\ x[Len(q) + 1] = m
        /\ \A i \in 1 .. Len(q) : x[i] = q[i]
    BY <1>1
  <2> HIDE DEF g, x
  <2>3. g \in File /\ g.lines = x /\ g.torn = t
    BY <2>1, <2>2 DEF File
  <2> QED
    BY <1>1, <1>4, <2>2, <2>3 DEF g, q
<1> QED
  BY <1>3, <1>4, <1>1

LEMMA WroteIs ==
  ASSUME NEW f \in File, f.torn => f.lines # <<>>, NEW m \in AnyLine, NEW t \in BOOLEAN, NEW g, g = Behind(f, m, t)
  PROVE  /\ g \in File /\ g.torn = t /\ g.lines # <<>> /\ Len(g.lines) = Reach(f) /\ Reach(f) \in Nat \ {0}
         /\ \A i \in 1 .. Reach(f) - 1 : g.lines[i] = f.lines[i]
         /\ g.lines[Reach(f)] \in {Junk, m}
         /\ ~f.torn => g.lines[Reach(f)] = m
  BY BehindIs

LEMMA CutIs ==
  ASSUME NEW X, NEW q \in Seq(X), NEW k \in 1 .. Len(q), NEW x \in X
  PROVE  /\ SubSeq(q, 1, k) \in Seq(X) /\ Len(SubSeq(q, 1, k)) = k /\ k \in Nat \ {0}
         /\ \A i \in 1 .. k : SubSeq(q, 1, k)[i] = q[i]
         /\ LET r == [SubSeq(q, 1, k) EXCEPT ![k] = x] IN
               r \in Seq(X) /\ Len(r) = k /\ r[k] = x /\ \A i \in 1 .. k : i # k => r[i] = q[i]
<1> DEFINE c == SubSeq(q, 1, k)
           r == [c EXCEPT ![k] = x]
<1>1. c \in Seq(X) /\ Len(c) = k /\ k \in Nat \ {0} /\ \A i \in 1 .. k : c[i] = q[i]
  OBVIOUS
<1> HIDE DEF c
<1>2. DOMAIN c = 1 .. k
  BY <1>1
<1>3. r = [i \in 1 .. k |-> IF i = k THEN x ELSE c[i]]
  BY <1>2
<1>4. \A i \in 1 .. k : c[i] \in X
  BY <1>1, <1>2
<1>5. /\ r \in Seq(X) /\ Len(r) = k /\ r[k] = x /\ \A i \in 1 .. k : i # k => r[i] = q[i]
  BY <1>1, <1>3, <1>4
<1> QED
  BY <1>1, <1>5 DEF c

Between(f) ==
    /\ \A i \in Within(f.lines) : f.lines[i] = file.lines[i] \/ (f.torn /\ i = Len(f.lines) /\ f.lines[i] = Junk)
    /\ f.torn => Loose(Len(f.lines))
LEMMA SurvivorsAre ==
  ASSUME TypeOK, DiskBegins, NEW f \in Survivors
  PROVE  /\ f \in File /\ (f.torn => f.lines # <<>>)
         /\ Len(disk.lines) <= Len(f.lines) /\ Len(f.lines) <= Len(file.lines)
         /\ f = disk \/ f = file \/ Between(f)
<1> DEFINE q == file.lines
           n == Len(disk.lines)
           first == IF disk.torn THEN n ELSE n + 1
<1>1. /\ q \in Seq(AnyLine) /\ Len(q) \in Nat /\ n \in Nat /\ n <= Len(q) /\ disk.torn \in BOOLEAN
      /\ disk.torn => n # 0 /\ file \in File /\ disk \in File
  <2>1. file \in File /\ disk \in File /\ (disk.torn => disk.lines # <<>>)
    BY DEF TypeOK
  <2>2. disk.lines \in Seq(AnyLine) /\ q \in Seq(AnyLine) /\ disk.torn \in BOOLEAN
    BY <2>1 DEF File
  <2>3. Len(q) \in Nat /\ n \in Nat /\ (disk.lines # <<>> => n # 0)
    BY <2>2
  <2> QED
    BY <2>1, <2>2, <2>3 DEF DiskBegins
<1>2. CASE f = disk \/ f = file
  BY <1>1, <1>2 DEF TypeOK, DiskBegins
<1>3. CASE f # disk /\ f # file
  <2>1. PICK k \in first .. Len(q) :
          \/ f = [lines |-> SubSeq(q, 1, k), torn |-> TRUE]
          \/ f = [lines |-> [SubSeq(q, 1, k) EXCEPT ![k] = Junk], torn |-> TRUE]
          \/ f = [lines |-> SubSeq(q, 1, k), torn |-> FALSE]
    BY <1>3 DEF Survivors
  <2>2. k \in 1 .. Len(q) /\ n <= k /\ k <= Len(q) /\ (k > n \/ (disk.torn /\ k = n)) /\ k \in Nat \ {0}
    BY <1>1
  <2>3. Junk \in AnyLine
    BY JsAssumption DEF Junk, AnyLine
  <2> DEFINE c == SubSeq(q, 1, k)
             r == [c EXCEPT ![k] = Junk]
  <2>4. /\ c \in Seq(AnyLine) /\ Len(c) = k /\ \A i \in 1 .. k : c[i] = q[i]
        /\ r \in Seq(AnyLine) /\ Len(r) = k /\ r[k] = Junk /\ \A i \in 1 .. k : i # k => r[i] = q[i]
    BY <1>1, <2>2, <2>3, CutIs
  <2>5. Loose(k)
    BY <2>2 DEF Loose
  <2> HIDE DEF c, r, q, n, first
  <2>6. CASE f = [lines |-> c, torn |-> TRUE] \/ f = [lines |-> c, torn |-> FALSE]
    <3>1. f.lines = c /\ f \in File /\ f.lines # <<>>
      <4>1. f.lines = c /\ f \in File
        <5>1. PICK t \in BOOLEAN : f = [lines |-> c, torn |-> t]
          BY <2>6
        <5>2. c \in Seq(AnyLine)
          BY <2>4
        <5> QED
          BY ONLY <5>1, <5>2 DEF File
      <4>2. c # <<>>
        BY <2>2, <2>4
      <4> QED
        BY <4>1, <4>2
    <3>2. Between(f)
      BY <2>4, <2>5, <3>1 DEF Between, Within, q
    <3> QED
      BY <2>2, <2>4, <3>1, <3>2 DEF q, n
  <2>7. CASE f = [lines |-> r, torn |-> TRUE]
    <3>1. f.lines = r /\ f \in File /\ f.lines # <<>> /\ f.torn
      BY <2>2, <2>4, <2>7 DEF File
    <3>2. Between(f)
      BY <2>4, <2>5, <3>1 DEF Between, Within, q
    <3> QED
      BY <2>2, <2>4, <3>1, <3>2 DEF q, n
  <2> QED
    BY <2>1, <2>6, <2>7 DEF c, r
<1> QED
  BY <1>2, <1>3

(* The steps, as the one writer that is in a call takes them.                         *)
Stages == {"idle", "append", "sync", "meta", "rewrite"}
Operations == {"none", "add", "summary", "truncate", "set", "compact"}
CallType == [op : Operations, msg : AnyLine, skip : Nat, lines : Seq(AnyLine)]
Alone(w) == \A v \in Writers : v # w => pc[v] = "idle"
Turn(w, p, c) == pc' = [pc EXCEPT ![w] = p] /\ call' = [call EXCEPT ![w] = c]
Carries(o, s, l) ==
    \/ o = "summary" /\ s = skip /\ l = <<>>
    \/ o = "truncate" /\ l = <<>> /\ (s = skip \/ s <= Len(file.lines))
    \/ /\ o \in {"set", "compact"} /\ s = 0 /\ RisingTo(l, next) /\ ToSet(l) \subseteq Seen(file, skip)
       /\ o = "compact" => ToSet(l) = Seen(file, skip)
Starts(w) ==
    /\ pc[w] = "idle"
    /\ \E o \in Operations, s \in Nat, l \in Seq(AnyLine) : Carries(o, s, l) /\ Turn(w, "meta", Called(o, 0, s, l))
    /\ UNCHANGED <<file, disk, skip, next, acked, gone, tears, crashes, faults>>
Adds(w) ==
    /\ pc[w] = "idle" /\ next <= MaxMessages /\ next' = next + 1 /\ Turn(w, "append", Called("add", next, 0, <<>>))
    /\ UNCHANGED <<file, disk, skip, acked, gone, tears, crashes, faults>>
Writes(w) ==
    /\ pc[w] = "append" /\ file' = Behind(file, call[w].msg, FALSE) /\ Turn(w, "sync", call[w])
    /\ UNCHANGED <<disk, skip, next, acked, gone, tears, crashes, faults>>
Tears(w) ==
    /\ pc[w] = "append" /\ faults < MaxFaults /\ faults' = faults + 1 /\ Turn(w, "idle", NoCall)
    /\ \/ file' = file /\ tears' = tears
       \/ file' = Behind(file, Junk, TRUE) /\ tears' = tears + 1
    /\ UNCHANGED <<disk, skip, next, acked, gone, crashes>>
Fails(w) ==
    /\ pc[w] \in {"sync", "meta", "rewrite"} /\ faults < MaxFaults /\ faults' = faults + 1 /\ Turn(w, "idle", NoCall)
    /\ UNCHANGED <<file, disk, skip, next, acked, gone, tears, crashes>>
Syncs(w) ==
    /\ pc[w] = "sync" /\ disk' = file /\ Turn(w, "meta", Called(call[w].op, call[w].msg, skip, call[w].lines))
    /\ UNCHANGED <<file, skip, next, acked, gone, tears, crashes, faults>>
Acks(w) ==
    /\ pc[w] = "meta" /\ call[w].op = "add" /\ acked' = acked \cup {call[w].msg} /\ skip' = call[w].skip
    /\ Turn(w, "idle", NoCall)
    /\ UNCHANGED <<file, disk, next, gone, tears, crashes, faults>>
Hides(w) ==
    /\ pc[w] = "meta" /\ call[w].op \in {"summary", "truncate"} /\ skip' = call[w].skip
    /\ gone' = gone \cup (IF call[w].op = "truncate" THEN Hidden(call[w].skip) ELSE {})
    /\ Turn(w, "idle", NoCall)
    /\ UNCHANGED <<file, disk, next, acked, tears, crashes, faults>>
Removed(w) == IF call[w].op = "set" THEN ToSet(file.lines) \ ToSet(call[w].lines) ELSE {}
Reveals(w) ==
    /\ pc[w] = "meta" /\ call[w].op \in {"set", "compact"} /\ skip' = call[w].skip
    /\ gone' = gone \cup Removed(w) /\ Turn(w, "rewrite", call[w])
    /\ UNCHANGED <<file, disk, next, acked, tears, crashes, faults>>
Replaces(w) ==
    /\ pc[w] = "rewrite" /\ file' = [lines |-> call[w].lines, torn |-> FALSE] /\ disk' = file'
    /\ gone' = gone \cup Removed(w) /\ Turn(w, "idle", NoCall)
    /\ UNCHANGED <<skip, next, acked, tears, crashes, faults>>
Moves(w) == Starts(w) \/ Adds(w) \/ Writes(w) \/ Tears(w) \/ Fails(w) \/ Syncs(w) \/ Acks(w) \/ Hides(w)
              \/ Reveals(w) \/ Replaces(w)

LEMMA Types ==
  ASSUME TypeOK
  PROVE  /\ file \in File /\ disk \in File /\ file.lines \in Seq(AnyLine) /\ disk.lines \in Seq(AnyLine)
         /\ Len(file.lines) \in Nat /\ Len(disk.lines) \in Nat /\ file.torn \in BOOLEAN /\ disk.torn \in BOOLEAN
         /\ file.torn => file.lines # <<>> /\ Len(file.lines) # 0
         /\ disk.torn => disk.lines # <<>> /\ Len(disk.lines) # 0
         /\ skip \in Nat /\ next \in Nat /\ tears \in Nat /\ faults \in Nat /\ crashes \in Nat
         /\ next >= 1 /\ next <= MaxMessages + 1 /\ MaxMessages \in Nat
         /\ acked \subseteq 1 .. MaxMessages /\ gone \subseteq 0 .. MaxMessages
         /\ pc \in [Writers -> Stages] /\ call \in [Writers -> CallType]
         /\ Junk = 0 /\ Junk \in AnyLine
<1>1. file \in File /\ disk \in File /\ (file.torn => file.lines # <<>>) /\ (disk.torn => disk.lines # <<>>)
  BY DEF TypeOK
<1>2. /\ file.lines \in Seq(AnyLine) /\ disk.lines \in Seq(AnyLine)
      /\ file.torn \in BOOLEAN /\ disk.torn \in BOOLEAN
  BY <1>1 DEF File
<1>3. /\ Len(file.lines) \in Nat /\ Len(disk.lines) \in Nat
      /\ file.lines # <<>> => Len(file.lines) # 0
      /\ disk.lines # <<>> => Len(disk.lines) # 0
  BY <1>2
<1>4. {MaxMessages, MaxCrashes, MaxFaults} \subseteq Nat
  BY JsAssumption
<1>5. /\ skip \in Nat /\ next \in 1 .. MaxMessages + 1 /\ tears \in Nat /\ faults \in 0 .. MaxFaults
      /\ crashes \in 0 .. MaxCrashes /\ acked \subseteq 1 .. MaxMessages /\ gone \subseteq 0 .. MaxMessages
  BY DEF TypeOK
<1>6. pc \in [Writers -> Stages] /\ call \in [Writers -> CallType]
  BY DEF TypeOK, Stages, CallType, Operations
<1>7. Junk = 0 /\ Junk \in AnyLine
  BY <1>4 DEF Junk, AnyLine
<1>8. /\ next \in Nat /\ faults \in Nat /\ crashes \in Nat /\ next >= 1 /\ next <= MaxMessages + 1
      /\ MaxMessages \in Nat
  BY <1>4, <1>5
<1>9. /\ file.torn => file.lines # <<>> /\ Len(file.lines) # 0
      /\ disk.torn => disk.lines # <<>> /\ Len(disk.lines) # 0
  BY <1>1, <1>3
<1> QED
  BY <1>1, <1>2, <1>3, <1>5, <1>6, <1>7, <1>8, <1>9, Zenon

LEMMA CalledIs ==
  ASSUME NEW o \in Operations, NEW m \in AnyLine, NEW s \in Nat, NEW l \in Seq(AnyLine)
  PROVE  /\ Called(o, m, s, l) \in CallType /\ Called(o, m, s, l).op = o /\ Called(o, m, s, l).msg = m
         /\ Called(o, m, s, l).skip = s /\ Called(o, m, s, l).lines = l
  BY DEF Called, CallType
LEMMA NoCallIs == NoCall \in CallType /\ <<>> \in Seq(AnyLine) /\ NoCall = Called("none", 0, 0, <<>>)
<1>1. 0 \in AnyLine /\ 0 \in Nat /\ <<>> \in Seq(AnyLine) /\ "none" \in Operations
  BY JsAssumption DEF AnyLine, Operations
<1>2. NoCall = Called("none", 0, 0, <<>>)
  BY DEF NoCall
<1> QED
  BY <1>1, <1>2, CalledIs
LEMMA CallParts ==
  ASSUME NEW c \in CallType
  PROVE  c.op \in Operations /\ c.msg \in AnyLine /\ c.skip \in Nat /\ c.lines \in Seq(AnyLine)
  BY DEF CallType

LEMMA Turned ==
  ASSUME TypeOK, NEW w \in Writers, NEW p \in Stages, NEW c \in CallType, Turn(w, p, c)
  PROVE  /\ pc' \in [Writers -> Stages] /\ call' \in [Writers -> CallType]
         /\ pc'[w] = p /\ call'[w] = c
         /\ \A v \in Writers : v # w => pc'[v] = pc[v] /\ call'[v] = call[v]
<1>1. pc \in [Writers -> Stages] /\ call \in [Writers -> CallType]
  BY Types
<1> QED
  BY <1>1 DEF Turn

LEMMA BeganAlone ==
  ASSUME TypeOK, OneLock, NEW w \in Writers, NEW p \in Stages, NEW c, Enter(w, p, c)
  PROVE  Alone(w) /\ pc[w] = "idle" /\ Turn(w, p, c)
  BY DEF Enter, Unlocked, OneLock, Alone, Turn
LEMMA WorksAlone ==
  ASSUME OneCall, NEW w \in Writers, pc[w] # "idle"
  PROVE  Alone(w)
  BY DEF OneCall, Alone

LEMMA StartsAre ==
  ASSUME JsInv, OneLock, NEW w \in Writers,
         \/ BeginSetSummary(w)
         \/ \E keep \in 0..MaxKeep : BeginTruncate(w, keep)
         \/ \E lines \in Replacements : BeginSetHistory(w, lines)
         \/ BeginCompact(w)
  PROVE  Alone(w) /\ Starts(w)
<1>1. TypeOK /\ RisingTo(file.lines, next)
  BY DEF JsInv, LinesRise
<1>2. /\ file.lines \in Seq(AnyLine) /\ skip \in Nat /\ next \in Nat /\ Len(file.lines) \in Nat
      /\ Junk = 0 /\ <<>> \in Seq(AnyLine) /\ 0 \in Nat
  BY <1>1, Types, NoCallIs
<1>3. ASSUME NEW o \in Operations, NEW s \in Nat, NEW l \in Seq(AnyLine), NEW c, c = Called(o, 0, s, l),
             Enter(w, "meta", c), Carries(o, s, l),
             UNCHANGED <<file, disk, skip, next, acked, gone, tears, crashes, faults>>
      PROVE  Alone(w) /\ Starts(w)
  <2>1. Alone(w) /\ pc[w] = "idle" /\ Turn(w, "meta", Called(o, 0, s, l))
    BY <1>1, <1>3, BeganAlone DEF Stages
  <2> QED
    BY <1>3, <2>1 DEF Starts
<1>4. CASE BeginSetSummary(w)
  <2>2. Carries("summary", skip, <<>>) /\ "summary" \in Operations
    BY DEF Carries, Operations
  <2> QED
    BY <1>2, <1>3, <1>4, <2>2 DEF BeginSetSummary
<1>5. ASSUME NEW keep \in 0..MaxKeep, BeginTruncate(w, keep)
      PROVE  Alone(w) /\ Starts(w)
  <2> DEFINE s == SkipFor(keep)
  <2>2. s \in Nat /\ (s = skip \/ s <= Len(file.lines))
    <3> DEFINE n == Len(file.lines)
    <3>1. s = IF keep = 0 THEN n ELSE IF keep < n - skip THEN n - keep ELSE skip
      BY DEF SkipFor
    <3>2. n \in Nat /\ skip \in Nat /\ keep \in Nat
      BY <1>2, JsAssumption
    <3> HIDE DEF s, n
    <3>3. s \in Nat /\ (s = skip \/ s <= n)
      BY ONLY <3>1, <3>2
    <3> QED
      BY <3>3 DEF n
  <2> HIDE DEF s
  <2>3. Carries("truncate", s, <<>>) /\ "truncate" \in Operations
    BY <2>2 DEF Carries, Operations
  <2>4. /\ Enter(w, "meta", Called("truncate", 0, s, <<>>))
        /\ UNCHANGED <<file, disk, skip, next, acked, gone, tears, crashes, faults>>
    BY <1>5 DEF BeginTruncate, s
  <2> QED
    BY <1>2, <1>3, <2>2, <2>3, <2>4
<1>6. ASSUME NEW l \in Seq(AnyLine), ToSet(l) \subseteq Seen(file, skip),
             \A i, j \in Within(l) : i < j => l[i] < l[j]
      PROVE  RisingTo(l, next)
  <2>1. \A i \in Within(l) : l[i] \in Seen(file, skip)
    BY <1>6 DEF Within, ToSet
  <2>2. \A x \in Seen(file, skip) : x < next
    BY <1>1 DEF Seen, RisingTo
  <2> QED
    BY <1>6, <2>1, <2>2 DEF RisingTo
<1>7. ASSUME NEW l \in Replacements, BeginSetHistory(w, l)
      PROVE  Alone(w) /\ Starts(w)
  <2>2. /\ l \in Seq(AnyLine) /\ ToSet(l) \subseteq Seen(file, skip)
        /\ \A i, j \in Within(l) : i < j => l[i] < l[j]
    BY <1>1, <1>2, ReplacementsAre
  <2>3. Carries("set", 0, l) /\ "set" \in Operations
    BY <1>6, <2>2 DEF Carries, Operations
  <2> QED
    BY <1>2, <1>3, <1>7, <2>2, <2>3 DEF BeginSetHistory
<1>8. CASE BeginCompact(w)
  <2> DEFINE l == History(file, skip)
  <2>2. /\ l \in Seq(AnyLine) /\ ToSet(l) = Seen(file, skip)
        /\ \A i, j \in Within(l) : i < j => l[i] < l[j]
    BY <1>1, <1>2, HistoryIs
  <2>4. /\ Enter(w, "meta", Called("compact", 0, 0, l))
        /\ UNCHANGED <<file, disk, skip, next, acked, gone, tears, crashes, faults>>
    BY <1>8 DEF BeginCompact
  <2> HIDE DEF l
  <2>3. Carries("compact", 0, l) /\ "compact" \in Operations
    BY <1>6, <2>2 DEF Carries, Operations
  <2> QED
    BY <1>2, <1>3, <2>2, <2>3, <2>4
<1> QED
  BY <1>4, <1>5, <1>7, <1>8

LEMMA WorksAre ==
  ASSUME JsInv, OneLock, NEW w \in Writers,
         \/ BeginAdd(w) \/ AppendLine(w) \/ AppendFails(w) \/ SyncLine(w) \/ SyncFails(w)
         \/ WriteMeta(w) \/ Rewrite(w) \/ ReplaceFails(w)
  PROVE  Alone(w) /\ Moves(w)
<1>1. TypeOK /\ OneCall /\ Placed(pc[w], call[w])
  BY DEF JsInv, CallsPlaced
<1>2. pc \in [Writers -> Stages] /\ call \in [Writers -> CallType]
  BY <1>1, Types
<1>3. call[w] \in CallType /\ pc[w] \in Stages
  BY <1>2
<1>4. call[w] = Called(call[w].op, call[w].msg, call[w].skip, call[w].lines)
  BY <1>3 DEF CallType, Called
<1>5. Return(w) => Turn(w, "idle", NoCall)
  BY DEF Return, Turn
<1>6. call = [call EXCEPT ![w] = call[w]]
  BY <1>2
<1>7. CASE BeginAdd(w)
  <2>2. Alone(w) /\ pc[w] = "idle" /\ Turn(w, "append", Called("add", next, 0, <<>>))
    BY <1>1, <1>7, BeganAlone DEF BeginAdd, Stages
  <2> QED
    BY <1>7, <2>2 DEF BeginAdd, Adds, Moves
<1>8. CASE AppendLine(w)
  <2>1. pc[w] = "append" /\ pc' = [pc EXCEPT ![w] = "sync"] /\ call' = call /\ file' = Behind(file, call[w].msg, FALSE)
        /\ UNCHANGED <<disk, skip, next, acked, gone, tears, crashes, faults>>
    BY <1>8 DEF AppendLine, WithLine
  <2>2. Turn(w, "sync", call[w])
    BY <1>6, <2>1 DEF Turn
  <2>3. Alone(w)
    BY <1>1, <2>1, WorksAlone
  <2> QED
    BY <2>1, <2>2, <2>3 DEF Writes, Moves
<1>9. CASE AppendFails(w)
  BY <1>1, <1>5, <1>9, WorksAlone DEF AppendFails, WithPart, Tears, Moves
<1>10. CASE SyncFails(w) \/ ReplaceFails(w)
  BY <1>1, <1>5, <1>10, WorksAlone DEF SyncFails, ReplaceFails, Fails, Moves
<1>11. CASE SyncLine(w)
  <2>1. [call[w] EXCEPT !.skip = skip] = Called(call[w].op, call[w].msg, skip, call[w].lines)
    BY <1>4 DEF Called
  <2>2. call' = [call EXCEPT ![w] = [call[w] EXCEPT !.skip = skip]]
    BY <1>2, <1>11 DEF SyncLine
  <2> QED
    BY <1>1, <1>11, <2>1, <2>2, WorksAlone DEF SyncLine, Syncs, Moves, Turn
<1>12. CASE WriteMeta(w)
  <2>1. pc[w] = "meta" /\ Alone(w) /\ skip' = call[w].skip /\ UNCHANGED <<file, disk, next, tears, crashes, faults>>
    BY <1>1, <1>12, WorksAlone DEF WriteMeta
  <2>2. call[w].op \in {"add", "summary", "truncate", "set", "compact"}
    BY <1>1, <2>1 DEF Placed
  <2>3. CASE call[w].op = "add"
    BY <1>5, <1>12, <2>1, <2>3 DEF WriteMeta, Acks, Moves
  <2>4. CASE call[w].op = "summary" \/ call[w].op = "truncate"
    BY <1>5, <1>12, <2>1, <2>4 DEF WriteMeta, Hides, Moves
  <2>5. CASE call[w].op = "set" \/ call[w].op = "compact"
    BY <1>6, <1>12, <2>1, <2>5 DEF WriteMeta, Reveals, Removed, Moves, Turn
  <2> QED
    BY <2>2, <2>3, <2>4, <2>5
<1>13. CASE Rewrite(w)
  BY <1>1, <1>5, <1>13, WorksAlone DEF Rewrite, Replaces, Removed, Moves
<1> QED
  BY <1>7, <1>8, <1>9, <1>10, <1>11, <1>12, <1>13

LEMMA StepsAre ==
  ASSUME JsInv, OneLock, Next
  PROVE  (\E w \in Writers : Alone(w) /\ Moves(w)) \/ Crash
  BY StartsAre, WorksAre DEF Next, Moves

(* Every step keeps the types.                                                        *)
LEMMA TypeKept ==
  ASSUME JsInv, NEW w \in Writers, Alone(w), Moves(w)
  PROVE  TypeOK'
<1>1. TypeOK /\ Placed(pc[w], call[w])
  BY DEF JsInv, CallsPlaced
<1>2. /\ file \in File /\ disk \in File /\ file.lines \in Seq(AnyLine)
      /\ (file.torn => file.lines # <<>>) /\ (disk.torn => disk.lines # <<>>)
      /\ skip \in Nat /\ next \in Nat /\ tears \in Nat /\ faults \in Nat /\ MaxMessages \in Nat
      /\ next >= 1 /\ next <= MaxMessages + 1
      /\ acked \subseteq 1 .. MaxMessages /\ gone \subseteq 0 .. MaxMessages
      /\ call[w] \in CallType /\ Junk \in AnyLine /\ Junk = 0
  BY <1>1, Types
<1>3. crashes \in 0 .. MaxCrashes /\ faults \in 0 .. MaxFaults /\ MaxFaults \in Nat
  BY <1>1, JsAssumption DEF TypeOK
<1>4. call[w].op \in Operations /\ call[w].msg \in AnyLine /\ call[w].skip \in Nat /\ call[w].lines \in Seq(AnyLine)
  BY <1>2, CallParts
<1>5. ASSUME NEW p \in Stages, NEW c \in CallType, Turn(w, p, c)
      PROVE  /\ pc' \in [Writers -> {"idle", "append", "sync", "meta", "rewrite"}]
             /\ call' \in [Writers -> [op : {"none", "add", "summary", "truncate", "set", "compact"},
                                       msg : AnyLine, skip : Nat, lines : Seq(AnyLine)]]
  BY <1>1, <1>5, Turned DEF Stages, CallType, Operations
<1>6. {"idle", "append", "sync", "meta", "rewrite"} = Stages /\ NoCall \in CallType
  BY NoCallIs DEF Stages
<1>7. /\ ToSet(file.lines) \subseteq 0 .. MaxMessages /\ \A s \in Nat : Hidden(s) \subseteq 0 .. MaxMessages
  BY <1>2 DEF ToSet, Hidden, AnyLine
<1>8. CASE Starts(w)
  <2>1. PICK o \in Operations : \E s \in Nat, l \in Seq(AnyLine) : Turn(w, "meta", Called(o, 0, s, l))
    BY <1>8 DEF Starts
  <2>2. PICK s \in Nat, l \in Seq(AnyLine) : Turn(w, "meta", Called(o, 0, s, l))
    BY <2>1
  <2>3. Called(o, 0, s, l) \in CallType
    <3>1. 0 \in AnyLine
      BY <1>2
    <3> QED
      BY <3>1, CalledIs
  <2>4. "meta" \in Stages
    BY DEF Stages
  <2> QED
    BY <1>1, <1>5, <1>8, <2>2, <2>3, <2>4 DEF Starts, TypeOK
<1>9. CASE Adds(w)
  <2>1. Called("add", next, 0, <<>>) \in CallType
    <3>1. next \in AnyLine
      BY <1>2, <1>9 DEF AnyLine, Adds
    <3>2. "add" \in Operations /\ 0 \in Nat /\ <<>> \in Seq(AnyLine)
      BY NoCallIs DEF Operations
    <3> QED
      BY <3>1, <3>2, CalledIs
  <2>2. next' \in 1 .. MaxMessages + 1
    BY <1>2, <1>9 DEF Adds
  <2> QED
    BY <1>1, <1>5, <1>6, <1>9, <2>1, <2>2 DEF Adds, TypeOK
<1>10. CASE Writes(w)
  <2>1. file' \in File /\ ~file'.torn
    BY <1>2, <1>4, <1>10, BehindIs DEF Writes
  <2> QED
    BY <1>1, <1>2, <1>5, <1>6, <1>10, <2>1 DEF Writes, TypeOK
<1>11. CASE Tears(w)
  <2>1. file' \in File /\ (file'.torn => file'.lines # <<>>)
    <3>1. CASE file' = Behind(file, Junk, TRUE)
      <4>1. file' \in File /\ Len(file'.lines) # 0
        <5>1. TRUE \in BOOLEAN
          OBVIOUS
        <5>2. \A t \in BOOLEAN : file' = Behind(file, Junk, t) => file' \in File /\ Len(file'.lines) # 0
          BY <1>2, WroteIs
        <5> QED
          BY <3>1, <5>1, <5>2, Zenon
      <4> QED
        BY <4>1
    <3> QED
      BY <1>2, <1>11, <3>1 DEF Tears
  <2>2. tears' \in Nat /\ faults' \in 0 .. MaxFaults
    <3>1. (tears' = tears \/ tears' = tears + 1) /\ faults < MaxFaults /\ faults' = faults + 1
      BY <1>11 DEF Tears
    <3> QED
      BY <1>2, <1>3, <3>1
  <2> QED
    BY <1>1, <1>5, <1>6, <1>11, <2>1, <2>2 DEF Tears, TypeOK
<1>12. CASE Fails(w)
  <2>1. faults' \in 0 .. MaxFaults
    BY <1>3, <1>12 DEF Fails
  <2> QED
    BY <1>1, <1>5, <1>6, <1>12, <2>1 DEF Fails, TypeOK
<1>13. CASE Syncs(w)
  <2>1. Called(call[w].op, call[w].msg, skip, call[w].lines) \in CallType
    BY <1>2, <1>4, CalledIs
  <2> QED
    BY <1>1, <1>5, <1>6, <1>13, <2>1 DEF Syncs, TypeOK
<1>14. CASE Acks(w)
  <2>1. acked' \in SUBSET (1 .. MaxMessages)
    <3>1. call[w].msg \in 1 .. next - 1 /\ acked' = acked \cup {call[w].msg}
      BY <1>1, <1>14 DEF Acks, Placed
    <3>2. call[w].msg \in 1 .. MaxMessages
      BY <1>2, <3>1
    <3> QED
      BY <1>2, <3>1, <3>2
  <2>2. skip' \in Nat
    BY <1>4, <1>14 DEF Acks
  <2> QED
    BY <1>1, <1>5, <1>6, <1>14, <2>1, <2>2 DEF Acks, TypeOK
<1>15. CASE Hides(w)
  <2>1. gone' \in SUBSET (0 .. MaxMessages) /\ skip' \in Nat
    BY <1>2, <1>4, <1>7, <1>15 DEF Hides
  <2> QED
    BY <1>1, <1>5, <1>6, <1>15, <2>1 DEF Hides, TypeOK
<1>16. CASE Reveals(w)
  <2>1. gone' \in SUBSET (0 .. MaxMessages) /\ skip' \in Nat
    BY <1>2, <1>4, <1>7, <1>16 DEF Reveals, Removed
  <2> QED
    BY <1>1, <1>2, <1>5, <1>6, <1>16, <2>1 DEF Reveals, TypeOK
<1>17. CASE Replaces(w)
  <2>1. gone' \in SUBSET (0 .. MaxMessages)
    BY <1>2, <1>7, <1>17 DEF Replaces, Removed
  <2>2. file' \in File /\ disk' \in File /\ ~file'.torn /\ ~disk'.torn
    BY <1>4, <1>17 DEF Replaces, File
  <2> QED
    BY <1>1, <1>5, <1>6, <1>17, <2>1, <2>2 DEF Replaces, TypeOK
<1> QED
  BY <1>8, <1>9, <1>10, <1>11, <1>12, <1>13, <1>14, <1>15, <1>16, <1>17 DEF Moves

(* One call at a time.                                                                *)
LEMMA OneCallKept ==
  ASSUME TypeOK, NEW w \in Writers, Alone(w), Moves(w)
  PROVE  OneCall' /\ \A v \in Writers : v # w => pc'[v] = "idle"
<1>1. \E p, c : Turn(w, p, c)
  BY DEF Moves, Starts, Adds, Writes, Tears, Fails, Syncs, Acks, Hides, Reveals, Replaces
<1>2. pc \in [Writers -> Stages]
  BY Types
<1>3. \A v \in Writers : v # w => pc'[v] = pc[v]
  BY <1>1, <1>2 DEF Turn
<1>4. \A v \in Writers : v # w => pc'[v] = "idle"
  BY <1>3 DEF Alone
<1> QED
  BY <1>4 DEF OneCall

LEMMA WritesIs ==
  ASSUME TypeOK, NEW w \in Writers, Writes(w)
  PROVE  /\ ~file'.torn /\ Len(file'.lines) = Reach(file) /\ Reach(file) \in Nat \ {0} /\ call[w].msg \in AnyLine
         /\ \A i \in 1 .. Reach(file) - 1 : file'.lines[i] = file.lines[i]
         /\ file'.lines[Reach(file)] \in {Junk, call[w].msg}
         /\ ~file.torn => file'.lines[Reach(file)] = call[w].msg
<1>1. file \in File /\ (file.torn => file.lines # <<>>) /\ call[w].msg \in AnyLine
  BY Types, CallParts
<1>2. file' = Behind(file, call[w].msg, FALSE)
  BY DEF Writes
<1>3. \A g : \A t \in BOOLEAN : g = Behind(file, call[w].msg, t) =>
         /\ g.torn = t /\ Len(g.lines) = Reach(file) /\ Reach(file) \in Nat \ {0}
         /\ \A i \in 1 .. Reach(file) - 1 : g.lines[i] = file.lines[i]
         /\ g.lines[Reach(file)] \in {Junk, call[w].msg}
         /\ ~file.torn => g.lines[Reach(file)] = call[w].msg
  BY <1>1, WroteIs
<1>4. FALSE \in BOOLEAN
  OBVIOUS
<1>5. /\ file'.torn = FALSE /\ Len(file'.lines) = Reach(file) /\ Reach(file) \in Nat \ {0}
      /\ \A i \in 1 .. Reach(file) - 1 : file'.lines[i] = file.lines[i]
      /\ file'.lines[Reach(file)] \in {Junk, call[w].msg}
      /\ ~file.torn => file'.lines[Reach(file)] = call[w].msg
  BY <1>2, <1>3, <1>4, Zenon
<1> QED
  BY <1>1, <1>5
LEMMA TearsIs ==
  ASSUME TypeOK, file' = Behind(file, Junk, TRUE)
  PROVE  /\ file'.torn /\ Len(file'.lines) = Reach(file) /\ Reach(file) \in Nat \ {0}
         /\ \A i \in 1 .. Reach(file) - 1 : file'.lines[i] = file.lines[i]
         /\ file'.lines[Reach(file)] = Junk
<1>1. file \in File /\ (file.torn => file.lines # <<>>) /\ Junk \in AnyLine
  BY Types
<1>2. TRUE \in BOOLEAN
  OBVIOUS
<1>3. \A g : \A t \in BOOLEAN : g = Behind(file, Junk, t) =>
         /\ g.torn = t /\ Len(g.lines) = Reach(file) /\ Reach(file) \in Nat \ {0}
         /\ \A i \in 1 .. Reach(file) - 1 : g.lines[i] = file.lines[i]
         /\ g.lines[Reach(file)] = Junk
  BY <1>1, WroteIs
<1>4. /\ file'.torn = TRUE /\ Len(file'.lines) = Reach(file) /\ Reach(file) \in Nat \ {0}
      /\ \A i \in 1 .. Reach(file) - 1 : file'.lines[i] = file.lines[i]
      /\ file'.lines[Reach(file)] = Junk
  BY <1>2, <1>3, Zenon
<1> QED
  BY <1>4
LEMMA ReachIs ==
  ASSUME TypeOK
  PROVE  /\ file.torn => Reach(file) = Len(file.lines)
         /\ ~file.torn => Reach(file) = Len(file.lines) + 1
  BY DEF Reach

(* The lines keep their order.                                                        *)
LEMMA RisingStill ==
  ASSUME NEW l \in Seq(AnyLine), NEW m \in Nat, NEW n \in Nat, m <= n, RisingTo(l, m)
  PROVE  RisingTo(l, n)
<1>1. \A i \in Within(l) : l[i] \in AnyLine
  BY DEF Within
<1>2. AnyLine \subseteq Int
  BY DEF AnyLine
<1>3. \A i \in Within(l) : l[i] \in Int /\ l[i] < m
  BY <1>1, <1>2 DEF RisingTo
<1>4. \A i \in Within(l) : l[i] < n
  BY <1>3
<1> QED
  BY <1>4 DEF RisingTo
LEMMA LinesRiseKept ==
  ASSUME JsInv, NEW w \in Writers, Alone(w), Moves(w)
  PROVE  LinesRise'
<1>1. TypeOK /\ Placed(pc[w], call[w]) /\ RisingTo(file.lines, next) /\ RisingTo(disk.lines, next)
  BY DEF JsInv, CallsPlaced, LinesRise
<1>2. /\ file.lines \in Seq(AnyLine) /\ disk.lines \in Seq(AnyLine) /\ next \in Nat /\ next >= 1 /\ Junk = 0
      /\ Len(file.lines) \in Nat
  BY <1>1, Types
<1>3. CASE Starts(w) \/ Fails(w) \/ Acks(w) \/ Hides(w) \/ Reveals(w) \/ Syncs(w)
  <2>1. file' = file /\ (disk' = disk \/ disk' = file) /\ next' = next
    BY <1>3 DEF Starts, Fails, Acks, Hides, Reveals, Syncs
  <2> QED
    BY <1>1, <2>1 DEF LinesRise
<1>4. CASE Adds(w)
  <2>1. file' = file /\ disk' = disk /\ next' = next + 1 /\ next <= next' /\ next' \in Nat
    BY <1>2, <1>4 DEF Adds
  <2> QED
    BY <1>1, <1>2, <2>1, RisingStill DEF LinesRise
<1>5. ASSUME NEW m \in Nat, m <= next, RisingTo(file.lines, m), Len(file'.lines) = Reach(file),
             Reach(file) \in Nat \ {0},
             \A i \in 1 .. Reach(file) - 1 : file'.lines[i] = file.lines[i],
             file'.lines[Reach(file)] = Junk \/ (file'.lines[Reach(file)] = m /\ m < next),
             next' = next
      PROVE  RisingTo(file'.lines, next')
  <2>1. Reach(file) - 1 <= Len(file.lines)
    BY <1>1, <1>2, <1>5, ReachIs
  <2>2. \A i \in 1 .. Reach(file) - 1 : i \in Within(file.lines) /\ file.lines[i] \in Int /\ file.lines[i] < m
    <3>1. \A i \in 1 .. Reach(file) - 1 : i \in Within(file.lines)
      BY <1>2, <1>5, <2>1 DEF Within
    <3>2. \A i \in Within(file.lines) : file.lines[i] \in AnyLine
      BY <1>2 DEF Within
    <3>3. AnyLine \subseteq Int
      BY DEF AnyLine
    <3> QED
      BY <1>5, <3>1, <3>2, <3>3 DEF RisingTo
  <2>3. \A i \in Within(file'.lines) : i \in 1 .. Reach(file) - 1 \/ i = Reach(file)
    BY <1>5 DEF Within
  <2>4. ASSUME NEW i \in Within(file'.lines) PROVE file'.lines[i] < next'
    <3>1. CASE i = Reach(file)
      BY <1>2, <1>5, <3>1
    <3>2. CASE i \in 1 .. Reach(file) - 1
      <4> DEFINE x == file.lines[i]
      <4>1. x \in Int /\ x < m /\ file'.lines[i] = x /\ m \in Nat /\ m <= next
        BY <1>5, <2>2, <3>2
      <4> HIDE DEF x
      <4>2. x < next
        BY ONLY <1>2, <4>1
      <4> QED
        BY <1>5, <4>1, <4>2
    <3> QED
      BY <2>3, <3>1, <3>2
  <2>5. ASSUME NEW i \in Within(file'.lines), NEW j \in Within(file'.lines), i < j
        PROVE  file'.lines[i] = Junk \/ file'.lines[j] = Junk \/ file'.lines[i] < file'.lines[j]
    <3>1. i \in 1 .. Reach(file) - 1
      BY <1>5, <2>5 DEF Within
    <3>2. CASE j = Reach(file)
      BY <1>2, <1>5, <2>2, <3>1, <3>2
    <3>3. CASE j \in 1 .. Reach(file) - 1
      <4>1. file'.lines[i] = file.lines[i] /\ file'.lines[j] = file.lines[j]
        BY <1>5, <3>1, <3>3
      <4>2. i \in Within(file.lines) /\ j \in Within(file.lines)
        BY <2>2, <3>1, <3>3
      <4> QED
        BY <1>1, <2>5, <4>1, <4>2 DEF RisingTo
    <3> QED
      BY <2>3, <3>2, <3>3
  <2> QED
    BY <2>4, <2>5 DEF RisingTo
<1>6. CASE Writes(w)
  <2>1. RisingTo(file.lines, call[w].msg) /\ call[w].msg \in 1 .. next - 1
    BY <1>1, <1>6 DEF Placed, Writes
  <2>2. disk' = disk /\ next' = next
    BY <1>6 DEF Writes
  <2>3. call[w].msg \in Nat /\ call[w].msg <= next /\ call[w].msg < next
    BY <1>2, <2>1
  <2>4. RisingTo(file'.lines, next')
    BY <1>1, <1>5, <1>6, <2>1, <2>2, <2>3, WritesIs
  <2> QED
    BY <1>1, <2>2, <2>4 DEF LinesRise
<1>7. CASE Tears(w)
  <2>1. disk' = disk /\ next' = next /\ (file' = file \/ file' = Behind(file, Junk, TRUE))
    BY <1>7 DEF Tears
  <2>2. CASE file' = Behind(file, Junk, TRUE)
    <3>2. /\ Len(file'.lines) = Reach(file) /\ Reach(file) \in Nat \ {0}
          /\ \A i \in 1 .. Reach(file) - 1 : file'.lines[i] = file.lines[i]
          /\ file'.lines[Reach(file)] = Junk
      BY <1>1, <2>2, TearsIs
    <3>3. next \in Nat /\ next <= next
      BY <1>2
    <3>1. RisingTo(file'.lines, next')
      BY <1>1, <1>5, <2>1, <3>2, <3>3
    <3> QED
      BY <1>1, <2>1, <3>1 DEF LinesRise
  <2> QED
    BY <1>1, <2>1, <2>2 DEF LinesRise
<1>8. CASE Replaces(w)
  <2>1. RisingTo(call[w].lines, next) /\ file'.lines = call[w].lines /\ disk'.lines = call[w].lines /\ next' = next
    BY <1>1, <1>8 DEF Placed, Replaces
  <2> QED
    BY <2>1 DEF LinesRise
<1> QED
  BY <1>3, <1>4, <1>6, <1>7, <1>8 DEF Moves

(* What the disk holds begins the file.                                               *)
LEMMA DiskBeginsKept ==
  ASSUME JsInv, NEW w \in Writers, Alone(w), Moves(w)
  PROVE  DiskBegins'
<1>1. TypeOK /\ Placed(pc[w], call[w]) /\ DiskBegins
  BY DEF JsInv, CallsPlaced
<1>2. /\ file.lines \in Seq(AnyLine) /\ disk.lines \in Seq(AnyLine) /\ next \in Nat /\ next >= 1 /\ Junk = 0
      /\ Len(file.lines) \in Nat /\ Len(disk.lines) \in Nat /\ acked \subseteq 1 .. MaxMessages
      /\ Junk \notin acked /\ acked \subseteq Nat
  <2>1. Junk = 0 /\ acked \subseteq 1 .. MaxMessages
    BY <1>1, Types
  <2> QED
    BY <1>1, <2>1, Types
<1>3. CASE Starts(w) \/ Fails(w) \/ Hides(w) \/ Reveals(w)
  <2>1. file' = file /\ disk' = disk /\ next' = next /\ acked' = acked
    BY <1>3 DEF Starts, Fails, Hides, Reveals
  <2> QED
    BY <1>1, <2>1 DEF DiskBegins, Loose
<1>4. CASE Adds(w)
  <2>1. file' = file /\ disk' = disk /\ next' = next + 1 /\ acked' = acked
    BY <1>4 DEF Adds
  <2>2. \A m \in acked : m < next'
    BY <1>1, <1>2, <2>1 DEF DiskBegins
  <2> QED
    BY <1>1, <2>1, <2>2 DEF DiskBegins, Loose
<1>5. ASSUME Len(file'.lines) = Reach(file), Reach(file) \in Nat \ {0},
             \A i \in 1 .. Reach(file) - 1 : file'.lines[i] = file.lines[i],
             file'.lines[Reach(file)] \notin acked,
             disk' = disk, next' = next, acked' = acked
      PROVE  DiskBegins'
  <2>1. Len(disk.lines) <= Len(file.lines) /\ Loose(Reach(file))
    BY <1>1, <1>2, ReachIs DEF DiskBegins, Loose
  <2>2. Len(disk'.lines) <= Len(file'.lines)
    BY <1>1, <1>2, <1>5, <2>1, ReachIs
  <2>3. ASSUME NEW i \in Within(disk.lines), ~Loose(i) PROVE file'.lines[i] = disk.lines[i]
    <3>1. i \in 1 .. Reach(file) - 1
      BY <1>1, <1>2, <1>5, <2>1, <2>3, ReachIs DEF Within, Loose
    <3>2. file.lines[i] = disk.lines[i]
      BY <1>1, <2>3 DEF DiskBegins
    <3> QED
      BY <1>5, <3>1, <3>2
  <2>4. ASSUME NEW i \in Within(file'.lines), Loose(i) PROVE file'.lines[i] \notin acked
    <3>1. CASE i = Reach(file)
      BY <1>5, <3>1
    <3>2. CASE i # Reach(file)
      <4>1. i \in 1 .. Reach(file) - 1
        BY <1>5, <3>2 DEF Within
      <4>2. i \in Within(file.lines)
        BY <1>1, <1>2, <1>5, <4>1, ReachIs DEF Within
      <4> QED
        BY <1>1, <1>5, <2>4, <4>1, <4>2 DEF DiskBegins
    <3> QED
      BY <3>1, <3>2
  <2>5. Loose(Len(file'.lines))
    BY <1>5, <2>1
  <2> QED
    BY <1>1, <1>5, <2>2, <2>3, <2>4, <2>5 DEF DiskBegins, Loose
<1>6. CASE Writes(w)
  <2>1. call[w].msg \notin acked
    BY <1>1, <1>2, <1>6 DEF Placed, Writes
  <2>2. disk' = disk /\ next' = next /\ acked' = acked
    BY <1>6 DEF Writes
  <2> QED
    BY <1>1, <1>2, <1>5, <1>6, <2>1, <2>2, WritesIs
<1>7. CASE Tears(w)
  <2>1. disk' = disk /\ next' = next /\ acked' = acked /\ (file' = file \/ file' = Behind(file, Junk, TRUE))
    BY <1>7 DEF Tears
  <2>2. CASE file' = Behind(file, Junk, TRUE)
    BY <1>1, <1>2, <1>5, <2>1, <2>2, TearsIs
  <2>3. CASE file' = file
    BY <1>1, <2>1, <2>3 DEF DiskBegins, Loose
  <2> QED
    BY <2>1, <2>2, <2>3
<1>8. CASE Syncs(w)
  <2>1. ~file.torn /\ file' = file /\ disk' = file /\ next' = next /\ acked' = acked
    BY <1>1, <1>8 DEF Placed, Syncs
  <2>2. \A i \in Within(file.lines) : ~(i > Len(file.lines))
    BY <1>2 DEF Within
  <2> QED
    BY <1>1, <1>2, <2>1, <2>2 DEF DiskBegins, Loose
<1>9. CASE Acks(w)
  <2>1. ~file.torn /\ disk = file /\ call[w].msg \in 1 .. next - 1
    BY <1>1, <1>9 DEF Placed, Acks
  <2>2. file' = file /\ disk' = file /\ next' = next /\ acked' = acked \cup {call[w].msg}
    BY <1>9, <2>1 DEF Acks
  <2>3. \A i \in Within(file.lines) : ~(i > Len(file.lines))
    BY <1>2 DEF Within
  <2>4. \A m \in acked' : m < next
    BY <1>1, <1>2, <2>1, <2>2 DEF DiskBegins
  <2> QED
    BY <1>2, <2>1, <2>2, <2>3, <2>4 DEF DiskBegins, Loose
<1>10. CASE Replaces(w)
  <2>1. ~file'.torn /\ file'.lines = call[w].lines /\ disk' = file' /\ next' = next /\ acked' = acked
    BY <1>10 DEF Replaces
  <2>2. Len(call[w].lines) \in Nat
    <3>1. call[w].lines \in Seq(AnyLine)
      BY <1>1, Types, CallParts
    <3> QED
      BY <3>1
  <2>3. \A i \in Within(file'.lines) : ~(i > Len(file'.lines))
    BY <2>1, <2>2 DEF Within
  <2> QED
    BY <1>1, <2>1, <2>2, <2>3 DEF DiskBegins, Loose
<1> QED
  BY <1>3, <1>4, <1>6, <1>7, <1>8, <1>9, <1>10 DEF Moves

(* Counting what is lost.                                                             *)
LEMMA Counted ==
  ASSUME NEW A, NEW B \in SUBSET (0 .. MaxMessages), A \subseteq B
  PROVE  Cardinality(A) \in Nat /\ Cardinality(B) \in Nat /\ Cardinality(A) <= Cardinality(B)
<1>1. IsFiniteSet(0 .. MaxMessages)
  <2>1. 0 \in Int /\ MaxMessages \in Int
    BY JsAssumption
  <2> QED
    BY <2>1, FS_Interval
<1>2. IsFiniteSet(B)
  BY <1>1, FS_Subset
<1>3. IsFiniteSet(A) /\ Cardinality(A) <= Cardinality(B)
  BY <1>2, FS_Subset
<1> QED
  BY <1>2, <1>3, FS_CardinalityType
LEMMA CountedWith ==
  ASSUME NEW A, NEW B \in SUBSET (0 .. MaxMessages), NEW x, A \subseteq B \cup {x}, x \in 0 .. MaxMessages
  PROVE  Cardinality(A) \in Nat /\ Cardinality(B) \in Nat /\ Cardinality(A) <= Cardinality(B) + 1
<1> DEFINE C == B \cup {x}
<1>1. C \in SUBSET (0 .. MaxMessages) /\ A \subseteq C
  OBVIOUS
<1>2. Cardinality(A) \in Nat /\ Cardinality(C) \in Nat /\ Cardinality(A) <= Cardinality(C)
  <2> HIDE DEF C
  <2> QED
    BY <1>1, Counted
<1>3. IsFiniteSet(B) /\ Cardinality(B) \in Nat
  <2>1. 0 \in Int /\ MaxMessages \in Int
    BY JsAssumption
  <2>2. IsFiniteSet(0 .. MaxMessages)
    BY <2>1, FS_Interval
  <2>3. IsFiniteSet(B)
    BY <2>2, FS_Subset
  <2> QED
    BY <2>3, FS_CardinalityType
<1>4. Cardinality(C) = Cardinality(B) \/ Cardinality(C) = Cardinality(B) + 1
  BY <1>3, FS_AddElement
<1> QED
  BY <1>2, <1>3, <1>4

LEMMA BegunNow ==
  ASSUME NEW w \in Writers, Alone(w), NEW X, "idle" \notin X
  PROVE  Begun(X) = IF pc[w] \in X /\ call[w].op = "add" THEN {call[w].msg} ELSE {}
  BY DEF Begun, Alone
LEMMA BegunThen ==
  ASSUME NEW w \in Writers, \A v \in Writers : v # w => pc'[v] = "idle", NEW X, "idle" \notin X
  PROVE  Begun(X)' = IF pc'[w] \in X /\ call'[w].op = "add" THEN {call'[w].msg} ELSE {}
  BY DEF Begun
LEMMA SyncingNow ==
  ASSUME NEW w \in Writers, Alone(w)
  PROVE  Syncing = IF pc[w] = "sync" THEN 1 ELSE 0
  BY DEF Syncing, Alone
LEMMA SyncingThen ==
  ASSUME NEW w \in Writers, \A v \in Writers : v # w => pc'[v] = "idle"
  PROVE  Syncing' = IF pc'[w] = "sync" THEN 1 ELSE 0
  BY DEF Syncing

(* Where the writer stands after its step, and what it has under way.                 *)
UnderWay(p, c, X) == IF p \in X /\ c.op = "add" THEN {c.msg} ELSE {}
LEMMA AfterStep ==
  ASSUME JsInv, NEW w \in Writers, Alone(w), NEW p \in Stages, NEW c \in CallType, Turn(w, p, c)
  PROVE  /\ \A v \in Writers : v # w => pc'[v] = "idle"
         /\ pc'[w] = p /\ call'[w] = c
         /\ Begun({"meta"}) = UnderWay(pc[w], call[w], {"meta"})
         /\ Begun({"meta"})' = UnderWay(p, c, {"meta"})
         /\ Begun({"sync", "meta"}) = UnderWay(pc[w], call[w], {"sync", "meta"})
         /\ Begun({"sync", "meta"})' = UnderWay(p, c, {"sync", "meta"})
         /\ Syncing = (IF pc[w] = "sync" THEN 1 ELSE 0) /\ Syncing' = (IF p = "sync" THEN 1 ELSE 0)
<1>1. TypeOK
  BY DEF JsInv
<1>2. /\ pc'[w] = p /\ call'[w] = c /\ \A v \in Writers : v # w => pc'[v] = pc[v]
  BY <1>1, Turned
<1>3. \A v \in Writers : v # w => pc'[v] = "idle"
  BY <1>2 DEF Alone
<1>4. "idle" \notin {"meta"} /\ "idle" \notin {"sync", "meta"}
  OBVIOUS
<1>5. Begun({"meta"}) = UnderWay(pc[w], call[w], {"meta"})
  BY <1>4, BegunNow DEF UnderWay
<1>6. Begun({"sync", "meta"}) = UnderWay(pc[w], call[w], {"sync", "meta"})
  BY <1>4, BegunNow DEF UnderWay
<1>7. Begun({"meta"})' = UnderWay(p, c, {"meta"})
  BY <1>2, <1>3, <1>4, BegunThen DEF UnderWay
<1>8. Begun({"sync", "meta"})' = UnderWay(p, c, {"sync", "meta"})
  BY <1>2, <1>3, <1>4, BegunThen DEF UnderWay
<1> QED
  BY <1>2, <1>3, <1>5, <1>6, <1>7, <1>8, SyncingNow, SyncingThen

(* What the account says, with sets: wanted stands for the messages that count.       *)
LEMMA Wanted ==
  ASSUME TypeOK
  PROVE  /\ live \subseteq 0 .. MaxMessages /\ Junk \notin live
         /\ \A w \in Writers : call[w].msg \in 0 .. MaxMessages
         /\ \A X : live \cup Begun(X) \subseteq 0 .. MaxMessages
<1>1. live \subseteq 0 .. MaxMessages /\ Junk \notin live
  BY Types DEF live
<1>2. \A w \in Writers : call[w].msg \in 0 .. MaxMessages
  BY Types, CallParts DEF AnyLine
<1>3. \A X : Begun(X) \subseteq 0 .. MaxMessages
  BY <1>2 DEF Begun
<1> QED
  BY <1>1, <1>2, <1>3
MissingOf(f) == Missing(f, {"sync", "meta"})
MissingOn(f) == Missing(f, {"meta"})
LEMMA MissingAre ==
  ASSUME TypeOK
  PROVE  MissingOf(file) \in SUBSET (0 .. MaxMessages) /\ MissingOn(disk) \in SUBSET (0 .. MaxMessages)
  BY Wanted DEF MissingOf, MissingOn, Missing
LEMMA SyncingIs == Syncing \in {0, 1}
  BY DEF Syncing

(* A step that leaves both files alone, and loses nothing more.                       *)
LEMMA AccountStays ==
  ASSUME JsInv, TypeOK', file' = file, disk' = disk, tears' >= tears,
         skip' = skip \/ (skip' <= Len(file.lines) /\ Syncing = 0),
         MissingOf(file)' \subseteq MissingOf(file), MissingOn(disk)' \subseteq MissingOn(disk),
         Syncing + faults <= Syncing' + faults', faults <= faults'
  PROVE  LossAccounted'
<1>1. TypeOK /\ LossAccounted
  BY DEF JsInv
<1>2. /\ Len(file.lines) \in Nat /\ Len(disk.lines) \in Nat /\ file.torn \in BOOLEAN /\ disk.torn \in BOOLEAN
      /\ skip \in Nat /\ tears \in Nat /\ faults \in Nat
  BY <1>1, Types
<1>3. skip' \in Nat /\ tears' \in Nat /\ faults' \in Nat
  BY JsAssumption DEF TypeOK
<1> DEFINE lf == Cardinality(MissingOf(file))
           ld == Cardinality(MissingOn(disk))
           mf == Cardinality(MissingOf(file)')
           md == Cardinality(MissingOn(disk)')
           tf == IF file.torn THEN 1 ELSE 0
           td == IF disk.torn THEN 1 ELSE 0
<1>4. lf \in Nat /\ mf \in Nat /\ mf <= lf
  BY <1>1, MissingAre, Counted
<1>5. ld \in Nat /\ md \in Nat /\ md <= ld
  BY <1>1, MissingAre, Counted
<1>6. tf \in {0, 1} /\ td \in {0, 1}
  OBVIOUS
<1>7. Losses(file, {"sync", "meta"}) = lf + tf /\ Losses(disk, {"meta"}) = ld + td
  BY DEF Losses, MissingOf, MissingOn
<1>8. Losses(file, {"sync", "meta"})' = mf + tf /\ Losses(disk, {"meta"})' = md + td
  BY DEF Losses, MissingOf, MissingOn
<1>9. /\ lf + tf <= tears + faults
      /\ lf + tf + skip <= tears + faults + Len(file.lines)
      /\ ld + td <= tears + faults
      /\ ld + td + skip <= tears + faults + Len(disk.lines)
      /\ ld + td + Len(file.lines) <= tears + faults + Len(disk.lines) + Syncing
  BY <1>1, <1>7 DEF LossAccounted
<1>10. Syncing \in {0, 1} /\ Syncing' \in {0, 1}
  BY DEF Syncing
<1>11. tf \in Nat /\ td \in Nat /\ Syncing \in Nat /\ Syncing' \in Nat
  BY <1>6, <1>10
<1> DEFINE len == Len(file.lines)
           dlen == Len(disk.lines)
           tn == tears'
           kn == faults'
           sn == skip'
           sy == Syncing
           sz == Syncing'
<1>12. /\ len \in Nat /\ dlen \in Nat /\ tn \in Nat /\ kn \in Nat /\ sn \in Nat /\ sy \in Nat /\ sz \in Nat
       /\ skip \in Nat /\ tears \in Nat /\ faults \in Nat
       /\ sn = skip \/ (sn <= len /\ sy = 0)
       /\ tn >= tears /\ faults <= kn /\ sy + faults <= sz + kn
  BY <1>2, <1>3, <1>11
<1>13. /\ lf + tf <= tears + faults /\ lf + tf + skip <= tears + faults + len
       /\ ld + td <= tears + faults /\ ld + td + skip <= tears + faults + dlen
       /\ ld + td + len <= tears + faults + dlen + sy
  BY <1>9
<1> HIDE DEF lf, ld, mf, md, tf, td, len, dlen, tn, kn, sn, sy, sz
<1>14. /\ mf + tf <= tn + kn /\ mf + tf + sn <= tn + kn + len
       /\ md + td <= tn + kn /\ md + td + sn <= tn + kn + dlen
       /\ md + td + len <= tn + kn + dlen + sz
  BY ONLY <1>4, <1>5, <1>11, <1>12, <1>13
<1>15. /\ mf + tf <= tears' + faults' /\ mf + tf + skip' <= tears' + faults' + Len(file.lines)
       /\ md + td <= tears' + faults' /\ md + td + skip' <= tears' + faults' + Len(disk.lines)
       /\ md + td + Len(file.lines) <= tears' + faults' + Len(disk.lines) + Syncing'
  BY <1>14 DEF len, dlen, tn, kn, sn, sz
<1>16. Len(file'.lines) = Len(file.lines) /\ Len(disk'.lines) = Len(disk.lines)
  OBVIOUS
<1> QED
  BY <1>8, <1>15, <1>16 DEF LossAccounted

(* A write puts what was begun behind the lines there were.                           *)
LEMMA AccountOfWrite ==
  ASSUME JsInv, TypeOK', NEW m \in 0 .. MaxMessages,
         Len(file'.lines) = Reach(file), Reach(file) \in Nat \ {0},
         \A i \in 1 .. Reach(file) - 1 : file'.lines[i] = file.lines[i],
         ~file.torn => file'.lines[Reach(file)] = m,
         disk' = disk, skip' = skip, acked' = acked, gone' = gone,
         Begun({"meta"})' = {}, Begun({"sync", "meta"})' \subseteq {m} \ {Junk},
         \/ ~file'.torn /\ tears' = tears /\ faults' = faults /\ Syncing' = 1 /\ Syncing = 0
         \/ file'.torn /\ tears' = tears + 1 /\ faults' = faults + 1 /\ Syncing' = 0 /\ Syncing = 0 /\ m = Junk
  PROVE  LossAccounted'
<1>1. TypeOK /\ LossAccounted /\ DiskBegins
  BY DEF JsInv
<1>2. /\ Len(file.lines) \in Nat /\ Len(disk.lines) \in Nat /\ file.torn \in BOOLEAN /\ disk.torn \in BOOLEAN
      /\ skip \in Nat /\ tears \in Nat /\ faults \in Nat /\ Junk = 0 /\ file'.torn \in BOOLEAN
      /\ file.torn => Len(file.lines) # 0
  <2>1. file'.torn \in BOOLEAN
    BY DEF TypeOK, File
  <2> QED
    BY <1>1, <2>1, Types
<1>3. live' = live /\ live \subseteq live \cup Begun({"sync", "meta"}) /\ live \subseteq live \cup Begun({"meta"})
  BY DEF live
<1>4. /\ file.torn => Reach(file) = Len(file.lines) /\ file.lines[Len(file.lines)] \notin live
      /\ ~file.torn => Reach(file) = Len(file.lines) + 1
  <2>1. file.torn => Len(file.lines) \in Within(file.lines)
    BY <1>2 DEF Within
  <2> QED
    BY <1>1, <2>1, ReachIs DEF DiskBegins, live
<1>5. \A x \in live : x \in Seen(file, skip) => x \in Seen(file, skip)'
  <2> SUFFICES ASSUME NEW x \in live, x \in Seen(file, skip) PROVE x \in Seen(file, skip)'
    OBVIOUS
  <2>1. PICK i \in Within(file.lines) : i > skip /\ file.lines[i] = x /\ x # Junk
    BY DEF Seen
  <2>2. i \in 1 .. Reach(file) - 1
    BY <1>2, <1>4, <2>1 DEF Within
  <2>3. i \in Within(file'.lines) /\ file'.lines[i] = x
    BY <2>1, <2>2 DEF Within
  <2> QED
    BY <2>1, <2>3 DEF Seen
<1>6. ~file.torn /\ skip <= Len(file.lines) /\ m # Junk => m \in Seen(file, skip)'
  <2> SUFFICES ASSUME ~file.torn, skip <= Len(file.lines), m # Junk PROVE m \in Seen(file, skip)'
    OBVIOUS
  <2>1. Reach(file) \in Within(file'.lines) /\ Reach(file) > skip
    BY <1>2, <1>4 DEF Within
  <2> QED
    BY <2>1 DEF Seen
<1> DEFINE mine == MissingOf(file)'
           was == MissingOf(file)
<1>7. mine \subseteq was \cup {m}
  BY <1>3, <1>5 DEF MissingOf, Missing
<1>8. (m = Junk \/ (~file.torn /\ skip <= Len(file.lines))) => mine \subseteq was
  BY <1>3, <1>5, <1>6 DEF MissingOf, Missing
<1>9. MissingOn(disk)' \subseteq MissingOn(disk)
  BY <1>3 DEF MissingOn, Missing, Seen
<1> DEFINE lf == Cardinality(was)
           ld == Cardinality(MissingOn(disk))
           mf == Cardinality(mine)
           md == Cardinality(MissingOn(disk)')
           tf == IF file.torn THEN 1 ELSE 0
           td == IF disk.torn THEN 1 ELSE 0
           nf == IF file'.torn THEN 1 ELSE 0
<1>10. was \in SUBSET (0 .. MaxMessages) /\ MissingOn(disk) \in SUBSET (0 .. MaxMessages)
  BY <1>1, MissingAre
<1>11. lf \in Nat /\ mf \in Nat /\ mf <= lf + 1
  <2> HIDE DEF was, mine
  <2> QED
    BY <1>7, <1>10, CountedWith
<1>12. (m = Junk \/ (~file.torn /\ skip <= Len(file.lines))) => mf <= lf
  <2> HIDE DEF was, mine
  <2> QED
    BY <1>8, <1>10, Counted
<1>13. ld \in Nat /\ md \in Nat /\ md <= ld
  BY <1>9, <1>10, Counted
<1>14. /\ Losses(file, {"sync", "meta"}) = lf + tf /\ Losses(disk, {"meta"}) = ld + td
       /\ Losses(file, {"sync", "meta"})' = mf + nf /\ Losses(disk, {"meta"})' = md + td
  BY DEF Losses, MissingOf, MissingOn
<1>15. /\ lf + tf <= tears + faults
       /\ lf + tf + skip <= tears + faults + Len(file.lines)
       /\ ld + td <= tears + faults
       /\ ld + td + skip <= tears + faults + Len(disk.lines)
       /\ ld + td + Len(file.lines) <= tears + faults + Len(disk.lines) + Syncing
  BY <1>1, <1>14 DEF LossAccounted
<1>16. /\ file.torn => tf = 1
       /\ ~file.torn => tf = 0
       /\ file'.torn => nf = 1
       /\ ~file'.torn => nf = 0
       /\ td \in {0, 1}
  OBVIOUS
<1> HIDE DEF lf, ld, mf, md, tf, td, nf, was, mine
<1>17. tf \in Nat /\ td \in Nat /\ nf \in Nat /\ tf + Reach(file) = Len(file.lines) + 1
  <2>1. tf \in Nat /\ td \in Nat /\ nf \in Nat
    BY <1>2, <1>16
  <2>2. CASE file.torn
    <3>1. tf = 1 /\ Reach(file) = Len(file.lines)
      BY <1>4, <1>16, <2>2
    <3> QED
      BY <1>2, <2>1, <3>1
  <2>3. CASE ~file.torn
    <3>1. tf = 0 /\ Reach(file) = Len(file.lines) + 1
      BY <1>4, <1>16, <2>3
    <3> QED
      BY <1>2, <2>1, <3>1
  <2> QED
    BY <2>2, <2>3
<1>18. tears' \in Nat /\ faults' \in Nat /\ Syncing \in Nat /\ Syncing' \in Nat /\ Syncing = 0
  BY JsAssumption, SyncingIs DEF TypeOK
<1>19. \/ nf = 0 /\ tears' = tears /\ faults' = faults /\ Syncing' = 1
       \/ nf = 1 /\ tears' = tears + 1 /\ faults' = faults + 1 /\ Syncing' = 0 /\ m = Junk
  BY <1>16
<1>20. mf <= lf \/ (mf <= lf + 1 /\ (tf = 1 \/ (tf = 0 /\ skip > Len(file.lines))))
  BY <1>2, <1>11, <1>12, <1>16
<1>21. m = Junk => mf <= lf
  BY <1>12
<1> DEFINE len == Len(file.lines)
           dlen == Len(disk.lines)
           tn == tears'
           kn == faults'
           r == Reach(file)
           sz == Syncing'
<1>22. /\ len \in Nat /\ dlen \in Nat /\ tn \in Nat /\ kn \in Nat /\ r \in Nat /\ sz \in Nat
       /\ skip \in Nat /\ tears \in Nat /\ faults \in Nat
       /\ tf + r = len + 1
       /\ mf <= lf \/ (mf <= lf + 1 /\ (tf = 1 \/ (tf = 0 /\ skip > len)))
  BY <1>2, <1>17, <1>18, <1>20
<1>23. \/ nf = 0 /\ tn = tears /\ kn = faults /\ sz = 1
       \/ nf = 1 /\ tn = tears + 1 /\ kn = faults + 1 /\ sz = 0 /\ mf <= lf
  BY <1>19, <1>21
<1>24. /\ lf + tf <= tears + faults /\ lf + tf + skip <= tears + faults + len
       /\ ld + td <= tears + faults /\ ld + td + skip <= tears + faults + dlen
       /\ ld + td + len <= tears + faults + dlen + 0
  BY <1>15, <1>18
<1> HIDE DEF lf, ld, mf, md, tf, td, nf, len, dlen, tn, kn, r, sz
<1>25. /\ mf + nf <= tn + kn /\ mf + nf + skip <= tn + kn + r
       /\ md + td <= tn + kn /\ md + td + skip <= tn + kn + dlen
       /\ md + td + r <= tn + kn + dlen + sz
  BY ONLY <1>11, <1>13, <1>17, <1>22, <1>23, <1>24
<1>26. /\ mf + nf <= tears' + faults' /\ mf + nf + skip <= tears' + faults' + Reach(file)
       /\ md + td <= tears' + faults' /\ md + td + skip <= tears' + faults' + Len(disk.lines)
       /\ md + td + Reach(file) <= tears' + faults' + Len(disk.lines) + Syncing'
  BY <1>25 DEF len, dlen, tn, kn, r, sz
<1>27. Len(disk'.lines) = Len(disk.lines)
  OBVIOUS
<1> QED
  BY <1>14, <1>26, <1>27 DEF LossAccounted

(* A call that is not an append has nothing under way.                                *)
LEMMA NothingUnderWay ==
  ASSUME NEW p, NEW c, NEW X, p \notin X \/ c.op # "add"
  PROVE  UnderWay(p, c, X) = {}
  BY DEF UnderWay

(* A step that neither writes nor finds another offset.                               *)
LEMMA QuietStep ==
  ASSUME JsInv, TypeOK', NEW w \in Writers, Alone(w), NEW p \in Stages, NEW c \in CallType, Turn(w, p, c),
         p \notin {"sync", "meta"} \/ c.op # "add",
         file' = file, disk' = disk, skip' = skip, tears' = tears,
         live' \subseteq live \cup UnderWay(pc[w], call[w], {"meta"}),
         \/ p # "sync" /\ pc[w] # "sync" /\ faults' = faults
         \/ faults' = faults + 1
  PROVE  LossAccounted'
<1>1. TypeOK
  BY DEF JsInv
<1>2. /\ Begun({"meta"}) = UnderWay(pc[w], call[w], {"meta"})
      /\ Begun({"meta"})' = UnderWay(p, c, {"meta"})
      /\ Begun({"sync", "meta"}) = UnderWay(pc[w], call[w], {"sync", "meta"})
      /\ Begun({"sync", "meta"})' = UnderWay(p, c, {"sync", "meta"})
      /\ Syncing = (IF pc[w] = "sync" THEN 1 ELSE 0) /\ Syncing' = (IF p = "sync" THEN 1 ELSE 0)
  BY AfterStep
<1>3. UnderWay(p, c, {"meta"}) = {} /\ UnderWay(p, c, {"sync", "meta"}) = {}
  BY NothingUnderWay
<1>4. UnderWay(pc[w], call[w], {"meta"}) \subseteq UnderWay(pc[w], call[w], {"sync", "meta"})
  BY DEF UnderWay
<1>5. Seen(file, skip)' = Seen(file, skip) /\ Seen(disk, skip)' = Seen(disk, skip)
  BY DEF Seen, Within
<1>6. MissingOf(file)' \subseteq MissingOf(file)
  BY <1>2, <1>3, <1>4, <1>5 DEF MissingOf, Missing
<1>7. MissingOn(disk)' \subseteq MissingOn(disk)
  BY <1>2, <1>3, <1>5 DEF MissingOn, Missing
<1>8. tears' >= tears /\ faults <= faults' /\ Syncing + faults <= Syncing' + faults'
  <2>1. tears \in Nat /\ faults \in Nat
    BY <1>1, Types
  <2>2. CASE p # "sync" /\ pc[w] # "sync" /\ faults' = faults
    <3>1. Syncing = 0 /\ Syncing' = 0
      BY <1>2, <2>2
    <3> QED
      BY <2>1, <2>2, <3>1
  <2>3. CASE faults' = faults + 1
    <3>1. Syncing \in {0, 1} /\ Syncing' \in {0, 1}
      BY <1>2
    <3> DEFINE sy == Syncing
               sz == Syncing'
    <3>2. sy \in {0, 1} /\ sz \in {0, 1}
      BY <3>1
    <3> HIDE DEF sy, sz
    <3>3. sy + faults <= sz + (faults + 1)
      BY ONLY <2>1, <3>2
    <3>4. Syncing + faults <= Syncing' + faults'
      BY <2>3, <3>3 DEF sy, sz
    <3> QED
      BY <2>1, <2>3, <3>4
  <2> QED
    BY <2>2, <2>3
<1> QED
  BY <1>6, <1>7, <1>8, AccountStays

(* A step that finds another offset: what it hides is gone.                           *)
LEMMA OffsetStep ==
  ASSUME JsInv, TypeOK', NEW w \in Writers, Alone(w), NEW p \in Stages, NEW c \in CallType, Turn(w, p, c),
         pc[w] = "meta", call[w].op # "add", p \in {"idle", "rewrite"},
         file' = file, disk' = disk, acked' = acked, tears' = tears, faults' = faults,
         skip' \in Nat, skip' <= Len(file.lines), gone \subseteq gone', Hidden(skip') \subseteq gone'
  PROVE  LossAccounted'
<1>1. TypeOK /\ DiskBegins
  BY DEF JsInv
<1>2. /\ Begun({"meta"}) = UnderWay(pc[w], call[w], {"meta"})
      /\ Begun({"meta"})' = UnderWay(p, c, {"meta"})
      /\ Begun({"sync", "meta"}) = UnderWay(pc[w], call[w], {"sync", "meta"})
      /\ Begun({"sync", "meta"})' = UnderWay(p, c, {"sync", "meta"})
      /\ Syncing = (IF pc[w] = "sync" THEN 1 ELSE 0) /\ Syncing' = (IF p = "sync" THEN 1 ELSE 0)
  BY AfterStep
<1>3. UnderWay(p, c, {"meta"}) = {} /\ UnderWay(p, c, {"sync", "meta"}) = {}
  BY NothingUnderWay
<1>4. Syncing = 0 /\ Syncing' = 0
  BY <1>2
<1>5. live' \subseteq live \ Hidden(skip')
  BY DEF live
<1>6. /\ skip \in Nat /\ Len(disk.lines) \in Nat /\ Len(file.lines) \in Nat /\ Junk \notin live
      /\ Len(disk.lines) <= Len(file.lines) /\ Within(disk.lines) \subseteq Within(file.lines)
  BY <1>1, Types, Wanted DEF DiskBegins, Within
<1>7. \A x \in live' : x \in Seen(file, skip) => x \in Seen(file', skip')
  <2> SUFFICES ASSUME NEW x \in live', NEW i \in Within(file.lines), i > skip, file.lines[i] = x
               PROVE  x \in Seen(file', skip')
    BY DEF Seen
  <2>1. i <= skip' => x \in Hidden(skip')
    BY DEF Hidden, Within
  <2>2. i \in Nat
    BY <1>6 DEF Within
  <2>3. i > skip'
    BY <1>5, <2>1, <2>2
  <2>4. x # Junk
    BY <1>5, <1>6
  <2> QED
    BY <2>3, <2>4 DEF Seen
<1>8. \A x \in live' : x \in Seen(disk, skip) => x \in Seen(disk', skip')
  <2> SUFFICES ASSUME NEW x \in live', NEW i \in Within(disk.lines), i > skip, disk.lines[i] = x
               PROVE  x \in Seen(disk', skip')
    BY DEF Seen
  <2>1. i \in Nat /\ i \in Within(file.lines)
    BY <1>6 DEF Within
  <2>2. x \in acked
    BY <1>5 DEF live
  <2>3. ~Loose(i)
    <3>1. i <= Len(disk.lines)
      BY <1>6 DEF Within
    <3>2. disk.torn => disk.lines[Len(disk.lines)] \notin acked
      BY <1>1 DEF DiskBegins
    <3> QED
      BY <1>6, <2>1, <2>2, <3>1, <3>2 DEF Loose
  <2>4. file.lines[i] = x
    BY <1>1, <2>3 DEF DiskBegins
  <2>5. i <= skip' => x \in Hidden(skip')
    BY <2>1, <2>4 DEF Hidden, Within
  <2>6. i > skip'
    BY <1>5, <2>1, <2>5
  <2>7. x # Junk
    BY <1>5, <1>6
  <2> QED
    BY <2>6, <2>7 DEF Seen
<1>9. live' \subseteq live
  BY <1>5
<1>10. MissingOf(file)' \subseteq MissingOf(file)
  BY <1>2, <1>3, <1>7, <1>9 DEF MissingOf, Missing
<1>11. MissingOn(disk)' \subseteq MissingOn(disk)
  BY <1>2, <1>3, <1>8, <1>9 DEF MissingOn, Missing
<1>12. tears' >= tears /\ faults <= faults' /\ Syncing + faults <= Syncing' + faults'
  <2>1. tears \in Nat /\ faults \in Nat
    BY <1>1, Types
  <2> QED
    BY <1>4, <2>1
<1> QED
  BY <1>4, <1>10, <1>11, <1>12, AccountStays

(* Once it is synced the disk has what the file has.                                  *)
LEMMA SyncStep ==
  ASSUME JsInv, TypeOK', NEW w \in Writers, Alone(w), Syncs(w)
  PROVE  LossAccounted'
<1>1. TypeOK /\ LossAccounted /\ Placed(pc[w], call[w])
  BY DEF JsInv, CallsPlaced
<1> DEFINE c == Called(call[w].op, call[w].msg, skip, call[w].lines)
<1>2. /\ pc[w] = "sync" /\ disk' = file /\ file' = file /\ skip' = skip /\ acked' = acked /\ gone' = gone
      /\ tears' = tears /\ faults' = faults /\ Turn(w, "meta", c)
  BY DEF Syncs
<1>3. call[w].op = "add"
  BY <1>1, <1>2 DEF Placed
<1>4. call[w] \in CallType
  BY <1>1, Types
<1>5. c \in CallType /\ c.op = "add" /\ c.msg = call[w].msg /\ "meta" \in Stages
  BY <1>1, <1>3, <1>4, CallParts, Types, CalledIs DEF Stages
<1> HIDE DEF c
<1>6. /\ Begun({"meta"})' = UnderWay("meta", c, {"meta"})
      /\ Begun({"sync", "meta"}) = UnderWay(pc[w], call[w], {"sync", "meta"})
      /\ Begun({"sync", "meta"})' = UnderWay("meta", c, {"sync", "meta"})
      /\ Syncing = (IF pc[w] = "sync" THEN 1 ELSE 0) /\ Syncing' = (IF "meta" = "sync" THEN 1 ELSE 0)
  BY <1>2, <1>5, AfterStep
<1>7. Begun({"meta"})' = Begun({"sync", "meta"}) /\ Begun({"sync", "meta"})' = Begun({"sync", "meta"})
  BY <1>2, <1>3, <1>5, <1>6 DEF UnderWay
<1>8. Syncing' = 0
  BY <1>6
<1>9. live' = live /\ Seen(file, skip)' = Seen(file, skip) /\ Seen(disk, skip)' = Seen(file, skip)
  BY <1>2 DEF live, Seen, Within
<1>10. Missing(file, {"sync", "meta"})' = Missing(file, {"sync", "meta"})
  BY <1>7, <1>9 DEF Missing
<1>11. Missing(disk, {"meta"})' = Missing(file, {"sync", "meta"})
  BY <1>7, <1>9 DEF Missing
<1> DEFINE l == Cardinality(Missing(file, {"sync", "meta"}))
           t == IF file.torn THEN 1 ELSE 0
           len == Len(file.lines)
           tk == tears + faults
<1>12. /\ Losses(file, {"sync", "meta"})' = l + t /\ Losses(disk, {"meta"})' = l + t
       /\ Losses(file, {"sync", "meta"}) = l + t
  BY <1>2, <1>10, <1>11 DEF Losses
<1>13. l \in Nat /\ t \in Nat /\ len \in Nat /\ skip \in Nat /\ tk \in Nat
  <2>1. MissingOf(file) \in SUBSET (0 .. MaxMessages)
    BY <1>1, MissingAre
  <2>2. l \in Nat
    BY <2>1, Counted DEF MissingOf
  <2> QED
    BY <1>1, <2>2, Types
<1>14. l + t <= tk /\ l + t + skip <= tk + len
  BY <1>1, <1>12 DEF LossAccounted
<1> HIDE DEF l, t, len, tk
<1>15. l + t + len <= tk + len + 0
  BY <1>13, <1>14
<1>16. tears' + faults' = tk /\ Len(file'.lines) = len /\ Len(disk'.lines) = len
  BY <1>2 DEF tk, len
<1> QED
  BY <1>2, <1>8, <1>12, <1>14, <1>15, <1>16 DEF LossAccounted

(* A rewrite costs no more than it was to cost when it began.                         *)
LEMMA ReplaceStep ==
  ASSUME JsInv, TypeOK', NEW w \in Writers, Alone(w), Replaces(w)
  PROVE  LossAccounted'
<1>1. TypeOK /\ Placed(pc[w], call[w])
  BY DEF JsInv, CallsPlaced
<1>2. /\ pc[w] = "rewrite" /\ file' = [lines |-> call[w].lines, torn |-> FALSE] /\ disk' = file' /\ skip' = skip
      /\ acked' = acked /\ gone \subseteq gone' /\ tears' = tears /\ faults' = faults /\ Turn(w, "idle", NoCall)
  BY DEF Replaces
<1>3. skip = 0 /\ Cardinality(live \ ToSet(call[w].lines)) <= tears + faults
  BY <1>1, <1>2 DEF Placed
<1>4. /\ Begun({"meta"})' = UnderWay("idle", NoCall, {"meta"})
      /\ Begun({"sync", "meta"})' = UnderWay("idle", NoCall, {"sync", "meta"})
      /\ Syncing' = (IF "idle" = "sync" THEN 1 ELSE 0)
  BY <1>2, NoCallIs, AfterStep DEF Stages
<1>5. Begun({"meta"})' = {} /\ Begun({"sync", "meta"})' = {} /\ Syncing' = 0
  BY <1>4 DEF UnderWay
<1>6. call[w].lines \in Seq(AnyLine) /\ Len(call[w].lines) \in Nat
  BY <1>1, Types, CallParts
<1>7. /\ file'.lines = call[w].lines /\ disk'.lines = call[w].lines /\ ~file'.torn /\ ~disk'.torn
  BY <1>2
<1>8. Seen(file, skip)' = ToSet(call[w].lines) \ {Junk} /\ Seen(disk, skip)' = Seen(file, skip)'
  BY <1>2, <1>3, <1>6, <1>7 DEF Seen, Within, ToSet
<1> DEFINE q == live \ ToSet(call[w].lines)
           m == live' \ Seen(file, skip)'
<1>9. live' \subseteq live /\ Junk \notin live
  BY <1>1, <1>2, Wanted DEF live
<1>10. m \subseteq q
  BY <1>8, <1>9
<1>11. q \in SUBSET (0 .. MaxMessages)
  BY <1>1, Wanted
<1>12. Cardinality(m) \in Nat /\ Cardinality(q) \in Nat /\ Cardinality(m) <= Cardinality(q)
  <2> HIDE DEF m, q
  <2> QED
    BY <1>10, <1>11, Counted
<1>13. Missing(file, {"sync", "meta"})' = m /\ Missing(disk, {"meta"})' = m
  BY <1>5, <1>8 DEF Missing
<1> DEFINE k == Cardinality(m)
           n == Cardinality(q)
           tk == tears + faults
           len == Len(call[w].lines)
<1>14. Losses(file, {"sync", "meta"})' = k + 0 /\ Losses(disk, {"meta"})' = k + 0
  BY <1>7, <1>13 DEF Losses
<1>15. k \in Nat /\ n \in Nat /\ k <= n /\ n <= tk /\ tk \in Nat /\ len \in Nat
  <2>1. tears \in Nat /\ faults \in Nat
    BY <1>1, Types
  <2> QED
    BY <1>3, <1>6, <1>12, <2>1
<1> HIDE DEF k, n, tk, len
<1>16. k + 0 <= tk /\ k + 0 + 0 <= tk + len /\ k + 0 + len <= tk + len + 0
  BY <1>15
<1>17. tears' + faults' = tk /\ Len(file'.lines) = len /\ Len(disk'.lines) = len /\ skip' = 0
  BY <1>2, <1>3, <1>7 DEF tk, len
<1> QED
  BY <1>5, <1>14, <1>16, <1>17 DEF LossAccounted

(* The account is kept.                                                               *)
LEMMA LossAccountedKept ==
  ASSUME JsInv, TypeOK', NEW w \in Writers, Alone(w), Moves(w)
  PROVE  LossAccounted'
<1>1. TypeOK /\ Placed(pc[w], call[w]) /\ CallsPlaced
  BY DEF JsInv, CallsPlaced
<1>2. call[w] \in CallType /\ NoCall \in CallType /\ {"idle", "append", "sync", "meta", "rewrite"} = Stages
  BY <1>1, Types, NoCallIs DEF Stages
<1>3. /\ call[w].op \in Operations /\ call[w].msg \in AnyLine /\ call[w].skip \in Nat /\ call[w].lines \in Seq(AnyLine)
      /\ Len(file.lines) \in Nat /\ skip \in Nat /\ next \in Nat /\ MaxMessages \in Nat /\ next <= MaxMessages + 1
      /\ next >= 1 /\ Junk = 0 /\ <<>> \in Seq(AnyLine)
  BY <1>1, <1>2, CallParts, Types, NoCallIs
<1>4. NoCall.op # "add"
  BY NoCallIs, CalledIs DEF NoCall, Called
<1>5. CASE Starts(w)
  <2>1. PICK o \in Operations :
             \E s \in Nat, l \in Seq(AnyLine) : Carries(o, s, l) /\ Turn(w, "meta", Called(o, 0, s, l))
    BY <1>5 DEF Starts
  <2>2. PICK s \in Nat, l \in Seq(AnyLine) : Carries(o, s, l) /\ Turn(w, "meta", Called(o, 0, s, l))
    BY <2>1
  <2> DEFINE c == Called(o, 0, s, l)
  <2>3. o # "add"
    BY <2>2 DEF Carries
  <2>4. 0 \in AnyLine
    BY <1>3 DEF AnyLine
  <2>5. c \in CallType /\ c.op # "add"
    BY <2>3, <2>4, CalledIs
  <2>6. /\ pc[w] = "idle" /\ file' = file /\ disk' = disk /\ skip' = skip /\ acked' = acked /\ gone' = gone
        /\ tears' = tears /\ faults' = faults
    BY <1>5 DEF Starts
  <2>7. live' \subseteq live
    BY <2>6 DEF live
  <2> HIDE DEF c
  <2>8. Turn(w, "meta", c)
    BY <2>2 DEF c
  <2>9. "meta" \in Stages
    BY <1>2
  <2> QED
    BY <2>5, <2>6, <2>7, <2>8, <2>9, QuietStep
<1>6. CASE Adds(w)
  <2> DEFINE c == Called("add", next, 0, <<>>)
  <2>1. next \in AnyLine /\ "add" \in Operations
    BY <1>3, <1>6 DEF Adds, AnyLine, Operations
  <2>2. c \in CallType
    BY <1>3, <2>1, CalledIs
  <2>3. /\ pc[w] = "idle" /\ file' = file /\ disk' = disk /\ skip' = skip /\ acked' = acked /\ gone' = gone
        /\ tears' = tears /\ faults' = faults /\ Turn(w, "append", c)
    BY <1>6 DEF Adds
  <2>4. live' \subseteq live
    BY <2>3 DEF live
  <2> HIDE DEF c
  <2>5. "append" \in Stages
    BY <1>2
  <2> QED
    BY <2>2, <2>3, <2>4, <2>5, QuietStep
<1>7. CASE Writes(w)
  <2>1. /\ ~file'.torn /\ Len(file'.lines) = Reach(file) /\ Reach(file) \in Nat \ {0} /\ call[w].msg \in AnyLine
        /\ \A i \in 1 .. Reach(file) - 1 : file'.lines[i] = file.lines[i]
        /\ ~file.torn => file'.lines[Reach(file)] = call[w].msg
    BY <1>1, <1>7, WritesIs
  <2>2. /\ pc[w] = "append" /\ Turn(w, "sync", call[w]) /\ disk' = disk /\ skip' = skip /\ acked' = acked
        /\ gone' = gone /\ tears' = tears /\ faults' = faults
    BY <1>7 DEF Writes
  <2>3. call[w].op = "add" /\ call[w].msg \in 1 .. next - 1
    BY <1>1, <2>2 DEF Placed
  <2>4. call[w].msg # Junk /\ call[w].msg \in 0 .. MaxMessages
    <3> DEFINE m == call[w].msg
    <3>1. m \in 1 .. next - 1
      BY <2>3
    <3> HIDE DEF m
    <3>2. m # Junk /\ m \in 0 .. MaxMessages
      BY <1>3, <3>1
    <3> QED
      BY <3>2 DEF m
  <2>5. "sync" \in Stages
    BY <1>2
  <2>6. /\ Begun({"meta"})' = UnderWay("sync", call[w], {"meta"})
        /\ Begun({"sync", "meta"})' = UnderWay("sync", call[w], {"sync", "meta"})
        /\ Syncing = (IF pc[w] = "sync" THEN 1 ELSE 0) /\ Syncing' = (IF "sync" = "sync" THEN 1 ELSE 0)
    BY <1>2, <2>2, <2>5, AfterStep
  <2>7. Begun({"meta"})' = {} /\ Begun({"sync", "meta"})' \subseteq {call[w].msg} \ {Junk}
        /\ Syncing = 0 /\ Syncing' = 1
    BY <2>2, <2>4, <2>6 DEF UnderWay
  <2> QED
    BY <2>1, <2>2, <2>4, <2>7, AccountOfWrite
<1>8. CASE Tears(w)
  <2>1. /\ pc[w] = "append" /\ Turn(w, "idle", NoCall) /\ disk' = disk /\ skip' = skip /\ acked' = acked
        /\ gone' = gone /\ faults' = faults + 1 /\ "idle" \in Stages
    BY <1>2, <1>8 DEF Tears
  <2>2. CASE file' = file /\ tears' = tears
    <3>1. live' \subseteq live
      BY <2>1 DEF live
    <3> QED
      BY <1>2, <1>4, <2>1, <2>2, <3>1, QuietStep
  <2>3. CASE file' = Behind(file, Junk, TRUE) /\ tears' = tears + 1
    <3>1. /\ file'.torn /\ Len(file'.lines) = Reach(file) /\ Reach(file) \in Nat \ {0}
          /\ \A i \in 1 .. Reach(file) - 1 : file'.lines[i] = file.lines[i]
          /\ file'.lines[Reach(file)] = Junk
      BY <1>1, <2>3, TearsIs
    <3>2. Junk \in 0 .. MaxMessages
      BY <1>3
    <3>3. /\ Begun({"meta"})' = UnderWay("idle", NoCall, {"meta"})
          /\ Begun({"sync", "meta"})' = UnderWay("idle", NoCall, {"sync", "meta"})
          /\ Syncing = (IF pc[w] = "sync" THEN 1 ELSE 0) /\ Syncing' = (IF "idle" = "sync" THEN 1 ELSE 0)
      BY <1>2, <2>1, AfterStep
    <3>4. Begun({"meta"})' = {} /\ Begun({"sync", "meta"})' \subseteq {Junk} \ {Junk} /\ Syncing = 0 /\ Syncing' = 0
      BY <2>1, <3>3 DEF UnderWay
    <3>5. \/ ~file'.torn /\ tears' = tears /\ faults' = faults /\ Syncing' = 1 /\ Syncing = 0
          \/ file'.torn /\ tears' = tears + 1 /\ faults' = faults + 1 /\ Syncing' = 0 /\ Syncing = 0 /\ Junk = Junk
      BY <2>1, <2>3, <3>1, <3>4
    <3> QED
      BY <2>1, <3>1, <3>2, <3>4, <3>5, AccountOfWrite
  <2> QED
    BY <1>8, <2>2, <2>3 DEF Tears
<1>9. CASE Fails(w)
  <2>1. /\ Turn(w, "idle", NoCall) /\ file' = file /\ disk' = disk /\ skip' = skip /\ acked' = acked
        /\ gone' = gone /\ tears' = tears /\ faults' = faults + 1 /\ "idle" \in Stages
    BY <1>2, <1>9 DEF Fails
  <2>2. live' \subseteq live
    BY <2>1 DEF live
  <2> QED
    BY <1>2, <1>4, <2>1, <2>2, QuietStep
<1>10. CASE Syncs(w)
  BY <1>10, SyncStep
<1>11. CASE Acks(w)
  <2>1. /\ pc[w] = "meta" /\ call[w].op = "add" /\ acked' = acked \cup {call[w].msg} /\ skip' = call[w].skip
        /\ Turn(w, "idle", NoCall) /\ file' = file /\ disk' = disk /\ gone' = gone /\ tears' = tears /\ faults' = faults
        /\ "idle" \in Stages
    BY <1>2, <1>11 DEF Acks
  <2>2. skip' = skip
    BY <1>1, <2>1 DEF Placed
  <2>3. UnderWay(pc[w], call[w], {"meta"}) = {call[w].msg}
    BY <2>1 DEF UnderWay
  <2>4. live' \subseteq live \cup UnderWay(pc[w], call[w], {"meta"})
    BY <2>1, <2>3 DEF live
  <2> QED
    BY <1>2, <1>4, <2>1, <2>2, <2>4, QuietStep
<1>12. CASE Hides(w)
  <2>1. /\ pc[w] = "meta" /\ call[w].op \in {"summary", "truncate"} /\ skip' = call[w].skip
        /\ gone' = gone \cup (IF call[w].op = "truncate" THEN Hidden(call[w].skip) ELSE {})
        /\ Turn(w, "idle", NoCall) /\ file' = file /\ disk' = disk /\ acked' = acked /\ tears' = tears
        /\ faults' = faults /\ "idle" \in Stages
    BY <1>2, <1>12 DEF Hides
  <2>2. call[w].op = "summary" => skip' = skip
    BY <1>1, <2>1 DEF Placed
  <2>3. call[w].op = "truncate" => skip' = skip \/ call[w].skip <= Len(file.lines)
    BY <1>1, <2>1 DEF Placed
  <2>4. CASE skip' = skip
    <3>1. live' \subseteq live
      BY <2>1 DEF live
    <3> QED
      BY <1>2, <1>4, <2>1, <2>4, <3>1, QuietStep
  <2>5. CASE call[w].op = "truncate" /\ call[w].skip <= Len(file.lines)
    <3>1. gone \subseteq gone' /\ Hidden(skip') \subseteq gone'
      BY <2>1, <2>5
    <3> QED
      BY <1>2, <1>3, <2>1, <2>5, <3>1, OffsetStep
  <2> QED
    BY <2>1, <2>2, <2>3, <2>4, <2>5
<1>13. CASE Reveals(w)
  <2>1. /\ pc[w] = "meta" /\ call[w].op \in {"set", "compact"} /\ skip' = call[w].skip
        /\ gone \subseteq gone' /\ Turn(w, "rewrite", call[w]) /\ "rewrite" \in Stages
        /\ file' = file /\ disk' = disk /\ acked' = acked /\ tears' = tears /\ faults' = faults
    BY <1>2, <1>13 DEF Reveals
  <2>2. call[w].skip = 0
    BY <1>1, <2>1 DEF Placed
  <2>3. Hidden(skip') = {} /\ skip' \in Nat /\ skip' <= Len(file.lines)
    BY <1>3, <2>1, <2>2 DEF Hidden
  <2> QED
    BY <1>2, <2>1, <2>3, OffsetStep
<1>14. CASE Replaces(w)
  BY <1>14, ReplaceStep
<1> QED
  BY <1>5, <1>6, <1>7, <1>8, <1>9, <1>10, <1>11, <1>12, <1>13, <1>14 DEF Moves

(* What is not synced stays accounted for.                                            *)
LEMMA UnsyncedKept ==
  ASSUME JsInv, TypeOK', NEW w \in Writers, Alone(w), Moves(w)
  PROVE  Unsynced'
<1>1. TypeOK /\ Unsynced /\ DiskBegins /\ Placed(pc[w], call[w])
  BY DEF JsInv, CallsPlaced
<1>2. /\ \A v \in Writers : v # w => pc'[v] = "idle"
      /\ Syncing = (IF pc[w] = "sync" THEN 1 ELSE 0) /\ Syncing' = (IF pc'[w] = "sync" THEN 1 ELSE 0)
  BY <1>1, OneCallKept, SyncingNow, SyncingThen
<1>3. pc \in [Writers -> Stages] /\ \A p, c : Turn(w, p, c) => pc'[w] = p
  BY <1>1, Types DEF Turn
<1> DEFINE f == Len(file.lines)
           d == Len(disk.lines)
           sy == Syncing
           fn == Len(file'.lines)
           dn == Len(disk'.lines)
           sz == Syncing'
           sn == skip'
           kn == faults'
<1>4. f \in Nat /\ d \in Nat /\ sy \in {0, 1} /\ skip \in Nat /\ faults \in Nat /\ sn \in Nat
  <2>1. sn \in Nat
    BY DEF TypeOK
  <2> QED
    BY <1>1, <1>2, <2>1, Types
<1>5. skip <= d + faults /\ f <= d + faults + sy /\ d <= f
  BY <1>1 DEF Unsynced, DiskBegins
<1>6. CASE Starts(w) \/ Adds(w) \/ Acks(w) \/ Hides(w) \/ Reveals(w)
  <2>1. pc[w] # "sync" /\ pc'[w] # "sync"
    BY <1>3, <1>6 DEF Starts, Adds, Acks, Hides, Reveals
  <2>2. fn = f /\ dn = d /\ kn = faults /\ sy = 0 /\ sz = 0
    BY <1>2, <1>6, <2>1 DEF Starts, Adds, Acks, Hides, Reveals
  <2>3. sn = skip \/ sn <= f
    <3>1. CASE Starts(w) \/ Adds(w)
      BY <3>1 DEF Starts, Adds
    <3>2. CASE Acks(w)
      BY <1>1, <3>2 DEF Acks, Placed
    <3>3. CASE Hides(w)
      BY <1>1, <3>3 DEF Hides, Placed
    <3>4. CASE Reveals(w)
      <4>1. sn = 0
        BY <1>1, <3>4 DEF Reveals, Placed
      <4> QED
        BY <1>4, <4>1
    <3> QED
      BY <1>6, <3>1, <3>2, <3>3, <3>4
  <2> HIDE DEF f, d, sy, fn, dn, sz, sn, kn
  <2>4. (sn = skip \/ sn <= f) => sn <= d + faults
    BY ONLY <1>4, <1>5, <2>2
  <2>5. sn <= dn + kn /\ fn <= dn + kn + sz
    BY ONLY <1>5, <2>2, <2>3, <2>4
  <2> QED
    BY <2>5 DEF Unsynced, f, d, sy, fn, dn, sz, sn, kn
<1>7. CASE Writes(w)
  <2>1. fn = Reach(file) /\ dn = d /\ sn = skip /\ kn = faults
    BY <1>1, <1>7, WritesIs DEF Writes
  <2>2. sy = 0 /\ sz = 1
    BY <1>2, <1>3, <1>7 DEF Writes
  <2>3. fn = f \/ fn = f + 1
    BY <1>1, <2>1, ReachIs, Types
  <2> HIDE DEF f, d, sy, fn, dn, sz, sn, kn
  <2>4. sn <= dn + kn /\ fn <= dn + kn + sz
    BY ONLY <1>4, <1>5, <2>1, <2>2, <2>3
  <2> QED
    BY <2>4 DEF Unsynced, f, d, sy, fn, dn, sz, sn, kn
<1>8. CASE Tears(w)
  <2>1. dn = d /\ sn = skip /\ kn = faults + 1
    BY <1>8 DEF Tears
  <2>2. sy = 0 /\ sz = 0
    BY <1>2, <1>3, <1>8 DEF Tears
  <2>3. fn = f \/ fn = f + 1
    <3>1. CASE file' = file
      BY <3>1
    <3>2. CASE file' = Behind(file, Junk, TRUE)
      <4>1. fn = Reach(file)
        BY <1>1, <3>2, TearsIs
      <4> QED
        BY <1>1, <4>1, ReachIs, Types
    <3> QED
      BY <1>8, <3>1, <3>2 DEF Tears
  <2> HIDE DEF f, d, sy, fn, dn, sz, sn, kn
  <2>4. sn <= dn + kn /\ fn <= dn + kn + sz
    BY ONLY <1>4, <1>5, <2>1, <2>2, <2>3
  <2> QED
    BY <2>4 DEF Unsynced, f, d, sy, fn, dn, sz, sn, kn
<1>9. CASE Fails(w)
  <2>1. dn = d /\ fn = f /\ sn = skip /\ kn = faults + 1
    BY <1>9 DEF Fails
  <2>2. sz = 0
    BY <1>2, <1>3, <1>9 DEF Fails
  <2> HIDE DEF f, d, sy, fn, dn, sz, sn, kn
  <2>4. sn <= dn + kn /\ fn <= dn + kn + sz
    BY ONLY <1>4, <1>5, <2>1, <2>2
  <2> QED
    BY <2>4 DEF Unsynced, f, d, sy, fn, dn, sz, sn, kn
<1>10. CASE Syncs(w)
  <2>1. dn = f /\ fn = f /\ sn = skip /\ kn = faults
    BY <1>10 DEF Syncs
  <2>2. sz = 0
    BY <1>2, <1>3, <1>10 DEF Syncs
  <2> HIDE DEF f, d, sy, fn, dn, sz, sn, kn
  <2>4. sn <= dn + kn /\ fn <= dn + kn + sz
    BY ONLY <1>4, <1>5, <2>1, <2>2
  <2> QED
    BY <2>4 DEF Unsynced, f, d, sy, fn, dn, sz, sn, kn
<1>11. CASE Replaces(w)
  <2>1. pc[w] = "rewrite" /\ skip' = skip /\ faults' = faults /\ disk' = file' /\ file'.lines = call[w].lines
    BY <1>11 DEF Replaces
  <2>2. skip = 0 /\ Len(call[w].lines) \in Nat
    BY <1>1, <2>1, Types, CallParts DEF Placed
  <2>3. fn = dn /\ fn \in Nat /\ sn = 0 /\ kn = faults
    BY <2>1, <2>2
  <2>4. sz = 0
    BY <1>2, <1>3, <1>11 DEF Replaces
  <2> HIDE DEF f, d, sy, fn, dn, sz, sn, kn
  <2>5. sn <= dn + kn /\ fn <= dn + kn + sz
    BY ONLY <1>4, <2>3, <2>4
  <2> QED
    BY <2>5 DEF Unsynced, f, d, sy, fn, dn, sz, sn, kn
<1> QED
  BY <1>6, <1>7, <1>8, <1>9, <1>10, <1>11 DEF Moves

(* What a call carries stays true of what it will write.                              *)
LEMMA CallsPlacedKept ==
  ASSUME JsInv, NEW w \in Writers, Alone(w), Moves(w)
  PROVE  CallsPlaced'
<1>1. TypeOK /\ LinesRise /\ DiskBegins /\ LossAccounted /\ Placed(pc[w], call[w])
  BY DEF JsInv, CallsPlaced
<1>2. \A v \in Writers : v # w => pc'[v] = "idle"
  BY <1>1, OneCallKept
<1>3. \A p \in Stages, c \in CallType : Turn(w, p, c) => pc'[w] = p /\ call'[w] = c
  BY <1>1, Turned
<1>4. /\ call[w] \in CallType /\ NoCall \in CallType /\ next \in Nat /\ next >= 1 /\ next <= MaxMessages + 1
      /\ MaxMessages \in Nat /\ {"idle", "append", "sync", "meta", "rewrite"} = Stages
      /\ tears \in Nat /\ faults \in Nat /\ Len(file.lines) \in Nat /\ <<>> \in Seq(AnyLine) /\ 0 \in AnyLine
  BY <1>1, Types, NoCallIs DEF Stages
<1>5. SUFFICES Placed(pc[w], call[w])'
  BY <1>2 DEF CallsPlaced, Placed
<1>6. CASE pc'[w] = "idle"
  BY <1>6 DEF Placed
<1>7. CASE Starts(w)
  <2>1. PICK o \in Operations :
             \E s \in Nat, l \in Seq(AnyLine) : Carries(o, s, l) /\ Turn(w, "meta", Called(o, 0, s, l))
    BY <1>7 DEF Starts
  <2>2. PICK s \in Nat, l \in Seq(AnyLine) : Carries(o, s, l) /\ Turn(w, "meta", Called(o, 0, s, l))
    BY <2>1
  <2>3. /\ Called(o, 0, s, l) \in CallType /\ Called(o, 0, s, l).op = o /\ Called(o, 0, s, l).msg = 0
        /\ Called(o, 0, s, l).skip = s /\ Called(o, 0, s, l).lines = l
    BY <1>4, CalledIs
  <2>4. pc'[w] = "meta" /\ call'[w].op = o /\ call'[w].skip = s /\ call'[w].lines = l
    BY <1>3, <1>4, <2>2, <2>3
  <2>5. file' = file /\ skip' = skip /\ next' = next
    BY <1>7 DEF Starts
  <2>6. CASE o = "summary" /\ s = skip
    BY <2>4, <2>5, <2>6 DEF Placed
  <2>7. CASE o = "truncate" /\ (s = skip \/ s <= Len(file.lines))
    BY <2>4, <2>5, <2>7 DEF Placed
  <2>8. CASE /\ o \in {"set", "compact"} /\ s = 0 /\ RisingTo(l, next) /\ ToSet(l) \subseteq Seen(file, skip)
             /\ o = "compact" => ToSet(l) = Seen(file, skip)
    <3>1. Seen(file, skip) \subseteq ToSet(file.lines) \ {Junk}
      BY DEF Seen, Within, ToSet
    <3>2. RisingTo(l, next') /\ Seen(file, skip)' = Seen(file, skip)
      BY <2>5, <2>8 DEF Seen, Within
    <3>3. /\ pc'[w] = "meta" /\ call'[w].op \in {"set", "compact"} /\ call'[w].skip = 0
          /\ ToSet(call'[w].lines) \subseteq ToSet(file'.lines) \ {Junk} /\ RisingTo(call'[w].lines, next')
          /\ call'[w].op = "compact" => ToSet(call'[w].lines) = Seen(file, skip)'
      BY <2>4, <2>5, <2>8, <3>1, <3>2
    <3> QED
      BY <3>3 DEF Placed
  <2> QED
    BY <2>2, <2>6, <2>7, <2>8 DEF Carries
<1>8. CASE Adds(w)
  <2>1. next \in AnyLine /\ "add" \in Operations
    BY <1>4, <1>8 DEF Adds, AnyLine, Operations
  <2> DEFINE c == Called("add", next, 0, <<>>)
  <2>2. c \in CallType /\ c.op = "add" /\ c.msg = next
    <3>1. c \in CallType
      BY <1>4, <2>1, CalledIs
    <3>2. c.op = "add" /\ c.msg = next
      BY DEF Called
    <3> QED
      BY <3>1, <3>2
  <2> HIDE DEF c
  <2>3. pc'[w] = "append" /\ call'[w].op = "add" /\ call'[w].msg = next
    <3>1. Turn(w, "append", c)
      BY <1>8 DEF Adds, c
    <3> QED
      BY <1>3, <1>4, <2>2, <3>1
  <2>4. file' = file /\ acked' = acked /\ next' = next + 1
    BY <1>8 DEF Adds
  <2>5. next \in 1 .. (next + 1) - 1
    BY <1>4
  <2>6. RisingTo(file'.lines, next) /\ \A m \in acked' : m < next
    BY <1>1, <2>4 DEF LinesRise, DiskBegins
  <2>7. call'[w].msg \in 1 .. next' - 1
    BY <2>3, <2>4, <2>5
  <2>8. RisingTo(file'.lines, call'[w].msg) /\ \A m \in acked' : m < call'[w].msg
    BY <2>3, <2>6
  <2> QED
    BY <2>3, <2>7, <2>8 DEF Placed
<1>9. CASE Writes(w)
  <2>1. pc'[w] = "sync" /\ call'[w] = call[w] /\ pc[w] = "append"
    BY <1>3, <1>4, <1>9 DEF Writes
  <2>2. ~file'.torn
    BY <1>1, <1>9, WritesIs
  <2>3. acked' = acked /\ next' = next
    BY <1>9 DEF Writes
  <2>4. call[w].op = "add" /\ call[w].msg \in 1 .. next - 1 /\ \A m \in acked : m < call[w].msg
    BY <1>1, <2>1 DEF Placed
  <2> QED
    BY <2>1, <2>2, <2>3, <2>4 DEF Placed
<1>10. CASE Syncs(w)
  <2> DEFINE c == Called(call[w].op, call[w].msg, skip, call[w].lines)
  <2>1. c \in CallType /\ c.op = call[w].op /\ c.msg = call[w].msg /\ c.skip = skip
    BY <1>1, <1>4, Types, CallParts, CalledIs
  <2>2. pc[w] = "sync" /\ Turn(w, "meta", c) /\ disk' = file /\ file' = file /\ skip' = skip /\ next' = next
    BY <1>10 DEF Syncs
  <2> HIDE DEF c
  <2>3. pc'[w] = "meta" /\ call'[w] = c
    BY <1>3, <1>4, <2>1, <2>2
  <2>4. call[w].op = "add" /\ call[w].msg \in 1 .. next - 1 /\ ~file.torn
    BY <1>1, <2>2 DEF Placed
  <2>5. /\ pc'[w] = "meta" /\ call'[w].op = "add" /\ call'[w].msg \in 1 .. next' - 1 /\ call'[w].skip = skip'
        /\ disk' = file' /\ ~file'.torn
    BY <2>1, <2>2, <2>3, <2>4
  <2> QED
    BY <2>5 DEF Placed
<1>11. CASE Reveals(w)
  <2>1. /\ pc[w] = "meta" /\ call[w].op \in {"set", "compact"} /\ skip' = call[w].skip /\ gone' = gone \cup Removed(w)
        /\ file' = file /\ next' = next /\ acked' = acked /\ tears' = tears /\ faults' = faults
        /\ pc'[w] = "rewrite" /\ call'[w] = call[w]
    BY <1>3, <1>4, <1>11 DEF Reveals
  <2>2. /\ call[w].skip = 0 /\ ToSet(call[w].lines) \subseteq ToSet(file.lines) \ {Junk}
           /\ RisingTo(call[w].lines, next)
        /\ call[w].op = "compact" => ToSet(call[w].lines) = Seen(file, skip)
    BY <1>1, <2>1 DEF Placed
  <2> DEFINE q == live' \ ToSet(call[w].lines)
  <2>3. Seen(file, skip) \subseteq ToSet(file.lines)
    BY DEF Seen, Within, ToSet
  <2>4. q \subseteq live \ Seen(file, skip)
    BY <2>1, <2>2, <2>3 DEF live, Removed
  <2>5. q \subseteq MissingOf(file)
    BY <2>4 DEF MissingOf, Missing
  <2>6. Cardinality(q) \in Nat /\ Cardinality(MissingOf(file)) \in Nat /\ Cardinality(q) <= Cardinality(MissingOf(file))
    <3>1. MissingOf(file) \in SUBSET (0 .. MaxMessages)
      BY <1>1, MissingAre
    <3> HIDE DEF q
    <3> QED
      BY <2>5, <3>1, Counted
  <2>7. Cardinality(MissingOf(file)) + (IF file.torn THEN 1 ELSE 0) <= tears + faults
    BY <1>1 DEF LossAccounted, Losses, MissingOf
  <2> DEFINE n == Cardinality(q)
             l == Cardinality(MissingOf(file))
             t == IF file.torn THEN 1 ELSE 0
  <2>8. n \in Nat /\ l \in Nat /\ t \in Nat /\ n <= l /\ l + t <= tears + faults
    BY <2>6, <2>7
  <2> HIDE DEF n, l, t, q
  <2>9. n <= tears + faults
    BY ONLY <1>4, <2>8
  <2>10. Cardinality(live' \ ToSet(call'[w].lines)) <= tears' + faults'
    BY <2>1, <2>9 DEF n, q
  <2>11. /\ pc'[w] = "rewrite" /\ call'[w].op \in {"set", "compact"} /\ call'[w].skip = 0
         /\ ToSet(call'[w].lines) \subseteq ToSet(file'.lines) \ {Junk} /\ RisingTo(call'[w].lines, next')
         /\ skip' = 0
    BY <2>1, <2>2
  <2> QED
    BY <2>10, <2>11 DEF Placed
<1>12. CASE Tears(w) \/ Fails(w) \/ Acks(w) \/ Hides(w) \/ Replaces(w)
  <2>1. Turn(w, "idle", NoCall)
    BY <1>12 DEF Tears, Fails, Acks, Hides, Replaces
  <2> QED
    BY <1>3, <1>4, <1>6, <2>1
<1> QED
  BY <1>7, <1>8, <1>9, <1>10, <1>11, <1>12 DEF Moves

(* A power loss keeps the invariant whatever it leaves of the file.                   *)
LEMMA CrashIs ==
  ASSUME JsInv, Crash
  PROVE  \E f \in Survivors :
            /\ f \in File /\ (f.torn => f.lines # <<>>)
            /\ Len(disk.lines) <= Len(f.lines) /\ Len(f.lines) <= Len(file.lines)
            /\ f = disk \/ f = file \/ Between(f)
            /\ file' = f /\ disk' = f /\ tears' = IF f.torn /\ f # disk /\ f # file THEN tears + 1 ELSE tears
<1>1. PICK f \in Survivors :
         file' = f /\ disk' = f /\ tears' = IF f.torn /\ f # disk /\ f # file THEN tears + 1 ELSE tears
  BY DEF Crash
<1>2. /\ f \in File /\ (f.torn => f.lines # <<>>)
      /\ Len(disk.lines) <= Len(f.lines) /\ Len(f.lines) <= Len(file.lines)
      /\ f = disk \/ f = file \/ Between(f)
  BY SurvivorsAre DEF JsInv
<1> QED
  BY <1>1, <1>2

LEMMA CrashTypes ==
  ASSUME JsInv, Crash
  PROVE  TypeOK' /\ OneCall' /\ CallsPlaced'
<1>1. TypeOK
  BY DEF JsInv
<1>2. PICK f \in Survivors :
            /\ f \in File /\ (f.torn => f.lines # <<>>)
            /\ file' = f /\ disk' = f /\ tears' = IF f.torn /\ f # disk /\ f # file THEN tears + 1 ELSE tears
  BY CrashIs
<1>3. /\ crashes' = crashes + 1 /\ crashes < MaxCrashes /\ pc' = [w \in Writers |-> "idle"]
      /\ call' = [w \in Writers |-> NoCall] /\ skip' = skip /\ next' = next /\ acked' = acked /\ gone' = gone
      /\ faults' = faults
  BY DEF Crash
<1>4. \A w \in Writers : pc'[w] = "idle"
  BY <1>3
<1>5. OneCall' /\ CallsPlaced'
  BY <1>4 DEF OneCall, CallsPlaced, Placed
<1>6. tears' \in Nat /\ crashes' \in 0 .. MaxCrashes
  <2>1. tears \in Nat /\ crashes \in 0 .. MaxCrashes /\ MaxCrashes \in Nat
    BY <1>1, JsAssumption DEF TypeOK
  <2> QED
    BY <1>2, <1>3, <2>1
<1>7. /\ pc' \in [Writers -> {"idle", "append", "sync", "meta", "rewrite"}]
      /\ call' \in [Writers -> [op : {"none", "add", "summary", "truncate", "set", "compact"},
                                msg : AnyLine, skip : Nat, lines : Seq(AnyLine)]]
  BY <1>3, NoCallIs DEF CallType, Operations
<1>8. /\ file' \in File /\ disk' \in File /\ (file'.torn => file'.lines # <<>>) /\ (disk'.torn => disk'.lines # <<>>)
  BY <1>2
<1>9. /\ skip' \in Nat /\ next' \in 1..MaxMessages + 1 /\ acked' \in SUBSET (1..MaxMessages)
      /\ gone' \in SUBSET (0..MaxMessages) /\ faults' \in 0..MaxFaults
  BY <1>1, <1>3 DEF TypeOK
<1> QED
  BY <1>5, <1>6, <1>7, <1>8, <1>9 DEF TypeOK

LEMMA CrashLines ==
  ASSUME JsInv, Crash
  PROVE  LinesRise' /\ DiskBegins' /\ Unsynced'
<1>1. TypeOK /\ LinesRise /\ DiskBegins /\ Unsynced
  BY DEF JsInv
<1>2. PICK f \in Survivors :
            /\ f \in File /\ (f.torn => f.lines # <<>>)
            /\ Len(disk.lines) <= Len(f.lines) /\ Len(f.lines) <= Len(file.lines)
            /\ f = disk \/ f = file \/ Between(f)
            /\ file' = f /\ disk' = f
  BY CrashIs
<1>3. pc' = [w \in Writers |-> "idle"] /\ skip' = skip /\ next' = next /\ acked' = acked /\ faults' = faults
  BY DEF Crash
<1>4. /\ f.lines \in Seq(AnyLine) /\ Len(f.lines) \in Nat /\ f.torn \in BOOLEAN /\ (f.torn => Len(f.lines) # 0)
      /\ Len(file.lines) \in Nat /\ Len(disk.lines) \in Nat /\ next \in Nat /\ next >= 1 /\ Junk = 0
      /\ skip \in Nat /\ faults \in Nat /\ acked \subseteq 1 .. MaxMessages /\ Junk \notin acked
  <2>1. f.lines \in Seq(AnyLine) /\ f.torn \in BOOLEAN
    BY <1>2 DEF File
  <2>2. f.lines # <<>> => Len(f.lines) # 0
    BY <2>1
  <2>3. Len(f.lines) \in Nat /\ (f.torn => Len(f.lines) # 0)
    BY <1>2, <2>1, <2>2
  <2>4. /\ Len(file.lines) \in Nat /\ Len(disk.lines) \in Nat /\ next \in Nat /\ next >= 1 /\ Junk = 0
        /\ skip \in Nat /\ faults \in Nat /\ acked \subseteq 1 .. MaxMessages
    BY <1>1, Types
  <2>5. Junk \notin acked
    BY <2>4
  <2> QED
    BY <2>1, <2>3, <2>4, <2>5
<1>5. Within(f.lines) \subseteq Within(file.lines) /\ Within(disk.lines) \subseteq Within(f.lines)
  BY <1>2, <1>4 DEF Within
<1>6. RisingTo(f.lines, next)
  <2>1. CASE f = disk \/ f = file
    BY <1>1, <2>1 DEF LinesRise
  <2>2. CASE Between(f)
    <3>1. \A i \in Within(f.lines) : f.lines[i] = file.lines[i] \/ f.lines[i] = Junk
      BY <2>2 DEF Between
    <3>2. RisingTo(file.lines, next) /\ Junk < next
      BY <1>1, <1>4 DEF LinesRise
    <3>3. \A i \in Within(f.lines) : f.lines[i] < next
      BY <1>5, <3>1, <3>2 DEF RisingTo
    <3>4. \A i, j \in Within(f.lines) : i < j => f.lines[i] = Junk \/ f.lines[j] = Junk \/ f.lines[i] < f.lines[j]
      <4> SUFFICES ASSUME NEW i \in Within(f.lines), NEW j \in Within(f.lines), i < j, f.lines[i] # Junk,
                          f.lines[j] # Junk
                   PROVE  f.lines[i] < f.lines[j]
        OBVIOUS
      <4>1. f.lines[i] = file.lines[i] /\ f.lines[j] = file.lines[j]
        BY <3>1
      <4>2. file.lines[i] = Junk \/ file.lines[j] = Junk \/ file.lines[i] < file.lines[j]
        BY <1>5, <3>2 DEF RisingTo
      <4> QED
        BY <4>1, <4>2
    <3> QED
      BY <3>3, <3>4 DEF RisingTo
  <2> QED
    BY <1>2, <2>1, <2>2
<1>7. f.torn => f.lines[Len(f.lines)] \notin acked
  <2> SUFFICES ASSUME f.torn PROVE f.lines[Len(f.lines)] \notin acked
    OBVIOUS
  <2>1. Len(f.lines) \in Within(f.lines) /\ Len(f.lines) \in Within(file.lines)
    BY <1>4, <1>5 DEF Within
  <2>2. CASE f = disk
    BY <1>1, <2>2 DEF DiskBegins
  <2>3. CASE f = file
    BY <1>1, <2>1, <2>3 DEF DiskBegins
  <2>4. CASE Between(f)
    <3>1. Loose(Len(f.lines)) /\ (f.lines[Len(f.lines)] = file.lines[Len(f.lines)] \/ f.lines[Len(f.lines)] = Junk)
      BY <2>1, <2>4 DEF Between
    <3>2. file.lines[Len(f.lines)] \notin acked
      BY <1>1, <2>1, <3>1 DEF DiskBegins
    <3> QED
      BY <1>4, <3>1, <3>2
  <2> QED
    BY <1>2, <2>2, <2>3, <2>4
<1>8. \A i \in Within(f.lines) : Loose(i)' => f.torn /\ i = Len(f.lines)
  BY <1>2, <1>4 DEF Loose, Within
<1>9. DiskBegins'
  <2>1. Len(disk'.lines) <= Len(file'.lines)
    BY <1>2, <1>4
  <2>2. \A i \in Within(disk'.lines) : file'.lines[i] = disk'.lines[i]
    BY <1>2
  <2>3. \A i \in Within(file'.lines) : Loose(i)' => file'.lines[i] \notin acked'
    BY <1>2, <1>3, <1>7, <1>8
  <2>4. file'.torn => Loose(Len(file.lines))'
    BY <1>2 DEF Loose
  <2>5. disk'.torn => disk'.lines[Len(disk'.lines)] \notin acked'
    BY <1>2, <1>3, <1>7
  <2>6. \A m \in acked' : m < next'
    BY <1>1, <1>3 DEF DiskBegins
  <2> QED
    BY <2>1, <2>2, <2>3, <2>4, <2>5, <2>6 DEF DiskBegins
<1>10. Unsynced'
  <2>1. Syncing' = 0
    <3>1. ~ \E w \in Writers : pc'[w] = "sync"
      BY <1>3
    <3> QED
      BY <3>1 DEF Syncing
  <2> DEFINE n == Len(f.lines)
             d == Len(disk.lines)
  <2>2. n \in Nat /\ d \in Nat /\ d <= n /\ skip <= d + faults
    BY <1>1, <1>2, <1>4 DEF Unsynced
  <2> HIDE DEF n, d
  <2>3. skip <= n + faults /\ n <= n + faults + 0
    BY <1>4, <2>2
  <2>4. Len(file'.lines) = n /\ Len(disk'.lines) = n
    BY <1>2 DEF n
  <2> QED
    BY <1>3, <2>1, <2>3, <2>4 DEF Unsynced
<1>11. LinesRise'
  BY <1>2, <1>3, <1>6 DEF LinesRise
<1> QED
  BY <1>9, <1>10, <1>11

LEMMA CrashAccount ==
  ASSUME JsInv, Crash
  PROVE  LossAccounted'
<1>1. TypeOK /\ LossAccounted /\ DiskBegins
  BY DEF JsInv
<1>2. PICK f \in Survivors :
            /\ f \in File /\ (f.torn => f.lines # <<>>)
            /\ Len(disk.lines) <= Len(f.lines) /\ Len(f.lines) <= Len(file.lines)
            /\ f = disk \/ f = file \/ Between(f)
            /\ file' = f /\ disk' = f /\ tears' = IF f.torn /\ f # disk /\ f # file THEN tears + 1 ELSE tears
  BY CrashIs
<1>3. /\ pc' = [w \in Writers |-> "idle"] /\ skip' = skip /\ next' = next /\ acked' = acked /\ faults' = faults
      /\ gone' = gone
  BY DEF Crash
<1>4. /\ Len(f.lines) \in Nat /\ f.torn \in BOOLEAN /\ Junk \notin live
      /\ Len(file.lines) \in Nat /\ Len(disk.lines) \in Nat /\ skip \in Nat /\ faults \in Nat /\ tears \in Nat
  <2>1. f.lines \in Seq(AnyLine) /\ f.torn \in BOOLEAN
    BY <1>2 DEF File
  <2> QED
    BY <1>1, <2>1, Types, Wanted
<1>5. Begun({"meta"})' = {} /\ Begun({"sync", "meta"})' = {} /\ Syncing' = 0
  <2>1. ~ \E w \in Writers : pc'[w] \in {"sync", "meta"}
    BY <1>3
  <2> QED
    BY <2>1 DEF Begun, Syncing
<1> DEFINE q == live \ Seen(f, skip)
           l == Cardinality(q)
           t == IF f.torn THEN 1 ELSE 0
           n == Len(f.lines)
<1>6. Seen(file, skip)' = Seen(f, skip) /\ Seen(disk, skip)' = Seen(f, skip) /\ live' = live
  BY <1>2, <1>3 DEF Seen, Within, live
<1>7. Missing(file, {"sync", "meta"})' = q /\ Missing(disk, {"meta"})' = q
  BY <1>5, <1>6 DEF Missing
<1>8. Losses(file, {"sync", "meta"})' = l + t /\ Losses(disk, {"meta"})' = l + t
  BY <1>2, <1>7 DEF Losses
<1> DEFINE lf == Cardinality(MissingOf(file))
           ld == Cardinality(MissingOn(disk))
           tf == IF file.torn THEN 1 ELSE 0
           td == IF disk.torn THEN 1 ELSE 0
           len == Len(file.lines)
           dlen == Len(disk.lines)
           tn == tears'
<1>9. MissingOf(file) \in SUBSET (0 .. MaxMessages) /\ MissingOn(disk) \in SUBSET (0 .. MaxMessages)
  BY <1>1, MissingAre
<1>10. lf \in Nat /\ ld \in Nat /\ tf \in Nat /\ td \in Nat /\ t \in Nat /\ n \in Nat /\ len \in Nat /\ dlen \in Nat
  <2>1. lf \in Nat /\ ld \in Nat
    BY <1>9, Counted
  <2> QED
    BY <1>4, <2>1
<1>11. /\ lf + tf <= tears + faults /\ lf + tf + skip <= tears + faults + len
       /\ ld + td <= tears + faults /\ ld + td + skip <= tears + faults + dlen
  BY <1>1 DEF LossAccounted, Losses, MissingOf, MissingOn
<1>12. CASE f = disk
  <2>1. q \subseteq MissingOn(disk)
    BY <1>12 DEF MissingOn, Missing
  <2>2. l \in Nat /\ l <= ld
    <3> HIDE DEF q
    <3> QED
      BY <1>9, <2>1, Counted
  <2>3. t = td /\ n = dlen /\ tn = tears
    BY <1>2, <1>12
  <2> HIDE DEF q, l, t, n, lf, ld, tf, td, len, dlen, tn
  <2>4. l + t <= tn + faults /\ l + t + skip <= tn + faults + n /\ l + t + n <= tn + faults + n + 0
    BY ONLY <1>4, <1>10, <1>11, <2>2, <2>3
  <2>5. tears' = tn /\ Len(file'.lines) = n /\ Len(disk'.lines) = n
    BY <1>2 DEF tn, n
  <2> QED
    BY <1>3, <1>5, <1>8, <2>4, <2>5 DEF LossAccounted
<1>13. CASE f = file
  <2>1. q \subseteq MissingOf(file)
    BY <1>13 DEF MissingOf, Missing
  <2>2. l \in Nat /\ l <= lf
    <3> HIDE DEF q
    <3> QED
      BY <1>9, <2>1, Counted
  <2>3. t = tf /\ n = len /\ tn = tears
    BY <1>2, <1>13
  <2> HIDE DEF q, l, t, n, lf, ld, tf, td, len, dlen, tn
  <2>4. l + t <= tn + faults /\ l + t + skip <= tn + faults + n /\ l + t + n <= tn + faults + n + 0
    BY ONLY <1>4, <1>10, <1>11, <2>2, <2>3
  <2>5. tears' = tn /\ Len(file'.lines) = n /\ Len(disk'.lines) = n
    BY <1>2 DEF tn, n
  <2> QED
    BY <1>3, <1>5, <1>8, <2>4, <2>5 DEF LossAccounted
<1>14. CASE Between(f) /\ f # disk /\ f # file
  <2>1. \A x \in live : x \in Seen(disk, skip) => x \in Seen(f, skip)
    <3> SUFFICES ASSUME NEW x \in live, NEW i \in Within(disk.lines), i > skip, disk.lines[i] = x
                 PROVE  x \in Seen(f, skip)
      BY DEF Seen
    <3>1. i \in Nat /\ i <= Len(disk.lines) /\ i \in Within(f.lines)
      BY <1>2, <1>4 DEF Within
    <3>2. ~Loose(i)
      <4>1. x \in acked
        BY DEF live
      <4>2. disk.torn => disk.lines[Len(disk.lines)] \notin acked
        BY <1>1 DEF DiskBegins
      <4> QED
        BY <1>4, <3>1, <4>1, <4>2 DEF Loose
    <3>3. file.lines[i] = x
      BY <1>1, <3>2 DEF DiskBegins
    <3>4. f.lines[i] = x
      BY <1>14, <3>1, <3>2, <3>3 DEF Between
    <3> QED
      BY <1>4, <3>1, <3>4 DEF Seen
  <2>2. q \subseteq MissingOn(disk)
    BY <2>1 DEF MissingOn, Missing
  <2>3. l \in Nat /\ l <= ld
    <3> HIDE DEF q
    <3> QED
      BY <1>9, <2>2, Counted
  <2>4. tn = tears + t /\ dlen <= n
    <3>1. CASE f.torn
      BY <1>2, <1>14, <3>1
    <3>2. CASE ~f.torn
      BY <1>2, <1>4, <3>2
    <3> QED
      BY <3>1, <3>2
  <2> HIDE DEF q, l, t, n, lf, ld, tf, td, len, dlen, tn
  <2>5. l + t <= tn + faults /\ l + t + skip <= tn + faults + n /\ l + t + n <= tn + faults + n + 0
    BY ONLY <1>4, <1>10, <1>11, <2>3, <2>4
  <2>6. tears' = tn /\ Len(file'.lines) = n /\ Len(disk'.lines) = n
    BY <1>2 DEF tn, n
  <2> QED
    BY <1>3, <1>5, <1>8, <2>5, <2>6 DEF LossAccounted
<1> QED
  BY <1>2, <1>12, <1>13, <1>14

LEMMA JsInit == Init => JsInv
<1> SUFFICES ASSUME Init PROVE JsInv
  OBVIOUS
<1>1. /\ file = Empty /\ disk = Empty /\ skip = 0 /\ pc = [w \in Writers |-> "idle"]
      /\ call = [w \in Writers |-> NoCall] /\ next = 1 /\ acked = {} /\ gone = {} /\ tears = 0
         /\ crashes = 0 /\ faults = 0
  BY DEF Init
<1>2. Empty.lines = <<>> /\ Empty.torn = FALSE /\ Len(Empty.lines) = 0
  BY DEF Empty
<1>3. {0, MaxMessages, MaxCrashes, MaxFaults} \subseteq Nat /\ <<>> \in Seq(AnyLine) /\ NoCall \in CallType
  BY JsAssumption, NoCallIs
<1>4. TypeOK
  <2>1. file \in File /\ disk \in File
    BY <1>1, <1>3 DEF Empty, File
  <2>2. call \in [Writers -> [op : {"none", "add", "summary", "truncate", "set", "compact"},
                              msg : AnyLine, skip : Nat, lines : Seq(AnyLine)]]
    BY <1>1, <1>3 DEF CallType, Operations
  <2>3. /\ skip \in Nat /\ next \in 1..MaxMessages + 1 /\ tears \in Nat /\ crashes \in 0..MaxCrashes
        /\ faults \in 0..MaxFaults
    BY <1>1, <1>3
  <2>4. pc \in [Writers -> {"idle", "append", "sync", "meta", "rewrite"}]
    BY <1>1
  <2>5. acked \in SUBSET (1..MaxMessages) /\ gone \in SUBSET (0..MaxMessages)
    BY <1>1
  <2>6. ~file.torn /\ ~disk.torn
    BY <1>1, <1>2
  <2> QED
    BY <2>1, <2>2, <2>3, <2>4, <2>5, <2>6 DEF TypeOK
<1>5. \A w \in Writers : pc[w] = "idle"
  BY <1>1
<1>6. OneCall /\ CallsPlaced
  BY <1>5 DEF OneCall, CallsPlaced, Placed
<1>7. LinesRise
  BY <1>1, <1>2 DEF LinesRise, RisingTo, Within
<1>8. DiskBegins
  BY <1>1, <1>2 DEF DiskBegins, Within
<1>9. Syncing = 0 /\ Begun({"meta"}) = {} /\ Begun({"sync", "meta"}) = {}
  BY <1>5 DEF Syncing, Begun
<1>10. Unsynced
  BY <1>1, <1>2, <1>9 DEF Unsynced
<1>11. LossAccounted
  <2>1. live = {}
    BY <1>1 DEF live
  <2>2. Missing(file, {"sync", "meta"}) = {} /\ Missing(disk, {"meta"}) = {}
    BY <1>9, <2>1 DEF Missing
  <2>3. Losses(file, {"sync", "meta"}) = 0 /\ Losses(disk, {"meta"}) = 0
    <3>1. ~file.torn /\ ~disk.torn
      BY <1>1, <1>2
    <3>2. Cardinality({}) = 0
      BY FS_EmptySet
    <3> QED
      BY <2>2, <3>1, <3>2 DEF Losses
  <2> QED
    BY <1>1, <1>2, <1>9, <2>3 DEF LossAccounted
<1> QED
  BY <1>4, <1>6, <1>7, <1>8, <1>10, <1>11 DEF JsInv

LEMMA JsStep ==
  ASSUME OneLock, JsInv, [Next]_vars
  PROVE  JsInv'
<1>1. CASE Next
  <2>1. CASE Crash
    BY <2>1, CrashTypes, CrashLines, CrashAccount DEF JsInv
  <2>2. CASE \E w \in Writers : Alone(w) /\ Moves(w)
    <3>1. PICK w \in Writers : Alone(w) /\ Moves(w)
      BY <2>2
    <3>2. TypeOK'
      BY <3>1, TypeKept
    <3>3. OneCall'
      BY <3>1, OneCallKept DEF JsInv
    <3>4. LinesRise' /\ DiskBegins' /\ CallsPlaced'
      BY <3>1, LinesRiseKept, DiskBeginsKept, CallsPlacedKept
    <3>5. Unsynced' /\ LossAccounted'
      BY <3>1, <3>2, UnsyncedKept, LossAccountedKept
    <3> QED
      BY <3>2, <3>3, <3>4, <3>5 DEF JsInv
  <2> QED
    BY <1>1, <2>1, <2>2, StepsAre
<1>2. CASE UNCHANGED vars
  <2>1. /\ file' = file /\ disk' = disk /\ skip' = skip /\ pc' = pc /\ call' = call /\ next' = next /\ acked' = acked
        /\ gone' = gone /\ tears' = tears /\ crashes' = crashes /\ faults' = faults
    BY <1>2 DEF vars
  <2>2. TypeOK' /\ OneCall' /\ LinesRise' /\ DiskBegins'
    BY <2>1 DEF JsInv, TypeOK, OneCall, LinesRise, RisingTo, DiskBegins, Loose, Within
  <2>3. live' = live /\ Syncing' = Syncing /\ Begun({"meta"})' = Begun({"meta"})
        /\ Begun({"sync", "meta"})' = Begun({"sync", "meta"})
    BY <2>1 DEF live, Syncing, Begun
  <2>4. Seen(file, skip)' = Seen(file, skip) /\ Seen(disk, skip)' = Seen(disk, skip)
    BY <2>1 DEF Seen, Within
  <2>5. Missing(file, {"sync", "meta"})' = Missing(file, {"sync", "meta"}) /\ Missing(disk,
        {"meta"})' = Missing(disk, {"meta"})
    BY <2>3, <2>4 DEF Missing
  <2>6. Losses(file, {"sync", "meta"})' = Losses(file, {"sync", "meta"}) /\ Losses(disk,
        {"meta"})' = Losses(disk, {"meta"})
    BY <2>1, <2>5 DEF Losses
  <2>7. LossAccounted' /\ Unsynced'
    BY <2>1, <2>3, <2>6 DEF JsInv, LossAccounted, Unsynced
  <2>8. CallsPlaced'
    <3> SUFFICES ASSUME NEW w \in Writers PROVE Placed(pc[w], call[w])'
      BY DEF CallsPlaced
    <3>1. Placed(pc[w], call[w])
      BY DEF JsInv, CallsPlaced
    <3> QED
      BY <2>1, <2>3, <2>4, <3>1 DEF Placed
  <2> QED
    BY <2>2, <2>7, <2>8 DEF JsInv
<1> QED
  BY <1>1, <1>2

LEMMA StoreSafeFollows == JsInv => StoreSafe
<1> SUFFICES ASSUME JsInv PROVE StoreSafe
  OBVIOUS
<1>1. TypeOK /\ LinesRise /\ DiskBegins /\ Unsynced /\ LossAccounted
  BY DEF JsInv
<1>2. /\ file.lines \in Seq(AnyLine) /\ skip \in Nat /\ next \in Nat /\ Len(file.lines) \in Nat
         /\ Len(disk.lines) \in Nat
      /\ tears \in Nat /\ faults \in Nat
  BY <1>1, Types
<1>3. /\ ToSet(History(file, skip)) = Seen(file, skip)
      /\ \A i, j \in Within(History(file, skip)) : i < j => History(file, skip)[i] < History(file, skip)[j]
  BY <1>1, <1>2, HistoryIs DEF LinesRise
<1>4. SkipInFile
  <2> DEFINE n == Len(file.lines)
             d == Len(disk.lines)
  <2>1. n \in Nat /\ d \in Nat /\ d <= n /\ skip <= d + faults
    BY <1>1, <1>2 DEF Unsynced, DiskBegins
  <2> HIDE DEF n, d
  <2>2. skip <= n + faults
    BY ONLY <1>2, <2>1
  <2> QED
    BY <2>2 DEF SkipInFile, n
<1>5. LossBounded
  <2> DEFINE q == live \ Visible
             l == Cardinality(q)
             lf == Cardinality(MissingOf(file))
             t == IF file.torn THEN 1 ELSE 0
  <2>1. q \subseteq MissingOf(file)
    BY <1>3 DEF Visible, MissingOf, Missing
  <2>2. MissingOf(file) \in SUBSET (0 .. MaxMessages)
    BY <1>1, MissingAre
  <2>3. l \in Nat /\ lf \in Nat /\ l <= lf
    <3> HIDE DEF q
    <3> QED
      BY <2>1, <2>2, Counted
  <2>4. lf + t <= tears + faults /\ t \in Nat
    BY <1>1 DEF LossAccounted, Losses, MissingOf
  <2> HIDE DEF q, l, lf, t
  <2>5. l <= tears + faults
    BY ONLY <1>2, <2>3, <2>4
  <2> QED
    BY <2>5 DEF LossBounded, l, q
<1>6. InsertionOrder
  BY <1>3 DEF InsertionOrder, Within
<1> QED
  BY <1>1, <1>4, <1>5, <1>6 DEF StoreSafe

(* With every user of a session on one lock, whatever calls run, wherever a power     *)
(* loss or a failed write cuts them short: an acknowledged message that was not       *)
(* removed stays readable, but for one per torn line or failed write; the offset does *)
(* not run past the file; and the lines keep their order (memory/jsonl.go).           *)
THEOREM LinesAreKept ==
  ASSUME OneLock
  PROVE  Spec => []StoreSafe
<1>1. Init => JsInv
  BY JsInit
<1>2. JsInv /\ [Next]_vars => JsInv'
  BY JsStep
<1>3. JsInv => StoreSafe
  BY StoreSafeFollows
<1> QED
  BY <1>1, <1>2, <1>3, PTL DEF Spec

=============================================================================
