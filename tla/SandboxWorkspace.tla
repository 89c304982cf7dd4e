--------------------------- MODULE SandboxWorkspace ----------------------------
(***************************************************************************)
(* SandboxWorkspaceProvider, the browser's half of the sandbox: one tab    *)
(* that opens a session, switches the persona, resets the sandbox, checks  *)
(* the progress of the guide and refreshes its records, while the user     *)
(* moves between the pages of the two roles.                               *)
(*                                                                         *)
(* The session operations (open, switch, reset) run one after the other    *)
(* in a queue, since each may write the session cookie; the checks and     *)
(* refreshes run beside them.  A generation counter tells an answer that   *)
(* is still wanted from one that a later operation has superseded.         *)
(*                                                                         *)
(* Of the server the module has what the tab can tell apart: the version   *)
(* of the sandbox, the current stage of the guide, and a clock of the      *)
(* business records.  SandboxGuide has the rest.                           *)
(***************************************************************************)
EXTENDS Naturals, Sequences

CONSTANTS
  StageRole,    \* whose check the server accepts at each stage of the guide
  SwitchStages, \* the stages at which the card asks for a persona switch
  Slots,        \* the checks and refreshes that can be under way
  Faults,       \* the mishaps under study, among AllFaults
  MaxMoves,     \* bounds what the user does
  MaxChanges,   \* bounds the changes of business records
  MaxVersion    \* bounds the resets

VARIABLES
  version, stage, records,  \* the server
  cookie,                   \* the session cookie of the browser
  path,                     \* the page shown in the address bar
  target,                   \* where router.replace is heading, or NoPath
  shown,                    \* the state of the provider
  gen,                      \* generation
  queue,                    \* sessionOperations
  busy,                     \* sessionChangeInFlight
  calls,                    \* the checks and refreshes under way
  askedAt,                  \* the stage shown to who recorded a stage, or 0
  moves                     \* bound: what the user has done

serverVars == <<version, stage, records, askedAt>>
tabVars == <<path, target, shown, gen, queue, busy, calls>>
vars == <<serverVars, cookie, tabVars, moves>>

AllFaults ==
  {"lost",   \* a check of the progress is served and its answer lost
   "body",   \* an answer breaks off after its headers have set the cookie
   "back",   \* the user moves while router.replace is under way
   "others"} \* another browser resets the sandbox

ASSUME GuideAssumption ==
  /\ StageRole \in Seq({"owner", "partner"})
  /\ SwitchStages \subseteq DOMAIN StageRole
ASSUME FaultsAssumption == Faults \subseteq AllFaults
ASSUME BoundsAssumption == MaxMoves \in Nat /\ MaxChanges \in Nat /\ MaxVersion \in Nat \ {0}

Roles == {"owner", "partner"}
StageCount == Len(StageRole)

\* workbench-routes.ts: the root, and for each role its workboard and another page.
Root == [role |-> "none", page |-> "root"]
NoPath == [role |-> "none", page |-> "none"]
WorkboardPath(role) == [role |-> role, page |-> "workboard"]
WorkPath(role) == [role |-> role, page |-> "work"]
Paths == {Root} \cup {WorkboardPath(r) : r \in Roles} \cup {WorkPath(r) : r \in Roles}
RoleFromPathname(p) == p.role

NoSession == [role |-> "none", version |-> 0]
NoWorkspace == [role |-> "none", version |-> 0, records |-> 0]
NoGuide == [version |-> 0, stage |-> 0]

Boundary(status) ==
  [status |-> status, session |-> NoSession, workspace |-> NoWorkspace, guide |-> NoGuide,
   refresh |-> FALSE, pending |-> NoPath]
Loading == Boundary("loading")
Failed == Boundary("error")

Ready(session, workspace, guide, pending) ==
  [status |-> "ready", session |-> session, workspace |-> workspace, guide |-> guide,
   refresh |-> FALSE, pending |-> pending]

\* The effect that drops a pending destination once it is the page.
Settled(next, p) == IF next.pending = p THEN [next EXCEPT !.pending = NoPath] ELSE next

\* The render guards: what stands between the route's content and the user.
Rendered ==
  /\ path # Root
  /\ shown.status = "ready"
  /\ shown.session.role = RoleFromPathname(path)
  /\ shown.pending \in {NoPath, path}

\* What the API says to a request made with the cookie c.
IsSigned(c) == c.version = version
WorkspaceFor(c) == [role |-> c.role, version |-> version, records |-> records]

\* Mutant: the stages done, not the one to do.
StagesDone == [version |-> version, stage |-> stage - 1]

GuideNow == [version |-> version, stage |-> stage]

\* assertSandboxBundle
IsBundle(session, workspace, guide) ==
  /\ workspace.role = session.role
  /\ workspace.version = session.version
  /\ guide.version = session.version

------------------------------------------------------------------------------
(* The queue of session operations.                                        *)

Operation(op, role, dest) ==
  [op |-> op, phase |-> "start", gen |-> gen + 1, role |-> role, dest |-> dest,
   previous |-> IF op = "switch" THEN shown ELSE Loading,
   session |-> NoSession, workspace |-> {}, guide |-> {}]

Unmounted == [s \in Slots |-> [calls[s] EXCEPT !.mounted = FALSE]]

\* Mutant: a new operation supersedes nothing.
SameGeneration(o) ==
  /\ queue' = Append(queue, [o EXCEPT !.gen = gen])
  /\ shown' = Loading
  /\ calls' = Unmounted
  /\ UNCHANGED gen

\* A new operation supersedes what is under way and shows the boundary, under
\* which the guide card is unmounted.
Enqueue(o) ==
  /\ gen' = gen + 1
  /\ queue' = Append(queue, o)
  /\ shown' = Loading
  /\ calls' = Unmounted

OpenSession(p) == Enqueue(Operation("open", RoleFromPathname(p), NoPath))

\* The effects of a new path: the session follows the role of the route.
FollowPath(p) ==
  IF shown.status = "ready" /\ RoleFromPathname(p) \in {"none", shown.session.role}
  THEN shown' = Settled(shown, p) /\ UNCHANGED <<gen, queue, calls>>
  ELSE OpenSession(p)

\* At the root a ready workspace leads to its workboard.
TargetAfter(p, next, otherwise) ==
  IF p = Root /\ next.status = "ready" THEN WorkboardPath(next.session.role) ELSE otherwise

------------------------------------------------------------------------------
(* What the user does.                                                     *)

Moves == moves < MaxMoves /\ moves' = moves + 1

\* A link of the shell while the content is shown; back and forward at any time.
Navigate(p) ==
  /\ p # path
  /\ target = NoPath \/ "back" \in Faults
  /\ Moves
  /\ path' = p
  /\ FollowPath(p)
  /\ target' = TargetAfter(p, shown', NoPath)
  /\ UNCHANGED <<serverVars, cookie, busy>>

\* router.replace arrives.
Arrive ==
  /\ target # NoPath
  /\ path' = target
  /\ target' = NoPath
  /\ FollowPath(target)
  /\ UNCHANGED <<serverVars, cookie, busy, moves>>

NoCall ==
  [kind |-> "none", phase |-> "idle", gen |-> 0, previous |-> Loading, cookie |-> NoSession,
   workspace |-> {}, guide |-> {}, mounted |-> FALSE]

\* The browser loads the page anew: nothing of the tab survives but the cookie.
Reload ==
  /\ Moves
  /\ target' = NoPath
  /\ shown' = Loading
  /\ gen' = 1
  /\ queue' = <<[Operation("open", RoleFromPathname(path), NoPath) EXCEPT !.gen = 1]>>
  /\ busy' = FALSE
  /\ calls' = [s \in Slots |-> NoCall]
  /\ UNCHANGED <<serverVars, cookie, path>>

\* "Try again"
TryAgain ==
  /\ shown.status = "error"
  /\ Moves
  /\ OpenSession(path)
  /\ UNCHANGED <<serverVars, cookie, path, target, busy>>

SessionChange(o) ==
  /\ ~busy
  /\ busy' = TRUE
  /\ Enqueue(o)
  /\ UNCHANGED <<serverVars, cookie, path, target>>

SwitchPersona(role, dest) == SessionChange(Operation("switch", role, dest))

\* The persona menu.
ChangePersona(role) ==
  Rendered /\ Moves /\ role # shown.session.role /\ SwitchPersona(role, WorkboardPath(role))

ResetSandbox == Rendered /\ Moves /\ SessionChange(Operation("reset", "none", NoPath))

Begin(s, call) == calls[s].kind = "none" /\ calls' = [calls EXCEPT ![s] = call]

Call(kind, phase, g) ==
  [NoCall EXCEPT !.kind = kind, !.phase = phase, !.gen = g, !.cookie = cookie,
                 !.previous = IF kind = "check" THEN shown ELSE Loading,
                 !.mounted = TRUE]

CheckProgress(s) ==
  /\ gen' = gen + 1
  /\ Begin(s, Call("check", IF shown.refresh THEN "both" ELSE "advance", gen + 1))
  /\ UNCHANGED <<serverVars, cookie, path, target, shown, queue, busy>>

\* One card action at a time, for as long as the card is mounted.
CardIsFree == \A s \in Slots : ~(calls[s].kind = "check" /\ calls[s].mounted)

OpenDestination(role, dest) ==
  IF role = shown.session.role
  THEN /\ path' = dest
       /\ FollowPath(dest)
       /\ UNCHANGED <<serverVars, cookie, target, busy>>
  ELSE SwitchPersona(role, dest)

\* The one button of the guide card.
PressCard(s) ==
  /\ Rendered /\ CardIsFree /\ Moves
  /\ LET at == shown.guide.stage
         role == StageRole[at]
     IN  \/ shown.refresh /\ CheckProgress(s)
         \/ /\ ~shown.refresh /\ at <= StageCount
            /\ CASE at \in SwitchStages  -> SwitchPersona(role, WorkboardPath(role))
                 [] path # WorkPath(role) -> OpenDestination(role, WorkPath(role))
                 [] OTHER                -> CheckProgress(s)

\* The owner changes business records on a page and the page refreshes them.
ChangeRecords(s) ==
  /\ Rendered /\ path = WorkPath("owner")
  /\ cookie.role = "owner" /\ IsSigned(cookie)
  /\ records < MaxChanges
  /\ records' = records + 1
  /\ Begin(s, Call("refresh", "workspace", gen))
  /\ UNCHANGED <<version, stage, askedAt, cookie, path, target, shown, gen, queue, busy, moves>>

------------------------------------------------------------------------------
(* The API.                                                                *)

Mine == Head(queue)
IsLive(g) == g = gen

\* advance: recorded for who may check this stage and has done what it asks for.
RecordStage(c, asked) ==
  /\ IsSigned(c)
  /\ stage <= StageCount /\ StageRole[stage] = c.role
  /\ stage' = stage + 1
  /\ askedAt' = [askedAt EXCEPT ![stage] = asked]
  /\ UNCHANGED <<version, records>>

\* reset, for the owner
StartVersion ==
  /\ version < MaxVersion
  /\ version' = version + 1
  /\ stage' = 1
  /\ records' = 0
  /\ askedAt' = [i \in DOMAIN StageRole |-> 0]

OthersReset ==
  /\ "others" \in Faults
  /\ StartVersion
  /\ UNCHANGED <<cookie, tabVars, moves>>

------------------------------------------------------------------------------
(* The steps of a session operation.                                       *)

\* Mutant: sessionChangeInFlight is not cleared for a superseded operation.
ClearWhenLive(o) == busy' = (busy /\ ~(o.op # "open" /\ IsLive(o.gen)))

\* finally
ClearBusy(o) == busy' = (busy /\ o.op = "open")

Finish == queue' = Tail(queue) /\ ClearBusy(Mine)
GoOn(o) == queue' = [queue EXCEPT ![1] = o] /\ UNCHANGED busy
GoOnTo(phase) ==
  GoOn([Mine EXCEPT !.phase = phase, !.workspace = {}, !.guide = {}])

Show(next, replaceTo) ==
  /\ shown' = Settled(next, path)
  /\ target' = TargetAfter(path, next, replaceTo)

ShowIfLive(next, replaceTo) ==
  IF IsLive(Mine.gen) THEN Show(next, replaceTo) ELSE UNCHANGED <<shown, target>>

ShowNothing == UNCHANGED <<shown, target>>

Send(phase) == IF IsLive(Mine.gen) THEN GoOnTo(phase) ELSE Finish

\* The catch clauses.
Recover(o) ==
  CASE o.op = "open" \/ o.phase \in {"reread", "reload"} -> ShowIfLive(Failed, target) /\ Finish
    [] o.op = "switch" /\ o.phase = "create" -> ShowIfLive(o.previous, target) /\ Finish
    [] OTHER -> ShowNothing /\ Send("reread")

Start ==
  /\ Mine.phase = "start"
  /\ Send(CASE Mine.op = "open" -> "probe" [] Mine.op = "switch" -> "create"
            [] OTHER -> "reset")
  /\ ShowNothing
  /\ UNCHANGED <<serverVars, cookie>>

\* A request of the operation fails and has done nothing.
Fails ==
  /\ Mine.phase # "start"
  /\ Recover(Mine)
  /\ UNCHANGED <<serverVars, cookie>>

\* probeDemoSession
Probe ==
  /\ Mine.phase = "probe"
  /\ IF IsSigned(cookie) /\ Mine.role \in {"none", cookie.role}
     THEN IF IsLive(Mine.gen)
          THEN GoOn([Mine EXCEPT !.phase = "load", !.session = cookie])
          ELSE Finish
     ELSE Send("create")
  /\ ShowNothing
  /\ UNCHANGED <<serverVars, cookie>>

\* createDemoSession
Create ==
  /\ Mine.phase = "create"
  /\ LET session == [role |-> IF Mine.role = "none" THEN "owner" ELSE Mine.role,
                     version |-> version]
         guide == Mine.previous.guide
         asks == /\ Mine.op = "switch"
                 /\ guide.stage \in SwitchStages /\ StageRole[guide.stage] = Mine.role
     IN  /\ cookie' = session
         /\ \/ /\ IF IsLive(Mine.gen)
                  THEN GoOn([Mine EXCEPT !.phase = IF asks THEN "advance" ELSE "load",
                                         !.session = session])
                  ELSE Finish
               /\ ShowNothing
            \/ "body" \in Faults /\ Recover(Mine)
  /\ UNCHANGED serverVars

\* advanceGuide, for a switch that the guide has asked for; it may be refused.
AdvanceOnSwitch ==
  /\ Mine.phase = "advance"
  /\ RecordStage(cookie, Mine.previous.guide.stage)
  /\ \/ Send("load") /\ ShowNothing
     \/ Recover(Mine)
  /\ UNCHANGED cookie

\* resetDemoSandbox; a partner's is refused.
ServeReset ==
  /\ Mine.phase = "reset"
  /\ cookie.role = "owner" /\ IsSigned(cookie)
  /\ StartVersion
  /\ \/ /\ cookie' = [role |-> "owner", version |-> version + 1]
        /\ \/ /\ IF IsLive(Mine.gen)
                 THEN GoOn([Mine EXCEPT !.phase = "load", !.session = cookie'])
                 ELSE Finish
              /\ ShowNothing
           \/ Recover(Mine)
     \/ UNCHANGED cookie /\ Recover(Mine)

\* readDemoSession
Reread ==
  /\ Mine.phase = "reread"
  /\ IsSigned(cookie)
  /\ GoOn([Mine EXCEPT !.phase = "reload", !.session = cookie])
  /\ ShowNothing
  /\ UNCHANGED <<serverVars, cookie>>

Destination(o) ==
  CASE o.op = "open" -> NoPath
    [] o.op = "switch" /\ o.phase = "load" -> o.dest
    [] OTHER -> WorkboardPath(o.session.role)

\* loadBundle: the two requests are answered in any order.
LoadPart ==
  /\ Mine.phase \in {"load", "reload"}
  /\ IsSigned(cookie)
  /\ \E workspace \in {Mine.workspace, {WorkspaceFor(cookie)}},
        guide \in {Mine.guide, {GuideNow}} :
       /\ \/ Mine.workspace = {} /\ workspace # {} /\ guide = Mine.guide
          \/ Mine.guide = {} /\ guide # {} /\ workspace = Mine.workspace
       /\ IF workspace = {} \/ guide = {}
          THEN GoOn([Mine EXCEPT !.workspace = workspace, !.guide = guide]) /\ ShowNothing
          ELSE \E w \in workspace, g \in guide :
                 LET dest == Destination(Mine)
                 IN  IF IsBundle(Mine.session, w, g)
                     THEN /\ ShowIfLive(Ready(Mine.session, w, g, dest),
                                        IF dest = NoPath THEN target ELSE dest)
                          /\ Finish
                     ELSE Recover(Mine)
  /\ UNCHANGED <<serverVars, cookie>>

RunOperation ==
  /\ queue # <<>>
  /\ \/ Start \/ Fails \/ Probe \/ Create \/ AdvanceOnSwitch \/ ServeReset \/ Reread \/ LoadPart
  /\ UNCHANGED <<path, gen, calls, moves>>

------------------------------------------------------------------------------
(* The steps of a check or a refresh.                                      *)

Continue(s, call) == calls' = [calls EXCEPT ![s] = call]
EndCall(s) == Continue(s, NoCall)

\* The server answers; a part that has been answered is kept until it is used.
AnswerWorkspace(s) ==
  /\ calls[s].phase \in {"workspace", "both"} /\ calls[s].workspace = {}
  /\ IsSigned(calls[s].cookie)
  /\ Continue(s, [calls[s] EXCEPT !.workspace = {WorkspaceFor(calls[s].cookie)}])
  /\ UNCHANGED <<serverVars, shown, target>>

AnswerGuide(s) ==
  /\ calls[s].phase = "both" /\ calls[s].guide = {}
  /\ IsSigned(calls[s].cookie)
  /\ Continue(s, [calls[s] EXCEPT !.guide = {GuideNow}])
  /\ UNCHANGED <<serverVars, shown, target>>

AnswerAdvance(s) ==
  /\ calls[s].phase = "advance" /\ calls[s].guide = {}
  /\ RecordStage(calls[s].cookie, calls[s].previous.guide.stage)
  /\ Continue(s, [calls[s] EXCEPT !.guide = {[version |-> version, stage |-> stage + 1]}])
  /\ UNCHANGED <<shown, target>>

\* The request is refused or its answer never arrives.
CallFails(s) ==
  /\ calls[s].kind # "none"
  /\ calls[s].phase = "advance" /\ calls[s].guide # {} => "lost" \in Faults
  /\ EndCall(s)
  /\ UNCHANGED <<serverVars, shown, target>>

CheckShows(call, next) ==
  IF IsLive(call.gen) THEN Show(next, target) ELSE UNCHANGED <<shown, target>>

\* The progress is shown at once; the records are read after it.
UseAdvance(s) ==
  /\ calls[s].phase = "advance" /\ calls[s].guide # {}
  /\ \E g \in calls[s].guide :
       CheckShows(calls[s], [calls[s].previous EXCEPT !.guide = g, !.refresh = TRUE])
  /\ Continue(s, [calls[s] EXCEPT !.phase = "workspace", !.cookie = cookie])
  /\ UNCHANGED serverVars

UseCheck(s) ==
  /\ calls[s].kind = "check" /\ calls[s].phase \in {"workspace", "both"}
  /\ \E w \in calls[s].workspace, g \in calls[s].guide :
       LET session == calls[s].previous.session
       IN  IF IsBundle(session, w, g)
           THEN CheckShows(calls[s], Ready(session, w, g, NoPath))
           ELSE UNCHANGED <<shown, target>>
  /\ EndCall(s)
  /\ UNCHANGED serverVars

\* refreshWorkspace looks at the present session, not at the one it began with.
IsWanted(call, w) ==
  /\ IsLive(call.gen) /\ shown.status = "ready"
  /\ IsBundle(shown.session, w, shown.guide)

UseRefresh(s) ==
  /\ calls[s].kind = "refresh"
  /\ \E w \in calls[s].workspace :
       IF IsWanted(calls[s], w)
       THEN Show([shown EXCEPT !.workspace = w], target)
       ELSE UNCHANGED <<shown, target>>
  /\ EndCall(s)
  /\ UNCHANGED serverVars

RunCall(s) ==
  /\ \/ AnswerWorkspace(s) \/ AnswerGuide(s) \/ AnswerAdvance(s)
     \/ CallFails(s)
     \/ UseAdvance(s) \/ UseCheck(s) \/ UseRefresh(s)
  /\ UNCHANGED <<cookie, path, gen, queue, busy, moves>>

------------------------------------------------------------------------------
\* The tab opens a page of the sandbox, with or without a session of before.
Init ==
  /\ version = 1 /\ stage = 1 /\ records = 0
  /\ askedAt = [i \in DOMAIN StageRole |-> 0]
  /\ cookie \in {NoSession} \cup [role : Roles, version : {1}]
  /\ path \in Paths
  /\ target = NoPath
  /\ shown = Loading
  /\ gen = 1
  /\ queue = <<[op |-> "open", phase |-> "start", gen |-> 1, role |-> RoleFromPathname(path),
                dest |-> NoPath, previous |-> Loading, session |-> NoSession,
                workspace |-> {}, guide |-> {}]>>
  /\ busy = FALSE
  /\ calls = [s \in Slots |-> NoCall]
  /\ moves = 0

User ==
  \/ \E p \in Paths : Navigate(p)
  \/ Reload \/ TryAgain \/ ResetSandbox
  \/ \E role \in Roles : ChangePersona(role)
  \/ \E s \in Slots : PressCard(s) \/ ChangeRecords(s)

Next ==
  \/ User \/ Arrive \/ OthersReset \/ RunOperation
  \/ \E s \in Slots : RunCall(s)

Spec == Init /\ [][Next]_vars

\* Every request is answered or fails, and the router arrives where it heads.
Fairness ==
  /\ WF_vars(Arrive)
  /\ WF_vars(RunOperation)
  /\ \A s \in Slots : WF_vars(RunCall(s))

FairSpec == Spec /\ Fairness

------------------------------------------------------------------------------
Sessions == {NoSession} \cup [role : Roles, version : 1..MaxVersion]
Workspaces == {NoWorkspace} \cup [role : Roles, version : 1..MaxVersion, records : 0..MaxChanges]
Guides == {NoGuide} \cup [version : 1..MaxVersion, stage : 1..StageCount + 1]
Shown ==
  [status : {"loading", "ready", "error"}, session : Sessions, workspace : Workspaces,
   guide : Guides, refresh : BOOLEAN, pending : Paths \cup {NoPath}]
Operations ==
  [op : {"open", "switch", "reset"},
   phase : {"start", "probe", "create", "advance", "reset", "load", "reread", "reload"},
   gen : 1..gen, role : Roles \cup {"none"}, dest : Paths \cup {NoPath}, previous : Shown,
   session : Sessions, workspace : SUBSET Workspaces, guide : SUBSET Guides]
Calls ==
  [kind : {"none", "check", "refresh"}, phase : {"idle", "advance", "workspace", "both"},
   gen : 0..gen, previous : Shown, cookie : Sessions, workspace : SUBSET Workspaces,
   guide : SUBSET Guides, mounted : BOOLEAN]

TypeOK ==
  /\ version \in 1..MaxVersion /\ stage \in 1..StageCount + 1 /\ records \in 0..MaxChanges
  /\ askedAt \in [DOMAIN StageRole -> 0..StageCount]
  /\ cookie \in Sessions
  /\ path \in Paths /\ target \in Paths \cup {NoPath}
  /\ shown \in Shown
  /\ gen \in Nat \ {0}
  /\ \A i \in DOMAIN queue : queue[i] \in Operations
  /\ busy \in BOOLEAN
  /\ calls \in [Slots -> Calls]
  /\ moves \in 0..MaxMoves

(* "Never restores old-role records after a session cookie has rotated":    *)
(* what is rendered belongs to the session that the cookie signs, with      *)
(* which every request of the page will be made.                            *)
RenderedIsSigned ==
  Rendered => shown.session = cookie /\ IsBundle(shown.session, shown.workspace, shown.guide)

(* "The signed sandbox persona follows the role prefix": the boundary       *)
(* screen gives way to the page, or to the error with its "Try again", and  *)
(* the guard against two session changes at once is down again, whatever    *)
(* superseded what.                                                         *)
Usable == (Rendered \/ shown.status = "error") /\ ~busy
BoundaryEnds == ~Usable ~> Usable

(* "Refreshes records without advancing twice": a stage is recorded only    *)
(* for a user whose card showed that stage.                                 *)
StagesWereShown == \A i \in DOMAIN askedAt : askedAt[i] \in {0, i}
==============================================================================
