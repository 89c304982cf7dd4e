------------------------ MODULE SandboxWorkspace_proofs ------------------------
(***************************************************************************)
(* What the tab of SandboxWorkspaceProvider renders belongs to the session *)
(* that its cookie signs, for every guide, every number of calls under way *)
(* and all bounds, as long as no answer breaks off after its headers have  *)
(* set the cookie: the fault "body" does break the property, as            *)
(* MCRotatedCookie shows.  Types are kept under every fault.               *)
(*                                                                         *)
(* The property is not inductive.  What it needs is that a ready view      *)
(* stands only beside an empty queue, so that nothing can change the       *)
(* cookie behind it (ShownIsSigned); that only the last operation of the   *)
(* queue can be of the present generation and only the first one runs      *)
(* (QueueInOrder), so that what a superseded operation would show is       *)
(* dropped; that the operation that runs knows the cookie whenever it      *)
(* could come to show something (HeadKnowsCookie); and that a check of the *)
(* present generation continues a view of the cookie (CallsAreKept).       *)
(***************************************************************************)
EXTENDS SandboxWorkspace, SequenceTheorems, TLAPS

------------------------------------------------------------------------------
(* The inductive invariant.                                                *)

RealSessions == [role : Roles, version : 1..MaxVersion]

OperationFields ==
  [op : {"open", "switch", "reset"},
   phase : {"start", "probe", "create", "advance", "reset", "load", "reread", "reload"},
   gen : Nat, role : Roles \cup {"none"}, dest : Paths \cup {NoPath}, previous : Shown,
   session : Sessions, workspace : SUBSET Workspaces, guide : SUBSET Guides]
CallFields ==
  [kind : {"none", "check", "refresh"}, phase : {"idle", "advance", "workspace", "both"},
   gen : Nat, previous : Shown, cookie : Sessions, workspace : SUBSET Workspaces,
   guide : SUBSET Guides, mounted : BOOLEAN]

ServerTypes ==
  /\ version \in 1..MaxVersion /\ stage \in 1..StageCount + 1 /\ records \in 0..MaxChanges
  /\ askedAt \in [DOMAIN StageRole -> 0..StageCount]

TabTypes ==
  /\ cookie \in Sessions
  /\ path \in Paths /\ target \in Paths \cup {NoPath}
  /\ shown \in Shown
  /\ gen \in Nat \ {0}
  /\ queue \in Seq(OperationFields)
  /\ busy \in BOOLEAN
  /\ calls \in [Slots -> CallFields]
  /\ moves \in 0..MaxMoves

\* No answer breaks off after its headers have set the cookie.
Unbroken == "body" \notin Faults

\* A view of a workspace shows one session's records and guide.
IsWhole(view) ==
  /\ view.status = "ready"
  /\ view.session \in RealSessions
  /\ view.guide.stage \in 1..StageCount + 1
  /\ Unbroken => IsBundle(view.session, view.workspace, view.guide)

\* What is shown belongs to the cookie, and no operation is under way that could
\* change the cookie behind it.
ShownIsSigned ==
  shown.status = "ready" =>
    queue = <<>> /\ IsWhole(shown) /\ (Unbroken => shown.session = cookie)

\* Only the last operation can be wanted, and only the first one runs.
QueueInOrder ==
  \A i \in DOMAIN queue :
    /\ queue[i].gen \in 1..gen
    /\ i < Len(queue) => queue[i].gen < gen
    /\ i > 1 => queue[i].phase = "start" /\ queue[i].op # "switch"

\* The running operation knows the cookie: that of its session once it has one,
\* and until then that of the view it would go back to.
KnowsCookie(o, c) ==
  /\ o.phase \in {"advance", "load", "reload"} => o.session = c /\ c \in RealSessions
  /\ o.op = "switch" /\ o.phase \in {"start", "create"} =>
       IsWhole(o.previous) /\ (Unbroken => o.previous.session = c)
  /\ o.phase = "probe" => o.op = "open"
  /\ o.phase = "advance" => o.previous.guide.stage \in DOMAIN StageRole
HeadKnowsCookie == queue # <<>> => KnowsCookie(queue[1], cookie)

\* A check that is still wanted runs beside no operation, and its advance was
\* signed by the session whose view it continues.
CallIsKept(call) ==
  /\ call.gen <= gen
  /\ call.kind = "check" => IsWhole(call.previous)
  /\ call.kind = "check" /\ call.gen = gen =>
       queue = <<>> /\ (Unbroken => call.previous.session = cookie)
  /\ call.phase = "advance" =>
       /\ call.kind = "check"
       /\ Unbroken => call.cookie = call.previous.session
       /\ call.previous.guide.stage \in DOMAIN StageRole
       /\ \A g \in call.guide :
            /\ g.stage \in 1..StageCount + 1
            /\ Unbroken => g.version = call.previous.session.version
CallsAreKept == \A s \in Slots : CallIsKept(calls[s])

IInv ==
  /\ ServerTypes /\ TabTypes
  /\ ShownIsSigned /\ QueueInOrder /\ HeadKnowsCookie /\ CallsAreKept

------------------------------------------------------------------------------
(* Views and paths.                                                        *)

LEMMA StageCounts == StageCount \in Nat /\ DOMAIN StageRole = 1..StageCount
BY GuideAssumption DEF StageCount

LEMMA PathsOfRoles ==
  /\ Root \in Paths /\ NoPath \notin Paths
  /\ \A role \in Roles : WorkboardPath(role) \in Paths /\ WorkPath(role) \in Paths
  /\ \A p \in Paths : RoleFromPathname(p) \in Roles \cup {"none"}
BY DEF Paths, Root, NoPath, WorkboardPath, WorkPath, RoleFromPathname, Roles

LEMMA EmptyViews ==
  /\ Loading \in Shown /\ Loading.status = "loading"
  /\ Failed \in Shown /\ Failed.status = "error"
BY DEF Loading, Failed, Boundary, Shown, Sessions, Workspaces, Guides

LEMMA SettledViews ==
  ASSUME NEW view \in Shown, NEW p
  PROVE  /\ Settled(view, p) \in Shown
         /\ Settled(view, p).status = view.status /\ Settled(view, p).session = view.session
         /\ IsWhole(Settled(view, p)) <=> IsWhole(view)
<1>1. CASE view.pending = p
  <2>1. [view EXCEPT !.pending = NoPath] \in Shown
    BY DEF Shown
  <2>2. LET v == [view EXCEPT !.pending = NoPath]
        IN  /\ v.status = view.status /\ v.session = view.session
            /\ v.workspace = view.workspace /\ v.guide = view.guide
    BY DEF Shown
  <2> QED BY <1>1, <2>1, <2>2 DEF Settled, IsWhole
<1>2. CASE view.pending # p
  BY <1>2 DEF Settled
<1> QED BY <1>1, <1>2

\* A whole view has a stage of the guide, or is past the last.
LEMMA WholeViews ==
  ASSUME NEW view \in Shown, IsWhole(view)
  PROVE  /\ view.guide.stage \in 1..StageCount + 1
         /\ view.session.role \in Roles /\ view.session.version \in 1..MaxVersion
BY DEF IsWhole, RealSessions

LEMMA ReadyViews ==
  ASSUME NEW session \in RealSessions, NEW workspace \in Workspaces, NEW guide \in Guides,
         NEW pending \in Paths \cup {NoPath}, IsBundle(session, workspace, guide)
  PROVE  /\ Ready(session, workspace, guide, pending) \in Shown
         /\ IsWhole(Ready(session, workspace, guide, pending))
         /\ Ready(session, workspace, guide, pending).session = session
<1>1. session \in Sessions /\ session.version \in 1..MaxVersion
  BY DEF RealSessions, Sessions
<1>2. guide # NoGuide
  BY <1>1, BoundsAssumption DEF NoGuide, IsBundle
<1>3. guide.stage \in 1..StageCount + 1
  BY <1>2 DEF Guides
<1> QED BY <1>1, <1>3 DEF Ready, Shown, IsWhole

\* A cookie the server accepts is of a role, and gets records and progress.
LEMMA SignedCookies ==
  ASSUME ServerTypes, NEW c \in Sessions, IsSigned(c)
  PROVE  /\ c \in RealSessions
         /\ WorkspaceFor(c) \in Workspaces /\ GuideNow \in Guides
         /\ GuideNow.version = c.version
<1> USE BoundsAssumption
<1>1. c # NoSession
  BY DEF IsSigned, NoSession, ServerTypes
<1>2. c \in RealSessions
  BY <1>1 DEF Sessions, RealSessions
<1>3. WorkspaceFor(c) \in Workspaces
  BY <1>2 DEF WorkspaceFor, Workspaces, RealSessions, ServerTypes
<1>4. GuideNow \in Guides /\ GuideNow.version = c.version
  BY DEF GuideNow, Guides, ServerTypes, IsSigned
<1> QED BY <1>2, <1>3, <1>4

------------------------------------------------------------------------------
(* What happens to the queue.                                              *)

\* The next view is typed, and what it shows as ready is signed by the cookie.
IsSignedView(view, c) ==
  /\ view \in Shown
  /\ view.status = "ready" => IsWhole(view) /\ (Unbroken => view.session = c)

LEMMA SettledSigned ==
  ASSUME NEW view, NEW p, NEW c, IsSignedView(view, c)
  PROVE  IsSignedView(Settled(view, p), c)
BY SettledViews DEF IsSignedView

\* Operations to enqueue: a switch is asked for by who sees a ready workspace.
IsNewOperation(o) ==
  /\ o \in OperationFields
  /\ o.phase = "start" /\ o.gen = gen + 1
  /\ o.op = "switch" =>
       queue = <<>> /\ IsWhole(o.previous) /\ (Unbroken => o.previous.session = cookie)

LEMMA OperationsAreNew ==
  ASSUME TabTypes, NEW op \in {"open", "switch", "reset"}, NEW role \in Roles \cup {"none"},
         NEW dest \in Paths \cup {NoPath},
         op = "switch" => queue = <<>> /\ IsWhole(shown) /\ (Unbroken => shown.session = cookie)
  PROVE  IsNewOperation(Operation(op, role, dest))
<1> DEFINE o == Operation(op, role, dest)
<1>1. /\ o.op = op /\ o.phase = "start" /\ o.gen = gen + 1
      /\ o.previous = IF op = "switch" THEN shown ELSE Loading
  BY DEF Operation
<1>2. o.previous \in Shown
  BY <1>1, EmptyViews DEF TabTypes
<1>3. o \in OperationFields
  BY <1>2 DEF Operation, OperationFields, TabTypes, Sessions
<1> QED BY <1>1, <1>3 DEF IsNewOperation

\* After an operation is enqueued nothing is shown and no call is wanted.
LEMMA EnqueueStep ==
  ASSUME IInv, NEW o, IsNewOperation(o), Enqueue(o), cookie' = cookie
  PROVE  /\ gen' \in Nat \ {0} /\ queue' \in Seq(OperationFields)
         /\ shown' = Loading /\ shown' \in Shown /\ calls' \in [Slots -> CallFields]
         /\ ShownIsSigned' /\ QueueInOrder' /\ HeadKnowsCookie' /\ CallsAreKept'
<1> USE DEF IInv, TabTypes
<1>1. /\ gen' = gen + 1 /\ queue' = Append(queue, o) /\ shown' = Loading /\ calls' = Unmounted
      /\ o \in OperationFields /\ o.phase = "start" /\ o.gen = gen + 1
      /\ o.op = "switch" =>
           queue = <<>> /\ IsWhole(o.previous) /\ (Unbroken => o.previous.session = cookie)
  BY DEF Enqueue, IsNewOperation
<1>2. /\ queue' \in Seq(OperationFields) /\ Len(queue) \in Nat /\ Len(queue') = Len(queue) + 1
      /\ DOMAIN queue = 1..Len(queue) /\ DOMAIN queue' = 1..Len(queue) + 1
      /\ \A i \in 1..Len(queue) : queue'[i] = queue[i]
      /\ queue'[Len(queue) + 1] = o
  BY <1>1
<1>3. calls' \in [Slots -> CallFields]
  <2>1. \A s \in Slots : [calls[s] EXCEPT !.mounted = FALSE] \in CallFields
    <3> SUFFICES ASSUME NEW s \in Slots PROVE [calls[s] EXCEPT !.mounted = FALSE] \in CallFields
      OBVIOUS
    <3>1. calls[s] \in CallFields
      OBVIOUS
    <3> HIDE DEF TabTypes, IInv
    <3> QED BY <3>1 DEF CallFields
  <2> HIDE DEF TabTypes, IInv
  <2> QED BY <1>1, <2>1 DEF Unmounted
<1>4. ShownIsSigned'
  BY <1>1, EmptyViews DEF ShownIsSigned
<1>5. QueueInOrder'
  <2> SUFFICES ASSUME NEW i \in 1..Len(queue) + 1
               PROVE  /\ queue'[i].gen \in 1..gen'
                      /\ i < Len(queue) + 1 => queue'[i].gen < gen'
                      /\ i > 1 => queue'[i].phase = "start" /\ queue'[i].op # "switch"
    BY <1>2 DEF QueueInOrder
  <2>1. CASE i \in 1..Len(queue)
    <3>1. /\ queue[i].gen \in 1..gen
          /\ i > 1 => queue[i].phase = "start" /\ queue[i].op # "switch"
      BY <2>1, <1>2 DEF QueueInOrder
    <3> QED BY <2>1, <3>1, <1>1, <1>2
  <2>2. CASE i = Len(queue) + 1
    <3>1. i > 1 => queue # <<>>
      BY <2>2, <1>2
    <3> QED BY <2>2, <3>1, <1>1, <1>2
  <2> QED BY <2>1, <2>2, <1>2
<1>6. HeadKnowsCookie'
  <2>1. CASE queue = <<>>
    <3>1. queue'[1] = o
      BY <2>1, <1>2
    <3> QED BY <3>1, <1>1 DEF HeadKnowsCookie, KnowsCookie, IsWhole
  <2>2. CASE queue # <<>>
    <3>1. queue'[1] = queue[1]
      BY <2>2, <1>2
    <3> QED BY <2>2, <3>1 DEF HeadKnowsCookie, KnowsCookie
  <2> QED BY <2>1, <2>2
<1>7. CallsAreKept'
  <2> SUFFICES ASSUME NEW s \in Slots PROVE CallIsKept(calls[s])'
    BY DEF CallsAreKept
  <2>1. CallIsKept(calls[s]) /\ calls[s] \in CallFields
    BY DEF CallsAreKept
  <2>2. calls'[s] = [calls[s] EXCEPT !.mounted = FALSE]
    BY <1>1 DEF Unmounted
  <2>3. /\ calls'[s].gen = calls[s].gen /\ calls'[s].kind = calls[s].kind
        /\ calls'[s].previous = calls[s].previous /\ calls'[s].phase = calls[s].phase
        /\ calls'[s].cookie = calls[s].cookie /\ calls'[s].guide = calls[s].guide
    BY <2>1, <2>2 DEF CallFields
  <2>4. calls'[s].gen < gen'
    BY <2>1, <2>3, <1>1 DEF CallIsKept, CallFields
  <2>5. calls[s].gen \in Nat /\ calls'[s].gen <= gen' /\ calls'[s].gen # gen'
    BY <2>1, <2>3, <2>4, <1>1 DEF CallFields
  <2> HIDE DEF TabTypes, IInv
  <2> QED BY <2>1, <2>3, <2>5 DEF CallIsKept, IsWhole
<1> QED BY <1>1, <1>2, <1>3, <1>4, <1>5, <1>6, <1>7, EmptyViews

\* What is done while an operation runs leaves nothing else wanted.
LEMMA WhileRunning ==
  ASSUME IInv, queue # <<>>
  PROVE  /\ shown.status # "ready"
         /\ Len(queue) \in Nat \ {0} /\ queue[1] \in OperationFields /\ Mine = queue[1]
         /\ queue[1].gen \in 1..gen
         /\ queue[1].gen = gen => Len(queue) = 1
         /\ \A s \in Slots : ~(calls[s].kind = "check" /\ calls[s].gen = gen)
<1> USE DEF IInv, TabTypes
<1>1. Len(queue) \in Nat \ {0} /\ DOMAIN queue = 1..Len(queue)
  OBVIOUS
<1>2. queue[1] \in OperationFields /\ Mine = queue[1]
  BY <1>1 DEF Mine
<1>3. queue[1].gen \in 1..gen /\ (queue[1].gen = gen => Len(queue) = 1)
  BY <1>1 DEF QueueInOrder
<1> QED BY <1>1, <1>2, <1>3 DEF ShownIsSigned, CallsAreKept, CallIsKept

\* The calls go on while an operation runs, whatever the cookie.
LEMMA CallsGoOn ==
  ASSUME IInv, queue # <<>>, UNCHANGED <<gen, calls>>
  PROVE  CallsAreKept'
<1> SUFFICES ASSUME NEW s \in Slots PROVE CallIsKept(calls[s])'
  BY DEF CallsAreKept
<1>1. CallIsKept(calls[s]) /\ ~(calls[s].kind = "check" /\ calls[s].gen = gen)
  BY WhileRunning DEF IInv, CallsAreKept
<1> QED BY <1>1 DEF CallIsKept

LEMMA GoOnStep ==
  ASSUME IInv, queue # <<>>, NEW o \in OperationFields, GoOn(o), o.gen = queue[1].gen,
         KnowsCookie(o, cookie'), cookie' \in Sessions, ServerTypes',
         ShowNothing, UNCHANGED <<path, gen, calls, moves>>
  PROVE  IInv'
<1> USE DEF IInv, TabTypes
<1>1. /\ queue' = [queue EXCEPT ![1] = o] /\ UNCHANGED <<busy, shown, target>>
  BY DEF GoOn, ShowNothing
<1>2. /\ shown.status # "ready" /\ Len(queue) \in Nat \ {0} /\ DOMAIN queue = 1..Len(queue)
  BY WhileRunning
<1>3. /\ queue' \in Seq(OperationFields) /\ Len(queue') = Len(queue)
      /\ queue'[1] = o /\ \A i \in 1..Len(queue) : i # 1 => queue'[i] = queue[i]
  BY <1>1, <1>2, ExceptSeq
<1>4. TabTypes'
  BY <1>1, <1>3
<1>5. ShownIsSigned'
  BY <1>1, <1>2 DEF ShownIsSigned
<1>6. QueueInOrder'
  <2>1. DOMAIN queue' = 1..Len(queue)
    BY <1>3
  <2> QED BY <1>2, <1>3, <2>1 DEF QueueInOrder
<1>7. HeadKnowsCookie'
  BY <1>3 DEF HeadKnowsCookie, KnowsCookie, IsWhole
<1>8. CallsAreKept'
  BY CallsGoOn
<1> QED BY <1>4, <1>5, <1>6, <1>7, <1>8

\* What an operation shows when it finishes is signed, if it is still wanted.
LEMMA FinishStep ==
  ASSUME IInv, queue # <<>>, Finish, cookie' \in Sessions, ServerTypes',
         \/ shown' = shown
         \/ IsLive(queue[1].gen) /\ IsSignedView(shown', cookie'),
         target' \in Paths \cup {NoPath}, UNCHANGED <<path, gen, calls, moves>>
  PROVE  IInv'
<1> USE DEF IInv, TabTypes
<1>1. queue' = Tail(queue) /\ busy' \in BOOLEAN
  BY DEF Finish, ClearBusy
<1>2. /\ shown.status # "ready" /\ Len(queue) \in Nat \ {0} /\ DOMAIN queue = 1..Len(queue)
      /\ queue[1].gen = gen => Len(queue) = 1
  BY WhileRunning
<1>3. /\ queue' \in Seq(OperationFields) /\ Len(queue') = Len(queue) - 1
      /\ \A i \in 1..Len(queue) - 1 : queue'[i] = queue[i + 1]
  BY <1>1, HeadTailProperties
<1>4. DOMAIN queue' = 1..Len(queue) - 1
  BY <1>3, <1>2
<1>5. shown' \in Shown
  BY DEF IsSignedView
<1>6. TabTypes'
  BY <1>1, <1>3, <1>5
<1>7. ShownIsSigned'
  <2>1. CASE shown' = shown
    BY <2>1, <1>2 DEF ShownIsSigned
  <2>2. CASE IsLive(queue[1].gen) /\ IsSignedView(shown', cookie')
    <3>1. Len(queue') = 0
      BY <2>2, <1>2, <1>3 DEF IsLive
    <3>2. queue' = <<>>
      BY <1>3, <3>1, EmptySeq
    <3> QED BY <2>2, <3>2 DEF ShownIsSigned, IsSignedView, IsWhole
  <2> QED BY <2>1, <2>2
<1>8. QueueInOrder'
  <2> SUFFICES ASSUME NEW i \in 1..Len(queue) - 1
               PROVE  /\ queue'[i].gen \in 1..gen
                      /\ i < Len(queue) - 1 => queue'[i].gen < gen
                      /\ i > 1 => queue'[i].phase = "start" /\ queue'[i].op # "switch"
    BY <1>3, <1>4 DEF QueueInOrder
  <2>1. i + 1 \in DOMAIN queue /\ queue'[i] = queue[i + 1] /\ i + 1 > 1
    BY <1>2, <1>3
  <2> QED BY <2>1, <1>2 DEF QueueInOrder
<1>9. HeadKnowsCookie'
  <2>1. queue' # <<>> => queue'[1].phase = "start" /\ queue'[1].op # "switch"
    <3> SUFFICES ASSUME queue' # <<>> PROVE queue'[1].phase = "start" /\ queue'[1].op # "switch"
      OBVIOUS
    <3>1. Len(queue') \in Nat \ {0}
      BY <1>3, EmptySeq
    <3>2. 2 \in DOMAIN queue /\ queue'[1] = queue[2]
      BY <1>2, <1>3, <3>1
    <3> QED BY <3>2 DEF QueueInOrder
  <2> QED BY <2>1 DEF HeadKnowsCookie, KnowsCookie
<1>10. CallsAreKept'
  BY CallsGoOn
<1> QED BY <1>6, <1>7, <1>8, <1>9, <1>10

------------------------------------------------------------------------------
(* The steps of an operation.                                              *)

LEMMA TargetsAreTyped ==
  ASSUME NEW p, NEW view, NEW c, IsSignedView(view, c), NEW otherwise \in Paths \cup {NoPath}
  PROVE  TargetAfter(p, view, otherwise) \in Paths \cup {NoPath}
<1>1. CASE p = Root /\ view.status = "ready"
  <2>1. view.session.role \in Roles
    BY <1>1, WholeViews DEF IsSignedView
  <2> QED BY <1>1, <2>1, PathsOfRoles DEF TargetAfter
<1>2. CASE ~(p = Root /\ view.status = "ready")
  BY <1>2 DEF TargetAfter
<1> QED BY <1>1, <1>2

LEMMA ShowStep ==
  ASSUME IInv, NEW view, NEW c, IsSignedView(view, c), NEW replaceTo \in Paths \cup {NoPath},
         Show(view, replaceTo)
  PROVE  target' \in Paths \cup {NoPath} /\ IsSignedView(shown', c)
BY TargetsAreTyped, SettledSigned DEF Show

LEMMA ShowIfLiveStep ==
  ASSUME IInv, queue # <<>>, NEW view, NEW c, IsSignedView(view, c),
         NEW replaceTo \in Paths \cup {NoPath}, ShowIfLive(view, replaceTo)
  PROVE  /\ target' \in Paths \cup {NoPath}
         /\ \/ shown' = shown
            \/ IsLive(queue[1].gen) /\ IsSignedView(shown', c)
<1>1. Mine = queue[1]
  BY WhileRunning
<1> QED BY <1>1, ShowStep DEF ShowIfLive, IInv, TabTypes

\* The operation goes on to a phase for which it knows the cookie, or finishes.
LEMMA SendStep ==
  ASSUME IInv, queue # <<>>, NEW phase \in {"probe", "create", "reset", "load", "reread"},
         Send(phase), ShowNothing, cookie' \in Sessions, ServerTypes',
         UNCHANGED <<path, gen, calls, moves>>,
         phase = "load" => queue[1].session = cookie' /\ cookie' \in RealSessions,
         phase = "create" /\ queue[1].op = "switch" =>
           IsWhole(queue[1].previous) /\ (Unbroken => queue[1].previous.session = cookie'),
         phase = "probe" => queue[1].op = "open"
  PROVE  IInv'
<1> DEFINE o == [queue[1] EXCEPT !.phase = phase, !.workspace = {}, !.guide = {}]
<1>1. queue[1] \in OperationFields /\ Mine = queue[1]
  BY WhileRunning
<1>2. CASE GoOn(o)
  <2>1. o \in OperationFields
    BY <1>1 DEF OperationFields
  <2>2. /\ o.gen = queue[1].gen /\ o.op = queue[1].op /\ o.session = queue[1].session
        /\ o.previous = queue[1].previous /\ o.phase = phase
    BY <1>1 DEF OperationFields
  <2>3. KnowsCookie(o, cookie')
    BY <2>2 DEF KnowsCookie
  <2> HIDE DEF o
  <2> QED BY <1>2, <2>1, <2>2, <2>3, GoOnStep
<1>3. CASE Finish
  <2>1. shown' = shown /\ target' \in Paths \cup {NoPath}
    BY DEF ShowNothing, IInv, TabTypes
  <2> QED BY <1>3, <2>1, FinishStep
<1> QED BY <1>1, <1>2, <1>3 DEF Send, GoOnTo

\* An operation that fails shows the error, or the view from before if it has not
\* changed the cookie, or asks which session there is.
LEMMA RecoverStep ==
  ASSUME IInv, queue # <<>>, Recover(queue[1]), cookie' \in Sessions, ServerTypes',
         UNCHANGED <<path, gen, calls, moves>>,
         queue[1].op = "switch" /\ queue[1].phase = "create" =>
           (Unbroken => cookie' = cookie)
  PROVE  IInv'
<1>1. target \in Paths \cup {NoPath}
  BY DEF IInv, TabTypes
<1>2. CASE ShowIfLive(Failed, target) /\ Finish
  <2>1. IsSignedView(Failed, cookie')
    BY EmptyViews DEF IsSignedView
  <2> QED BY <1>1, <1>2, <2>1, ShowIfLiveStep, FinishStep
<1>3. CASE /\ queue[1].op = "switch" /\ queue[1].phase = "create"
           /\ ShowIfLive(queue[1].previous, target) /\ Finish
  <2>1. IsWhole(queue[1].previous) /\ (Unbroken => queue[1].previous.session = cookie')
    BY <1>3 DEF IInv, HeadKnowsCookie, KnowsCookie
  <2>2. queue[1].previous \in Shown
    BY WhileRunning DEF OperationFields
  <2>3. IsSignedView(queue[1].previous, cookie')
    BY <2>1, <2>2 DEF IsSignedView
  <2> QED BY <1>1, <1>3, <2>3, ShowIfLiveStep, FinishStep
<1>4. CASE ShowNothing /\ Send("reread")
  BY <1>4, SendStep
<1> QED BY <1>2, <1>3, <1>4 DEF Recover

LEMMA ServerUntouched == ServerTypes /\ UNCHANGED serverVars => ServerTypes'
BY DEF ServerTypes, serverVars

LEMMA RecordStageStep ==
  ASSUME ServerTypes, NEW c, NEW asked \in DOMAIN StageRole, RecordStage(c, asked)
  PROVE  ServerTypes'
<1>1. /\ stage <= StageCount /\ stage' = stage + 1 /\ UNCHANGED <<version, records>>
      /\ askedAt' = [askedAt EXCEPT ![stage] = asked]
  BY DEF RecordStage
<1>2. stage' \in 1..StageCount + 1
  BY <1>1, StageCounts DEF ServerTypes
<1>3. askedAt' \in [DOMAIN StageRole -> 0..StageCount]
  BY <1>1, StageCounts DEF ServerTypes
<1> QED BY <1>1, <1>2, <1>3 DEF ServerTypes

LEMMA StartVersionStep ==
  ASSUME ServerTypes, StartVersion
  PROVE  ServerTypes' /\ version' = version + 1
BY StageCounts, BoundsAssumption DEF ServerTypes, StartVersion

LEMMA StartStep ==
  ASSUME IInv, queue # <<>>, Start, UNCHANGED <<path, gen, calls, moves>>
  PROVE  IInv'
<1>1. Mine = queue[1] /\ queue[1] \in OperationFields
  BY WhileRunning
<1> DEFINE next == CASE queue[1].op = "open" -> "probe" [] queue[1].op = "switch" -> "create"
                     [] OTHER -> "reset"
<1>2. /\ queue[1].phase = "start" /\ Send(next)
      /\ ShowNothing /\ UNCHANGED <<serverVars, cookie>>
  BY <1>1 DEF Start
<1>3. /\ next \in {"probe", "create", "reset"}
      /\ next = "create" /\ queue[1].op = "switch" =>
           IsWhole(queue[1].previous) /\ (Unbroken => queue[1].previous.session = cookie)
      /\ next = "probe" => queue[1].op = "open"
  BY <1>1, <1>2 DEF IInv, HeadKnowsCookie, KnowsCookie, OperationFields
<1>4. ServerTypes' /\ cookie' \in Sessions /\ cookie' = cookie
  BY <1>2, ServerUntouched DEF IInv, TabTypes
<1> HIDE DEF next
<1> QED BY <1>2, <1>3, <1>4, SendStep

LEMMA FailsStep ==
  ASSUME IInv, queue # <<>>, Fails, UNCHANGED <<path, gen, calls, moves>>
  PROVE  IInv'
<1>1. Recover(queue[1]) /\ UNCHANGED <<serverVars, cookie>>
  BY WhileRunning DEF Fails
<1>2. ServerTypes' /\ cookie' \in Sessions /\ cookie' = cookie
  BY <1>1, ServerUntouched DEF IInv, TabTypes
<1> QED BY <1>1, <1>2, RecoverStep

\* The operation that learns its session goes on with the cookie of it.
LEMMA SessionStep ==
  ASSUME IInv, queue # <<>>, NEW phase \in {"load", "advance", "reload"},
         cookie' \in RealSessions, ServerTypes', ShowNothing, UNCHANGED <<path, gen, calls, moves>>,
         phase = "advance" => queue[1].previous.guide.stage \in DOMAIN StageRole,
         \/ GoOn([queue[1] EXCEPT !.phase = phase, !.session = cookie'])
         \/ Finish
  PROVE  IInv'
<1> DEFINE o == [queue[1] EXCEPT !.phase = phase, !.session = cookie']
<1>1. queue[1] \in OperationFields
  BY WhileRunning
<1>2. cookie' \in Sessions
  BY DEF RealSessions, Sessions
<1>3. CASE GoOn(o)
  <2>1. o \in OperationFields
    BY <1>1, <1>2 DEF OperationFields
  <2>2. /\ o.gen = queue[1].gen /\ o.session = cookie' /\ o.phase = phase
        /\ o.previous = queue[1].previous
    BY <1>1 DEF OperationFields
  <2>3. KnowsCookie(o, cookie')
    BY <2>2 DEF KnowsCookie
  <2> HIDE DEF o
  <2> QED BY <1>2, <1>3, <2>1, <2>2, <2>3, GoOnStep
<1>4. CASE Finish
  <2>1. shown' = shown /\ target' \in Paths \cup {NoPath}
    BY DEF ShowNothing, IInv, TabTypes
  <2> QED BY <1>2, <1>4, <2>1, FinishStep
<1> QED BY <1>3, <1>4

LEMMA ProbeStep ==
  ASSUME IInv, queue # <<>>, Probe, UNCHANGED <<path, gen, calls, moves>>
  PROVE  IInv'
<1>1. Mine = queue[1] /\ queue[1] \in OperationFields
  BY WhileRunning
<1>2. queue[1].phase = "probe" /\ ShowNothing /\ UNCHANGED <<serverVars, cookie>>
  BY <1>1 DEF Probe
<1>3. ServerTypes' /\ cookie' \in Sessions /\ cookie' = cookie /\ queue[1].op = "open"
  BY <1>2, ServerUntouched DEF IInv, TabTypes, HeadKnowsCookie, KnowsCookie
<1>4. CASE IsSigned(cookie) /\ queue[1].role \in {"none", cookie.role}
  <2>1. cookie' \in RealSessions
    BY <1>3, <1>4, SignedCookies DEF IInv, TabTypes
  <2>2. GoOn([queue[1] EXCEPT !.phase = "load", !.session = cookie']) \/ Finish
    BY <1>1, <1>3, <1>4 DEF Probe
  <2> QED BY <1>2, <1>3, <2>1, <2>2, SessionStep
<1>5. CASE ~(IsSigned(cookie) /\ queue[1].role \in {"none", cookie.role})
  <2>1. Send("create")
    BY <1>1, <1>5 DEF Probe
  <2> QED BY <1>2, <1>3, <2>1, SendStep
<1> QED BY <1>4, <1>5

\* An answer that breaks off leaves a switch with the view of the cookie from before
\* it.
LEMMA CreateStep ==
  ASSUME IInv, queue # <<>>, Create, UNCHANGED <<path, gen, calls, moves>>
  PROVE  IInv'
<1>1. Mine = queue[1] /\ queue[1] \in OperationFields
  BY WhileRunning
<1> DEFINE session == [role |-> IF queue[1].role = "none" THEN "owner" ELSE queue[1].role,
                       version |-> version]
           asks == /\ queue[1].op = "switch"
                   /\ queue[1].previous.guide.stage \in SwitchStages
                   /\ StageRole[queue[1].previous.guide.stage] = queue[1].role
           phase == IF asks THEN "advance" ELSE "load"
<1>2. /\ cookie' = session /\ UNCHANGED serverVars
      /\ \/ /\ GoOn([queue[1] EXCEPT !.phase = phase, !.session = session]) \/ Finish
            /\ ShowNothing
         \/ "body" \in Faults /\ Recover(queue[1])
  BY <1>1 DEF Create
<1>3. session \in RealSessions
  BY <1>1 DEF RealSessions, OperationFields, Roles, IInv, ServerTypes
<1>4. ServerTypes'
  BY <1>2, ServerUntouched DEF IInv
<1>5. /\ phase \in {"load", "advance", "reload"}
      /\ phase = "advance" => queue[1].previous.guide.stage \in DOMAIN StageRole
  BY GuideAssumption
<1> HIDE DEF session, asks, phase
<1>6. CASE /\ GoOn([queue[1] EXCEPT !.phase = phase, !.session = session]) \/ Finish
           /\ ShowNothing
  BY <1>2, <1>3, <1>4, <1>5, <1>6, SessionStep
<1>7. CASE "body" \in Faults /\ Recover(queue[1])
  <2>1. cookie' \in Sessions /\ ~Unbroken
    BY <1>2, <1>3, <1>7 DEF RealSessions, Sessions, Unbroken
  <2> QED BY <1>4, <1>7, <2>1, RecoverStep
<1> QED BY <1>2, <1>6, <1>7

LEMMA AdvanceOnSwitchStep ==
  ASSUME IInv, queue # <<>>, AdvanceOnSwitch, UNCHANGED <<path, gen, calls, moves>>
  PROVE  IInv'
<1>1. Mine = queue[1] /\ queue[1] \in OperationFields
  BY WhileRunning
<1>2. /\ queue[1].phase = "advance" /\ cookie' = cookie
      /\ RecordStage(cookie, queue[1].previous.guide.stage)
      /\ (Send("load") /\ ShowNothing) \/ Recover(queue[1])
  BY <1>1 DEF AdvanceOnSwitch
<1>3. /\ queue[1].session = cookie' /\ cookie' \in RealSessions /\ cookie' \in Sessions
      /\ queue[1].previous.guide.stage \in DOMAIN StageRole
  BY <1>2 DEF IInv, TabTypes, HeadKnowsCookie, KnowsCookie
<1>4. ServerTypes'
  BY <1>2, <1>3, RecordStageStep DEF IInv
<1>5. CASE Send("load") /\ ShowNothing
  BY <1>3, <1>4, <1>5, SendStep
<1>6. CASE Recover(queue[1])
  BY <1>2, <1>3, <1>4, <1>6, RecoverStep
<1> QED BY <1>2, <1>5, <1>6

LEMMA ServeResetStep ==
  ASSUME IInv, queue # <<>>, ServeReset, UNCHANGED <<path, gen, calls, moves>>
  PROVE  IInv'
<1>1. Mine = queue[1] /\ queue[1] \in OperationFields
  BY WhileRunning
<1>2. queue[1].phase = "reset" /\ StartVersion
  BY <1>1 DEF ServeReset
<1>3. ServerTypes' /\ version' = version + 1
  BY <1>2, StartVersionStep DEF IInv
<1>4. CASE UNCHANGED cookie /\ Recover(queue[1])
  <2>1. cookie' \in Sessions
    BY <1>4 DEF IInv, TabTypes
  <2> QED BY <1>2, <1>3, <1>4, <2>1, RecoverStep
<1>5. CASE cookie' = [role |-> "owner", version |-> version + 1]
  <2>1. cookie' \in RealSessions /\ cookie' \in Sessions
    BY <1>3, <1>5 DEF RealSessions, Sessions, Roles, ServerTypes
  <2>2. CASE Recover(queue[1])
    BY <1>2, <1>3, <2>1, <2>2, RecoverStep
  <2>3. CASE /\ GoOn([queue[1] EXCEPT !.phase = "load", !.session = cookie']) \/ Finish
             /\ ShowNothing
    BY <1>3, <2>1, <2>3, SessionStep
  <2> QED BY <1>1, <1>4, <2>2, <2>3 DEF ServeReset
<1> QED BY <1>1, <1>4, <1>5 DEF ServeReset

LEMMA RereadStep ==
  ASSUME IInv, queue # <<>>, Reread, UNCHANGED <<path, gen, calls, moves>>
  PROVE  IInv'
<1>1. Mine = queue[1]
  BY WhileRunning
<1>2. /\ IsSigned(cookie) /\ ShowNothing /\ UNCHANGED <<serverVars, cookie>>
      /\ GoOn([queue[1] EXCEPT !.phase = "reload", !.session = cookie'])
  BY <1>1 DEF Reread
<1>3. ServerTypes' /\ cookie' \in RealSessions
  BY <1>2, ServerUntouched, SignedCookies DEF IInv, TabTypes
<1> QED BY <1>2, <1>3, SessionStep

LEMMA LoadPartStep ==
  ASSUME IInv, queue # <<>>, LoadPart, UNCHANGED <<path, gen, calls, moves>>
  PROVE  IInv'
<1>1. Mine = queue[1] /\ queue[1] \in OperationFields
  BY WhileRunning
<1>2. PICK workspace \in {queue[1].workspace, {WorkspaceFor(cookie)}},
           guide \in {queue[1].guide, {GuideNow}} :
        IF workspace = {} \/ guide = {}
        THEN GoOn([queue[1] EXCEPT !.workspace = workspace, !.guide = guide]) /\ ShowNothing
        ELSE \E w \in workspace, g \in guide :
               LET dest == Destination(queue[1])
               IN  IF IsBundle(queue[1].session, w, g)
                   THEN /\ ShowIfLive(Ready(queue[1].session, w, g, dest),
                                      IF dest = NoPath THEN target ELSE dest)
                        /\ Finish
                   ELSE Recover(queue[1])
  BY <1>1 DEF LoadPart
<1>3. /\ queue[1].phase \in {"load", "reload"} /\ IsSigned(cookie)
      /\ UNCHANGED <<serverVars, cookie>>
  BY <1>1 DEF LoadPart
<1>4. /\ ServerTypes' /\ cookie \in Sessions /\ cookie' = cookie /\ target \in Paths \cup {NoPath}
      /\ queue[1].session = cookie /\ cookie \in RealSessions
  BY <1>3, ServerUntouched DEF IInv, TabTypes, HeadKnowsCookie, KnowsCookie
<1>5. workspace \in SUBSET Workspaces /\ guide \in SUBSET Guides
  <2>1. WorkspaceFor(cookie) \in Workspaces /\ GuideNow \in Guides
    BY <1>3, <1>4, SignedCookies DEF IInv
  <2>2. queue[1].workspace \in SUBSET Workspaces /\ queue[1].guide \in SUBSET Guides
    BY <1>1 DEF OperationFields
  <2> QED BY <2>1, <2>2
<1> DEFINE dest == Destination(queue[1])
<1>6. dest \in Paths \cup {NoPath}
  <2>1. queue[1].session.role \in Roles /\ queue[1].dest \in Paths \cup {NoPath}
    BY <1>1, <1>4 DEF RealSessions, OperationFields
  <2> QED BY <2>1, PathsOfRoles DEF Destination
<1> HIDE DEF dest
<1>7. CASE GoOn([queue[1] EXCEPT !.workspace = workspace, !.guide = guide]) /\ ShowNothing
  <2> DEFINE o == [queue[1] EXCEPT !.workspace = workspace, !.guide = guide]
  <2>1. o \in OperationFields
    BY <1>1, <1>5 DEF OperationFields
  <2>2. /\ o.gen = queue[1].gen /\ o.op = queue[1].op /\ o.session = queue[1].session
        /\ o.previous = queue[1].previous /\ o.phase = queue[1].phase
    BY <1>1 DEF OperationFields
  <2>3. KnowsCookie(o, cookie')
    BY <1>3, <1>4, <2>2 DEF KnowsCookie
  <2> HIDE DEF o
  <2>4. GoOn(o) /\ ShowNothing
    BY <1>7 DEF o
  <2> QED BY <1>4, <2>1, <2>2, <2>3, <2>4, GoOnStep
<1>8. ASSUME NEW w \in workspace, NEW g \in guide, IsBundle(queue[1].session, w, g),
             ShowIfLive(Ready(queue[1].session, w, g, dest), IF dest = NoPath THEN target ELSE dest),
             Finish
      PROVE  IInv'
  <2>1. IsSignedView(Ready(queue[1].session, w, g, dest), cookie')
    BY <1>4, <1>5, <1>6, <1>8, ReadyViews DEF IsSignedView
  <2>2. (IF dest = NoPath THEN target ELSE dest) \in Paths \cup {NoPath}
    BY <1>4, <1>6
  <2>3. /\ target' \in Paths \cup {NoPath}
        /\ \/ shown' = shown
           \/ IsLive(queue[1].gen) /\ IsSignedView(shown', cookie')
    BY <1>8, <2>1, <2>2, ShowIfLiveStep
  <2> QED BY <1>4, <1>8, <2>3, FinishStep
<1>9. CASE Recover(queue[1])
  BY <1>4, <1>9, RecoverStep
<1> QED BY <1>2, <1>7, <1>8, <1>9 DEF dest

LEMMA RunOperationStep ==
  ASSUME IInv, RunOperation
  PROVE  IInv'
BY StartStep, FailsStep, ProbeStep, CreateStep, AdvanceOnSwitchStep, ServeResetStep, RereadStep,
   LoadPartStep DEF RunOperation

------------------------------------------------------------------------------
(* The steps of a check or a refresh.                                      *)

\* A call that moves on leaves the rest; what it shows is signed, beside no
\* operation.
LEMMA ContinueStep ==
  ASSUME IInv, NEW s \in Slots, NEW call \in CallFields, Continue(s, call), CallIsKept(call),
         ServerTypes', target' \in Paths \cup {NoPath},
         UNCHANGED <<cookie, path, gen, queue, busy, moves>>,
         \/ shown' = shown
         \/ queue = <<>> /\ IsSignedView(shown', cookie)
  PROVE  IInv'
<1> USE DEF IInv, TabTypes
<1>1. calls' = [calls EXCEPT ![s] = call]
  BY DEF Continue
<1>2. calls' \in [Slots -> CallFields] /\ shown' \in Shown
  BY <1>1 DEF IsSignedView
<1>3. TabTypes'
  BY <1>2
<1>4. ShownIsSigned'
  BY DEF ShownIsSigned, IsSignedView, IsWhole
<1>5. QueueInOrder' /\ HeadKnowsCookie'
  BY DEF QueueInOrder, HeadKnowsCookie, KnowsCookie
<1>6. CallsAreKept'
  <2> SUFFICES ASSUME NEW t \in Slots PROVE CallIsKept(calls[t])'
    BY DEF CallsAreKept
  <2>1. CallIsKept(calls'[t])
    BY <1>1 DEF CallsAreKept
  <2> QED BY <2>1 DEF CallIsKept
<1> QED BY <1>3, <1>4, <1>5, <1>6

LEMMA NoCallIsKept == IInv => NoCall \in CallFields /\ CallIsKept(NoCall)
BY EmptyViews DEF NoCall, CallFields, CallIsKept, Sessions, IInv, TabTypes

LEMMA AnswersStep ==
  ASSUME IInv, NEW s \in Slots, AnswerWorkspace(s) \/ AnswerGuide(s),
         UNCHANGED <<cookie, path, gen, queue, busy, moves>>
  PROVE  IInv'
<1>1. calls[s] \in CallFields /\ CallIsKept(calls[s])
  BY DEF IInv, TabTypes, CallsAreKept
<1>2. IsSigned(calls[s].cookie) /\ UNCHANGED <<serverVars, shown, target>>
  BY DEF AnswerWorkspace, AnswerGuide
<1>3. WorkspaceFor(calls[s].cookie) \in Workspaces /\ GuideNow \in Guides
  BY <1>1, <1>2, SignedCookies DEF CallFields, IInv
<1>4. ServerTypes' /\ target' \in Paths \cup {NoPath} /\ shown' = shown
  BY <1>2, ServerUntouched DEF IInv, TabTypes
<1>5. CASE AnswerWorkspace(s)
  <2> DEFINE call == [calls[s] EXCEPT !.workspace = {WorkspaceFor(calls[s].cookie)}]
  <2>1. call \in CallFields
    BY <1>1, <1>3 DEF CallFields
  <2>2. /\ call.gen = calls[s].gen /\ call.kind = calls[s].kind /\ call.phase = calls[s].phase
        /\ call.previous = calls[s].previous /\ call.cookie = calls[s].cookie
        /\ call.guide = calls[s].guide
    BY <1>1 DEF CallFields
  <2>3. Continue(s, call)
    BY <1>5 DEF AnswerWorkspace
  <2> HIDE DEF call
  <2>4. CallIsKept(call)
    BY <1>1, <2>2 DEF CallIsKept
  <2> QED BY <1>4, <2>1, <2>3, <2>4, ContinueStep
<1>6. CASE AnswerGuide(s)
  <2> DEFINE call == [calls[s] EXCEPT !.guide = {GuideNow}]
  <2>1. call \in CallFields
    BY <1>1, <1>3 DEF CallFields
  <2>2. /\ call.gen = calls[s].gen /\ call.kind = calls[s].kind /\ call.phase = "both"
        /\ call.previous = calls[s].previous
    BY <1>1, <1>6 DEF CallFields, AnswerGuide
  <2>3. Continue(s, call)
    BY <1>6 DEF AnswerGuide
  <2> HIDE DEF call
  <2>4. CallIsKept(call)
    BY <1>1, <2>2 DEF CallIsKept
  <2> QED BY <1>4, <2>1, <2>3, <2>4, ContinueStep
<1> QED BY <1>5, <1>6

\* The progress an advance answers is of the version its cookie signs.
LEMMA AnswerAdvanceStep ==
  ASSUME IInv, NEW s \in Slots, AnswerAdvance(s), UNCHANGED <<cookie, path, gen, queue, busy, moves>>
  PROVE  IInv'
<1>1. calls[s] \in CallFields /\ CallIsKept(calls[s])
  BY DEF IInv, TabTypes, CallsAreKept
<1> DEFINE new == [version |-> version, stage |-> stage + 1]
           call == [calls[s] EXCEPT !.guide = {new}]
<1>2. /\ calls[s].phase = "advance" /\ Continue(s, call) /\ UNCHANGED <<shown, target>>
      /\ RecordStage(calls[s].cookie, calls[s].previous.guide.stage)
  BY DEF AnswerAdvance
<1>3. ServerTypes'
  BY <1>1, <1>2, RecordStageStep DEF IInv, CallIsKept
<1>4. /\ new \in Guides /\ new.version = calls[s].cookie.version
      /\ new.stage \in 1..StageCount + 1
  <2>1. stage <= StageCount /\ calls[s].cookie.version = version
    BY <1>2 DEF RecordStage, IsSigned
  <2> QED BY <2>1, StageCounts DEF Guides, IInv, ServerTypes
<1>5. call \in CallFields
  BY <1>1, <1>4 DEF CallFields
<1>6. /\ call.gen = calls[s].gen /\ call.kind = calls[s].kind /\ call.phase = calls[s].phase
      /\ call.previous = calls[s].previous /\ call.cookie = calls[s].cookie /\ call.guide = {new}
  BY <1>1 DEF CallFields
<1> HIDE DEF call, new
<1>7. CallIsKept(call)
  BY <1>1, <1>2, <1>4, <1>6 DEF CallIsKept
<1>8. target' \in Paths \cup {NoPath}
  BY <1>2 DEF IInv, TabTypes
<1> QED BY <1>2, <1>3, <1>5, <1>7, <1>8, ContinueStep

LEMMA CallFailsStep ==
  ASSUME IInv, NEW s \in Slots, CallFails(s), UNCHANGED <<cookie, path, gen, queue, busy, moves>>
  PROVE  IInv'
<1>1. Continue(s, NoCall) /\ UNCHANGED <<serverVars, shown, target>>
  BY DEF CallFails, EndCall
<1>2. ServerTypes' /\ target' \in Paths \cup {NoPath}
  BY <1>1, ServerUntouched DEF IInv, TabTypes
<1> QED BY <1>1, <1>2, NoCallIsKept, ContinueStep

\* What a check shows is signed by the cookie, for it runs beside no operation.
LEMMA CheckShowsStep ==
  ASSUME IInv, NEW s \in Slots, calls[s].kind = "check", NEW view \in Shown,
         view.status = "ready" => IsWhole(view) /\ view.session = calls[s].previous.session,
         CheckShows(calls[s], view)
  PROVE  /\ target' \in Paths \cup {NoPath}
         /\ shown' = shown \/ (queue = <<>> /\ IsSignedView(shown', cookie))
<1>1. target \in Paths \cup {NoPath}
  BY DEF IInv, TabTypes
<1>2. CASE calls[s].gen = gen
  <2>1. queue = <<>> /\ (Unbroken => calls[s].previous.session = cookie)
    BY <1>2 DEF IInv, CallsAreKept, CallIsKept
  <2>2. IsSignedView(view, cookie)
    BY <2>1 DEF IsSignedView
  <2>3. Show(view, target)
    BY <1>2 DEF CheckShows, IsLive
  <2> QED BY <1>1, <2>1, <2>2, <2>3, ShowStep
<1>3. CASE calls[s].gen # gen
  BY <1>1, <1>3 DEF CheckShows, IsLive
<1> QED BY <1>2, <1>3

LEMMA UseAdvanceStep ==
  ASSUME IInv, NEW s \in Slots, UseAdvance(s), UNCHANGED <<cookie, path, gen, queue, busy, moves>>
  PROVE  IInv'
<1>1. calls[s] \in CallFields /\ CallIsKept(calls[s])
  BY DEF IInv, TabTypes, CallsAreKept
<1> DEFINE old == calls[s].previous
           call == [calls[s] EXCEPT !.phase = "workspace", !.cookie = cookie]
<1>2. /\ calls[s].phase = "advance" /\ Continue(s, call) /\ UNCHANGED serverVars
  BY DEF UseAdvance
<1>3. PICK g \in calls[s].guide : CheckShows(calls[s], [old EXCEPT !.guide = g, !.refresh = TRUE])
  BY DEF UseAdvance
<1> DEFINE view == [old EXCEPT !.guide = g, !.refresh = TRUE]
<1>4. /\ old \in Shown /\ g \in Guides /\ calls[s].kind = "check" /\ IsWhole(old)
      /\ g.stage \in 1..StageCount + 1 /\ (Unbroken => g.version = old.session.version)
  BY <1>1, <1>2 DEF CallFields, CallIsKept
<1>5. view \in Shown
  BY <1>4 DEF Shown
<1>6. /\ view.status = old.status /\ view.session = old.session /\ view.workspace = old.workspace
      /\ view.guide = g
  BY <1>4 DEF Shown
<1>7. IsWhole(view)
  BY <1>4, <1>6 DEF IsWhole, IsBundle
<1>8. /\ target' \in Paths \cup {NoPath}
      /\ shown' = shown \/ (queue = <<>> /\ IsSignedView(shown', cookie))
  <2>1. CheckShows(calls[s], view)
    BY <1>3
  <2> HIDE DEF view
  <2> QED BY <1>4, <1>5, <1>6, <1>7, <2>1, CheckShowsStep
<1>9. call \in CallFields
  BY <1>1 DEF CallFields, IInv, TabTypes
<1>10. /\ call.gen = calls[s].gen /\ call.kind = calls[s].kind /\ call.phase = "workspace"
       /\ call.previous = old
  BY <1>1 DEF CallFields
<1>11. ServerTypes'
  BY <1>2, ServerUntouched DEF IInv
<1> HIDE DEF call, view
<1>12. CallIsKept(call)
  BY <1>1, <1>10 DEF CallIsKept
<1> QED BY <1>2, <1>8, <1>9, <1>11, <1>12, ContinueStep

LEMMA UseCheckStep ==
  ASSUME IInv, NEW s \in Slots, UseCheck(s), UNCHANGED <<cookie, path, gen, queue, busy, moves>>
  PROVE  IInv'
<1>1. calls[s] \in CallFields /\ CallIsKept(calls[s])
  BY DEF IInv, TabTypes, CallsAreKept
<1> DEFINE session == calls[s].previous.session
<1>2. PICK w \in calls[s].workspace, g \in calls[s].guide :
        IF IsBundle(session, w, g) THEN CheckShows(calls[s], Ready(session, w, g, NoPath))
        ELSE UNCHANGED <<shown, target>>
  BY DEF UseCheck
<1>3. calls[s].kind = "check" /\ Continue(s, NoCall) /\ UNCHANGED serverVars
  BY DEF UseCheck, EndCall
<1>4. w \in Workspaces /\ g \in Guides /\ session \in RealSessions
  BY <1>1, <1>3 DEF CallFields, CallIsKept, IsWhole
<1>5. /\ target' \in Paths \cup {NoPath}
      /\ shown' = shown \/ (queue = <<>> /\ IsSignedView(shown', cookie))
  <2>1. CASE IsBundle(session, w, g)
    <3>1. CheckShows(calls[s], Ready(session, w, g, NoPath))
      BY <1>2, <2>1
    <3>2. /\ Ready(session, w, g, NoPath) \in Shown
          /\ IsWhole(Ready(session, w, g, NoPath))
          /\ Ready(session, w, g, NoPath).session = session
      BY <1>4, <2>1, ReadyViews
    <3> QED BY <1>3, <3>1, <3>2, CheckShowsStep
  <2>2. CASE ~IsBundle(session, w, g)
    BY <1>2, <2>2 DEF IInv, TabTypes
  <2> QED BY <2>1, <2>2
<1>6. ServerTypes'
  BY <1>3, ServerUntouched DEF IInv
<1> QED BY <1>3, <1>5, <1>6, NoCallIsKept, ContinueStep

\* A refresh replaces the records of what is shown by others of the same session.
LEMMA UseRefreshStep ==
  ASSUME IInv, NEW s \in Slots, UseRefresh(s), UNCHANGED <<cookie, path, gen, queue, busy, moves>>
  PROVE  IInv'
<1>1. calls[s] \in CallFields
  BY DEF IInv, TabTypes
<1>2. PICK w \in calls[s].workspace :
        IF IsWanted(calls[s], w) THEN Show([shown EXCEPT !.workspace = w], target)
        ELSE UNCHANGED <<shown, target>>
  BY DEF UseRefresh
<1>3. Continue(s, NoCall) /\ UNCHANGED serverVars
  BY DEF UseRefresh, EndCall
<1>4. w \in Workspaces /\ shown \in Shown /\ target \in Paths \cup {NoPath}
  BY <1>1 DEF CallFields, IInv, TabTypes
<1>5. /\ target' \in Paths \cup {NoPath}
      /\ shown' = shown \/ (queue = <<>> /\ IsSignedView(shown', cookie))
  <2>1. CASE IsWanted(calls[s], w)
    <3> DEFINE view == [shown EXCEPT !.workspace = w]
    <3>1. view \in Shown
      BY <1>4 DEF Shown
    <3>2. /\ view.status = shown.status /\ view.session = shown.session /\ view.workspace = w
          /\ view.guide = shown.guide
      BY <1>4 DEF Shown
    <3>3. queue = <<>> /\ (Unbroken => shown.session = cookie) /\ IsWhole(shown)
      BY <2>1 DEF IsWanted, IInv, ShownIsSigned
    <3>4. Show(view, target)
      BY <1>2, <2>1
    <3> HIDE DEF view
    <3>5. IsSignedView(view, cookie)
      BY <2>1, <3>1, <3>2, <3>3 DEF IsSignedView, IsWanted, IsWhole, IsBundle
    <3> QED BY <1>4, <3>3, <3>4, <3>5, ShowStep
  <2>2. CASE ~IsWanted(calls[s], w)
    BY <1>2, <1>4, <2>2
  <2> QED BY <2>1, <2>2
<1>6. ServerTypes'
  BY <1>3, ServerUntouched DEF IInv
<1> QED BY <1>3, <1>5, <1>6, NoCallIsKept, ContinueStep

LEMMA RunCallStep ==
  ASSUME IInv, NEW s \in Slots, RunCall(s)
  PROVE  IInv'
BY AnswersStep, AnswerAdvanceStep, CallFailsStep, UseAdvanceStep, UseCheckStep, UseRefreshStep
   DEF RunCall

------------------------------------------------------------------------------
(* What the user does, and others.                                         *)

\* The part of the invariant that an action of the user can disturb.
TabIsKept ==
  /\ gen \in Nat \ {0} /\ queue \in Seq(OperationFields) /\ shown \in Shown
  /\ calls \in [Slots -> CallFields]
  /\ ShownIsSigned /\ QueueInOrder /\ HeadKnowsCookie /\ CallsAreKept

LEMMA OpenStep ==
  ASSUME IInv, NEW p \in Paths, OpenSession(p), cookie' = cookie
  PROVE  TabIsKept' /\ shown' = Loading
<1>1. IsNewOperation(Operation("open", RoleFromPathname(p), NoPath))
  BY OperationsAreNew, PathsOfRoles DEF IInv
<1> QED BY <1>1, EnqueueStep DEF OpenSession, TabIsKept

LEMMA FollowStep ==
  ASSUME IInv, NEW p \in Paths, FollowPath(p), cookie' = cookie
  PROVE  TabIsKept' /\ IsSignedView(shown', cookie)
<1>1. CASE shown' = Settled(shown, p) /\ UNCHANGED <<gen, queue, calls>>
  <2>1. IsSignedView(shown, cookie)
    BY DEF IsSignedView, IInv, TabTypes, ShownIsSigned
  <2>2. IsSignedView(shown', cookie)
    BY <1>1, <2>1, SettledSigned
  <2>3. shown'.status = shown.status
    BY <1>1, SettledViews DEF IInv, TabTypes
  <2>4. ShownIsSigned'
    BY <1>1, <2>2, <2>3 DEF ShownIsSigned, IsSignedView, IInv, IsWhole
  <2>5. QueueInOrder' /\ HeadKnowsCookie' /\ CallsAreKept'
    BY <1>1 DEF IInv, QueueInOrder, HeadKnowsCookie, KnowsCookie, CallsAreKept, CallIsKept
  <2> QED BY <1>1, <2>2, <2>4, <2>5 DEF TabIsKept, IInv, TabTypes, IsSignedView
<1>2. CASE OpenSession(p)
  BY <1>2, OpenStep, EmptyViews DEF IsSignedView
<1> QED BY <1>1, <1>2 DEF FollowPath

LEMMA TabStep ==
  ASSUME IInv, TabIsKept', ServerTypes', cookie' = cookie, path' \in Paths,
         target' \in Paths \cup {NoPath}, busy' \in BOOLEAN, moves' \in 0..MaxMoves
  PROVE  IInv'
BY DEF IInv, TabTypes, TabIsKept

LEMMA MovesStep == IInv /\ Moves => moves' \in 0..MaxMoves
BY BoundsAssumption DEF IInv, TabTypes, Moves

LEMMA NavigateStep ==
  ASSUME IInv, NEW p \in Paths, Navigate(p)
  PROVE  IInv'
<1>1. /\ path' = p /\ FollowPath(p) /\ target' = TargetAfter(p, shown', NoPath)
      /\ UNCHANGED <<serverVars, cookie, busy>> /\ moves' \in 0..MaxMoves
  BY MovesStep DEF Navigate
<1>2. TabIsKept' /\ IsSignedView(shown', cookie)
  BY <1>1, FollowStep
<1>3. target' \in Paths \cup {NoPath}
  BY <1>1, <1>2, TargetsAreTyped
<1>4. ServerTypes' /\ busy' \in BOOLEAN
  BY <1>1, ServerUntouched DEF IInv, TabTypes
<1> QED BY <1>1, <1>2, <1>3, <1>4, TabStep

LEMMA ArriveStep ==
  ASSUME IInv, Arrive
  PROVE  IInv'
<1>1. /\ target \in Paths /\ path' = target /\ target' = NoPath /\ FollowPath(target)
      /\ UNCHANGED <<serverVars, cookie, busy, moves>>
  BY DEF Arrive, IInv, TabTypes
<1>2. TabIsKept'
  BY <1>1, FollowStep
<1>3. ServerTypes' /\ busy' \in BOOLEAN /\ moves' \in 0..MaxMoves
  BY <1>1, ServerUntouched DEF IInv, TabTypes
<1> QED BY <1>1, <1>2, <1>3, TabStep

\* Only the cookie outlives a reload, and the first operation asks for it.
LEMMA ReloadStep ==
  ASSUME IInv, Reload
  PROVE  IInv'
<1> DEFINE o == [Operation("open", RoleFromPathname(path), NoPath) EXCEPT !.gen = 1]
<1>1. /\ target' = NoPath /\ shown' = Loading /\ gen' = 1 /\ queue' = <<o>> /\ busy' = FALSE
      /\ calls' = [s \in Slots |-> NoCall] /\ UNCHANGED <<serverVars, cookie, path>>
      /\ moves' \in 0..MaxMoves
  BY MovesStep DEF Reload
<1>2. /\ o \in OperationFields /\ o.op = "open" /\ o.phase = "start" /\ o.gen = 1
  <2>1. IsNewOperation(Operation("open", RoleFromPathname(path), NoPath))
    BY OperationsAreNew, PathsOfRoles DEF IInv, TabTypes
  <2>2. Operation("open", RoleFromPathname(path), NoPath).op = "open"
    BY DEF Operation
  <2> QED BY <2>1, <2>2 DEF IsNewOperation, OperationFields
<1> HIDE DEF o
<1>3. /\ queue' \in Seq(OperationFields) /\ Len(queue') = 1 /\ DOMAIN queue' = {1} /\ queue'[1] = o
  BY <1>1, <1>2
<1>4. calls' \in [Slots -> CallFields]
  BY <1>1, NoCallIsKept
<1>5. ShownIsSigned'
  BY <1>1, EmptyViews DEF ShownIsSigned
<1>6. QueueInOrder' /\ HeadKnowsCookie'
  BY <1>1, <1>2, <1>3 DEF QueueInOrder, HeadKnowsCookie, KnowsCookie
<1>7. CallsAreKept'
  BY <1>1 DEF CallsAreKept, CallIsKept, NoCall
<1>8. TabIsKept'
  BY <1>1, <1>3, <1>4, <1>5, <1>6, <1>7, EmptyViews DEF TabIsKept
<1>9. ServerTypes' /\ path' \in Paths
  BY <1>1, ServerUntouched DEF IInv, TabTypes
<1> QED BY <1>1, <1>8, <1>9, TabStep

LEMMA TryAgainStep ==
  ASSUME IInv, TryAgain
  PROVE  IInv'
<1>1. /\ OpenSession(path) /\ UNCHANGED <<serverVars, cookie, path, target, busy>>
      /\ moves' \in 0..MaxMoves
  BY MovesStep DEF TryAgain
<1>2. /\ ServerTypes' /\ path \in Paths /\ path' \in Paths /\ target' \in Paths \cup {NoPath}
      /\ busy' \in BOOLEAN
  BY <1>1, ServerUntouched DEF IInv, TabTypes
<1> QED BY <1>1, <1>2, OpenStep, TabStep

\* Persona and reset are changed by who sees the content, so beside no operation.
LEMMA SessionChangeStep ==
  ASSUME IInv, Rendered, NEW op \in {"switch", "reset"}, NEW role \in Roles \cup {"none"},
         NEW dest \in Paths \cup {NoPath}, SessionChange(Operation(op, role, dest)),
         moves' \in 0..MaxMoves
  PROVE  IInv'
<1>1. /\ Enqueue(Operation(op, role, dest)) /\ busy' = TRUE
      /\ UNCHANGED <<serverVars, cookie, path, target>>
  BY DEF SessionChange
<1>2. queue = <<>> /\ IsWhole(shown) /\ (Unbroken => shown.session = cookie)
  BY DEF Rendered, IInv, ShownIsSigned
<1>3. IsNewOperation(Operation(op, role, dest))
  BY <1>2, OperationsAreNew DEF IInv
<1>4. TabIsKept'
  BY <1>1, <1>3, EnqueueStep DEF TabIsKept
<1>5. ServerTypes' /\ path' \in Paths /\ target' \in Paths \cup {NoPath}
  BY <1>1, ServerUntouched DEF IInv, TabTypes
<1> QED BY <1>1, <1>4, <1>5, TabStep

LEMMA ChangesStep ==
  ASSUME IInv, ResetSandbox \/ (\E role \in Roles : ChangePersona(role))
  PROVE  IInv'
<1>1. CASE ResetSandbox
  BY <1>1, SessionChangeStep, MovesStep DEF ResetSandbox
<1>2. ASSUME NEW role \in Roles, ChangePersona(role) PROVE IInv'
  <2>1. WorkboardPath(role) \in Paths
    BY PathsOfRoles
  <2>2. /\ Rendered /\ moves' \in 0..MaxMoves
        /\ SessionChange(Operation("switch", role, WorkboardPath(role)))
    BY <1>2, MovesStep DEF ChangePersona, SwitchPersona
  <2> QED BY <2>1, <2>2, SessionChangeStep
<1> QED BY <1>1, <1>2

\* A new call is made with the cookie of what is shown.
LEMMA CallsAreTyped ==
  ASSUME IInv, NEW kind \in {"check", "refresh"}, NEW phase \in {"advance", "workspace", "both"},
         NEW g \in Nat
  PROVE  /\ Call(kind, phase, g) \in CallFields
         /\ Call(kind, phase, g).kind = kind /\ Call(kind, phase, g).phase = phase
         /\ Call(kind, phase, g).gen = g /\ Call(kind, phase, g).cookie = cookie
         /\ Call(kind, phase, g).guide = {}
         /\ kind = "check" => Call(kind, phase, g).previous = shown
<1>1. NoCall \in CallFields /\ NoCall.guide = {}
  BY NoCallIsKept DEF NoCall
<1>2. shown \in Shown /\ Loading \in Shown /\ cookie \in Sessions
  BY EmptyViews DEF IInv, TabTypes
<1> QED BY <1>1, <1>2 DEF Call, CallFields

LEMMA CheckProgressStep ==
  ASSUME IInv, Rendered, NEW s \in Slots, CheckProgress(s), moves' \in 0..MaxMoves,
         ~shown.refresh => shown.guide.stage \in DOMAIN StageRole
  PROVE  IInv'
<1> DEFINE phase == IF shown.refresh THEN "both" ELSE "advance"
           call == Call("check", phase, gen + 1)
<1>1. /\ gen' = gen + 1 /\ calls' = [calls EXCEPT ![s] = call]
      /\ UNCHANGED <<serverVars, cookie, path, target, shown, queue, busy>>
  BY DEF CheckProgress, Begin
<1>2. queue = <<>> /\ IsWhole(shown) /\ (Unbroken => shown.session = cookie) /\ gen \in Nat \ {0}
  BY DEF Rendered, IInv, ShownIsSigned, TabTypes
<1>3. /\ call \in CallFields /\ call.kind = "check" /\ call.phase = phase
      /\ call.gen = gen' /\ call.cookie = cookie /\ call.guide = {} /\ call.previous = shown
  BY <1>1, <1>2, CallsAreTyped
<1>4. phase = "advance" => shown.guide.stage \in DOMAIN StageRole
  OBVIOUS
<1> HIDE DEF call, phase
<1>5. CallsAreKept'
  <2> SUFFICES ASSUME NEW t \in Slots PROVE CallIsKept(calls[t])'
    BY DEF CallsAreKept
  <2>1. calls[t] \in CallFields /\ CallIsKept(calls[t])
    BY DEF IInv, TabTypes, CallsAreKept
  <2>2. calls'[t] = IF t = s THEN call ELSE calls[t]
    BY <1>1 DEF IInv, TabTypes
  <2>3. CASE t = s
    <3>1. calls'[t] = call
      BY <2>2, <2>3
    <3> QED BY <1>1, <1>2, <1>3, <1>4, <3>1 DEF CallIsKept, IsWhole
  <2>4. CASE t # s
    <3>1. calls'[t] = calls[t] /\ calls[t].gen \in Nat /\ calls[t].gen < gen'
      BY <1>1, <1>2, <2>1, <2>2, <2>4 DEF CallIsKept, CallFields
    <3>2. IsWhole(calls[t].previous)' <=> IsWhole(calls[t].previous)
      BY <3>1 DEF IsWhole, IsBundle
    <3>3. calls[t].gen <= gen' /\ calls[t].gen # gen'
      BY <1>1, <1>2, <3>1
    <3> QED BY <2>1, <3>1, <3>2, <3>3 DEF CallIsKept
  <2> QED BY <2>3, <2>4
<1>6. ShownIsSigned' /\ QueueInOrder' /\ HeadKnowsCookie'
  BY <1>1, <1>2 DEF ShownIsSigned, QueueInOrder, HeadKnowsCookie
<1>7. TabIsKept'
  BY <1>1, <1>2, <1>3, <1>5, <1>6 DEF TabIsKept, IInv, TabTypes
<1>8. /\ ServerTypes' /\ path' \in Paths /\ target' \in Paths \cup {NoPath} /\ busy' \in BOOLEAN
  BY <1>1, ServerUntouched DEF IInv, TabTypes
<1> QED BY <1>1, <1>7, <1>8, TabStep

LEMMA PressCardStep ==
  ASSUME IInv, NEW s \in Slots, PressCard(s)
  PROVE  IInv'
<1> DEFINE at == shown.guide.stage
           role == StageRole[at]
<1>1. Rendered /\ moves' \in 0..MaxMoves
  BY MovesStep DEF PressCard
<1>2. CASE shown.refresh /\ CheckProgress(s)
  BY <1>1, <1>2, CheckProgressStep
<1>3. CASE /\ ~shown.refresh /\ at <= StageCount
           /\ \/ SwitchPersona(role, WorkboardPath(role))
              \/ OpenDestination(role, WorkPath(role))
              \/ CheckProgress(s)
  <2>1. at \in DOMAIN StageRole
    <3>1. IsWhole(shown) /\ shown \in Shown
      BY <1>1 DEF Rendered, IInv, ShownIsSigned, TabTypes
    <3> QED BY <1>3, <3>1, WholeViews, StageCounts
  <2>2. role \in Roles
    BY <2>1, GuideAssumption DEF Roles
  <2> HIDE DEF at, role
  <2>3. WorkboardPath(role) \in Paths /\ WorkPath(role) \in Paths
    BY <2>2, PathsOfRoles
  <2>4. ASSUME NEW dest \in Paths, SwitchPersona(role, dest) PROVE IInv'
    BY <1>1, <2>2, <2>4, SessionChangeStep DEF SwitchPersona
  <2>5. CASE CheckProgress(s)
    BY <1>1, <2>1, <2>5, CheckProgressStep DEF at
  <2>6. CASE /\ path' = WorkPath(role) /\ FollowPath(WorkPath(role))
             /\ UNCHANGED <<serverVars, cookie, target, busy>>
    <3>1. /\ ServerTypes' /\ target' \in Paths \cup {NoPath} /\ busy' \in BOOLEAN
      BY <2>6, ServerUntouched DEF IInv, TabTypes
    <3> QED BY <1>1, <2>3, <2>6, <3>1, FollowStep, TabStep
  <2> QED BY <1>3, <2>3, <2>4, <2>5, <2>6 DEF OpenDestination
<1> QED BY <1>2, <1>3 DEF PressCard

LEMMA ChangeRecordsStep ==
  ASSUME IInv, NEW s \in Slots, ChangeRecords(s)
  PROVE  IInv'
<1> DEFINE call == Call("refresh", "workspace", gen)
<1>1. /\ records < MaxChanges /\ records' = records + 1 /\ calls' = [calls EXCEPT ![s] = call]
      /\ UNCHANGED <<version, stage, askedAt, cookie, path, target, shown, gen, queue, busy, moves>>
  BY DEF ChangeRecords, Begin
<1>2. ServerTypes'
  BY <1>1, BoundsAssumption DEF IInv, ServerTypes
<1>3. /\ call \in CallFields /\ call.kind = "refresh" /\ call.phase = "workspace" /\ call.gen = gen
  <2>1. gen \in Nat
    BY DEF IInv, TabTypes
  <2> QED BY <2>1, CallsAreTyped
<1> HIDE DEF call
<1>4. CallIsKept(call)
  BY <1>3 DEF CallIsKept, IInv, TabTypes
<1>5. target' \in Paths \cup {NoPath}
  BY <1>1 DEF IInv, TabTypes
<1> QED BY <1>1, <1>2, <1>3, <1>4, <1>5, ContinueStep DEF Continue

LEMMA OthersResetStep ==
  ASSUME IInv, OthersReset
  PROVE  IInv'
<1>1. UNCHANGED <<cookie, path, target, shown, gen, queue, busy, calls, moves>>
  BY DEF OthersReset, tabVars
<1>2. ServerTypes'
  BY StartVersionStep DEF OthersReset, IInv
<1> QED BY <1>1, <1>2 DEF IInv, TabTypes, ShownIsSigned, QueueInOrder, HeadKnowsCookie, KnowsCookie,
                          CallsAreKept, CallIsKept

LEMMA StutterStep ==
  ASSUME IInv, UNCHANGED vars
  PROVE  IInv'
BY DEF vars, serverVars, tabVars, IInv, ServerTypes, TabTypes, ShownIsSigned, QueueInOrder,
       HeadKnowsCookie, KnowsCookie, CallsAreKept, CallIsKept

LEMMA InitIInv == Init => IInv
<1> SUFFICES ASSUME Init PROVE IInv
  OBVIOUS
<1> USE BoundsAssumption
<1>1. /\ cookie \in Sessions /\ path \in Paths /\ target = NoPath /\ shown = Loading /\ gen = 1
      /\ busy = FALSE /\ calls = [s \in Slots |-> NoCall] /\ moves = 0
  BY DEF Init, Sessions
<1>2. ServerTypes
  BY StageCounts DEF Init, ServerTypes
<1> DEFINE o == [op |-> "open", phase |-> "start", gen |-> 1, role |-> RoleFromPathname(path),
                 dest |-> NoPath, previous |-> Loading, session |-> NoSession,
                 workspace |-> {}, guide |-> {}]
<1>3. queue = <<o>>
  BY DEF Init
<1>4. o \in OperationFields
  BY <1>1, PathsOfRoles, EmptyViews DEF OperationFields, Sessions
<1>5. o.op = "open" /\ o.phase = "start" /\ o.gen = 1
  OBVIOUS
<1> HIDE DEF o
<1>6. queue \in Seq(OperationFields) /\ Len(queue) = 1 /\ DOMAIN queue = {1} /\ queue[1] = o
  BY <1>3, <1>4
<1>7. NoCall \in CallFields
  BY EmptyViews DEF NoCall, CallFields, Sessions
<1>8. TabTypes
  <2>1. calls \in [Slots -> CallFields]
    BY <1>1, <1>7
  <2>2. moves \in 0..MaxMoves /\ gen \in Nat \ {0}
    BY <1>1
  <2>3. shown \in Shown
    BY <1>1, EmptyViews
  <2>4. busy \in BOOLEAN
    BY <1>1
  <2>5. queue \in Seq(OperationFields)
    BY <1>6
  <2> QED BY <1>1, <2>1, <2>2, <2>3, <2>4, <2>5 DEF TabTypes
<1>9. ShownIsSigned /\ QueueInOrder /\ HeadKnowsCookie
  BY <1>1, <1>5, <1>6, EmptyViews DEF ShownIsSigned, QueueInOrder, HeadKnowsCookie, KnowsCookie
<1>10. CallsAreKept
  BY <1>1 DEF CallsAreKept, CallIsKept, NoCall
<1> QED BY <1>2, <1>8, <1>9, <1>10 DEF IInv

LEMMA NextIInv == IInv /\ [Next]_vars => IInv'
<1> SUFFICES ASSUME IInv, [Next]_vars PROVE IInv'
  OBVIOUS
<1>1. CASE User
  BY <1>1, NavigateStep, ReloadStep, TryAgainStep, ChangesStep, PressCardStep, ChangeRecordsStep
     DEF User
<1> QED BY <1>1, ArriveStep, OthersResetStep, RunOperationStep, RunCallStep, StutterStep DEF Next

------------------------------------------------------------------------------
(* The results.                                                            *)

LEMMA WorkspaceInvariant == Spec => []IInv
<1>1. IInv /\ [Next]_vars => IInv'
  BY NextIInv
<1> QED BY <1>1, InitIInv, PTL DEF Spec

(* Unless an answer breaks off after its headers have set the cookie, what is *)
(* rendered always belongs to the session that the cookie signs, whatever     *)
(* operations, checks, refreshes, movements of the user and resets by others  *)
(* come between.                                                              *)
THEOREM RenderedBelongsToCookie == "body" \notin Faults => (Spec => []RenderedIsSigned)
<1> SUFFICES ASSUME "body" \notin Faults PROVE Spec => []RenderedIsSigned
  OBVIOUS
<1>1. IInv => RenderedIsSigned
  BY DEF IInv, ShownIsSigned, IsWhole, RenderedIsSigned, Rendered, Unbroken
<1> QED BY <1>1, WorkspaceInvariant, PTL

(* The tab's state is typed, with no operation or call ahead of the           *)
(* generation counter.                                                        *)
THEOREM WorkspaceTypes == Spec => []TypeOK
<1>1. IInv => TypeOK
  <2> SUFFICES ASSUME IInv PROVE TypeOK
    OBVIOUS
  <2>1. \A i \in DOMAIN queue : queue[i] \in Operations
    <3> SUFFICES ASSUME NEW i \in DOMAIN queue PROVE queue[i] \in Operations
      OBVIOUS
    <3>1. queue[i] \in OperationFields
      BY DEF IInv, TabTypes
    <3>2. queue[i].gen \in 1..gen
      BY DEF IInv, QueueInOrder
    <3> QED BY <3>1, <3>2 DEF OperationFields, Operations
  <2>2. calls \in [Slots -> Calls]
    <3>1. \A s \in Slots : calls[s] \in CallFields /\ calls[s].gen <= gen
      BY DEF IInv, TabTypes, CallsAreKept, CallIsKept
    <3>2. \A s \in Slots : calls[s] \in Calls
      BY <3>1 DEF CallFields, Calls, IInv, TabTypes
    <3> QED BY <3>2 DEF IInv, TabTypes
  <2> QED BY <2>1, <2>2 DEF IInv, ServerTypes, TabTypes, TypeOK
<1> QED BY <1>1, WorkspaceInvariant, PTL
==============================================================================
