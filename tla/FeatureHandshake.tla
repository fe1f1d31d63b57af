-------------------------- MODULE FeatureHandshake --------------------------
(***************************************************************************)
(* The ProcessEvent detour around the feature registry                     *)
(* (FeatureHandshakePatch.cpp).  Every ProcessEvent call runs the detour   *)
(* on the calling thread: advertisements and travel change the registry,   *)
(* then the pending chat lines are delivered, then the retail function     *)
(* runs.  Chat lines go through the retail chat helper, which may itself   *)
(* dispatch ProcessEvent before it returns: a thread carries a stack of    *)
(* detour frames, and a new frame starts on an idle thread or inside the   *)
(* helper.  Between two calls of the helper the helpers of the detour are  *)
(* one step each.                                                          *)
(***************************************************************************)
EXTENDS FeatureRegistry, FiniteSets, Sequences

CONSTANTS
  Debug,          \* the GA_CLIENT_DEBUG build
  Threads,        \* threads that call ProcessEvent
  GameThread,     \* the thread that dispatches RPCs and travel
  NestedRpc,      \* the chat helper may dispatch RPCs and travel, not only other calls
  TickWrap,       \* GetTickCount wraps here (2^32)
  SummaryDelay,   \* kDebugJoinSummaryDelayMs
  MaxClock, MaxInstance, MaxDepth,     \* bounds of the runs
  Nothing         \* a free notice slot, a feature no status was told of

ASSUME HandshakeConstants ==
  /\ Debug \in BOOLEAN /\ NestedRpc \in BOOLEAN
  /\ GameThread \in Threads
  /\ TickWrap \in Nat /\ SummaryDelay \in Nat /\ SummaryDelay < TickWrap \div 2
  /\ MaxClock \in Nat /\ MaxInstance \in Nat /\ MaxDepth \in Nat \ {0}

VARIABLES
  chatReady,   \* the retail chat manager exists
  pending,     \* pendingMismatchNotices, one table as long as the registry's
  summary,     \* debugJoinSummary
  stack,       \* per thread: the detour frames, innermost last
  clock,       \* milliseconds; the code sees clock % TickWrap
  instance,    \* history: number of travel boundaries so far
  shown,       \* history: notices shown per slot and per instance that queued them
  told,        \* history: the last status line shown per slot since the join
  banners,     \* history: join summaries shown since the join
  due          \* history: the true time before which the summary is too early

lineVars == <<shown, told, banners>>
hsVars == <<chatReady, pending, summary, stack, clock, instance, lineVars, due>>
vars == <<regVars, hsVars>>

-----------------------------------------------------------------------------
(***************************************************************************)
(* Lines and tables.                                                       *)
(***************************************************************************)
SlotOf(id) == CHOOSE s \in Slots : Find(s, id)

Notice(slot, token, thread) ==
  [kind |-> "notice", slot |-> slot, serverRelease |-> GetFeatureRelease(token),
   clientRelease |-> entries[slot].registration.featureRelease,
   thread |-> thread, instance |-> instance]

Status(s) == <<entries[s].state, entries[s].serverRelease>>

StatusLine(s) == [kind |-> "status", slot |-> s, status |-> Status(s)]

Banner == [kind |-> "banner"]

\* The slots of a set in the order of the table.
InTableOrder(set) ==
  [k \in 1 .. Cardinality(set) |-> CHOOSE s \in set : Cardinality({r \in set : r <= s}) = k]

NoNotices == [n \in Slots |-> Nothing]
NoSummary == [pending |-> FALSE, delivered |-> FALSE, deadline |-> 0,
              thread |-> GameThread, reported |-> [s \in Slots |-> Nothing]]

\* The table keeps one pending notice per feature; a full table drops it.
QueueMismatchNotice(table, notice) ==
  IF (\E n \in Slots : table[n] # Nothing /\ table[n].slot = notice.slot)
       \/ (\A n \in Slots : table[n] # Nothing)
    THEN table
    ELSE LET free == CHOOSE n \in Slots :
                       table[n] = Nothing /\ \A m \in Slots : m < n => table[m] # Nothing
         IN  [table EXCEPT ![free] = notice]

-----------------------------------------------------------------------------
(***************************************************************************)
(* Frames.                                                                 *)
(***************************************************************************)
\* What the frame delivers next, the lines of the delivery in progress, and
\* whether the chat helper is running for the first of them.
NewFrame(next, feature) ==
  [next |-> next, feature |-> feature, out |-> <<>>, inChat |-> FALSE]

Depth(t) == Len(stack[t])
Top(t) == stack[t][Depth(t)]
WithTop(t, frame) == [stack EXCEPT ![t] = [@ EXCEPT ![Depth(t)] = frame]]

AfterNotices == IF Debug THEN "summary" ELSE "original"

Hooked == phase = "attached" /\ (Debug \/ HasRegistrations)

CanDispatch(t) ==
  /\ Hooked
  /\ Depth(t) < MaxDepth
  /\ Depth(t) > 0 => Top(t).inChat

CanDispatchRpc(t) ==
  CanDispatch(t) /\ t = GameThread /\ (Depth(t) > 0 => NestedRpc)

Push(t, frame) == stack' = [stack EXCEPT ![t] = Append(@, frame)]

-----------------------------------------------------------------------------
(***************************************************************************)
(* The start of a call, by the function it dispatches.                     *)
(***************************************************************************)
\* ClientCapBandwidth with a reserved value: consumed whatever the outcome.
ServerToken(t, token) ==
  /\ CanDispatchRpc(t)
  /\ HandleServerToken(token)
  /\ LET id == GetFeatureId(token) IN
     pending' = IF Known(id) /\ ShouldNotifyUser(SlotOf(id), token)
                  THEN QueueMismatchNotice(pending, Notice(SlotOf(id), token, t))
                  ELSE pending
  /\ Push(t, NewFrame(IF Debug THEN "update" ELSE "notices", GetFeatureId(token)))
  /\ UNCHANGED <<chatReady, summary, clock, instance, lineVars, due>>

\* Deliberate fault, used by no specification: travel leaves the pending table.
BoundaryKeepsPending(t) ==
  /\ CanDispatchRpc(t)
  /\ instance < MaxInstance
  /\ instance' = instance + 1
  /\ Reset
  /\ Push(t, NewFrame("notices", 0))
  /\ told' = [s \in Slots |-> Nothing]
  /\ banners' = 0
  /\ UNCHANGED <<chatReady, pending, clock, shown>>

\* ClientTravel, PreClientTravel and ReceivedPlayer: the instance ends.
InstanceBoundary(t) ==
  /\ CanDispatchRpc(t)
  /\ instance < MaxInstance
  /\ instance' = instance + 1
  /\ pending' = NoNotices
  /\ Reset
  /\ Push(t, NewFrame("notices", 0))
  /\ told' = [s \in Slots |-> Nothing]
  /\ banners' = 0
  /\ UNCHANGED <<chatReady, clock, shown>>

ClientTravel(t) ==
  /\ InstanceBoundary(t)
  /\ summary' = NoSummary
  /\ UNCHANGED due

ScheduleDebugJoinSummary(t) ==
  [NoSummary EXCEPT !.pending = TRUE, !.thread = t,
                    !.deadline = (clock + SummaryDelay) % TickWrap]

ReceivedPlayer(t) ==
  /\ InstanceBoundary(t)
  /\ summary' = IF Debug THEN ScheduleDebugJoinSummary(t) ELSE summary
  /\ due' = IF Debug THEN clock + SummaryDelay ELSE due

\* Any other function, an ordinary ClientCapBandwidth value included.
OtherCall(t) ==
  /\ CanDispatch(t)
  /\ Push(t, NewFrame("notices", 0))
  /\ UNCHANGED <<regVars, chatReady, pending, summary, clock, instance, lineVars, due>>

-----------------------------------------------------------------------------
(***************************************************************************)
(* Delivery.                                                               *)
(***************************************************************************)
AtStage(t, stage) ==
  Depth(t) > 0 /\ Top(t).out = <<>> /\ Top(t).next = stage

Deliver(t, lines, next) ==
  stack' = WithTop(t, [Top(t) EXCEPT !.out = lines, !.next = next])

\* Deliberate fault, used by no specification: compares the state alone.
MayUpdateOnState(t, s) ==
  /\ summary.delivered
  /\ summary.thread = t
  /\ Find(s, Top(t).feature)
  /\ summary.reported[s] = Nothing \/ summary.reported[s][1] # Status(s)[1]
  /\ chatReady

\* DeliverDebugFeatureUpdate: a line only when the status differs from the
\* one the user was last told.
MayUpdate(t, s) ==
  /\ summary.delivered
  /\ summary.thread = t
  /\ Find(s, Top(t).feature)
  /\ summary.reported[s] # Status(s)
  /\ chatReady

DeliverDebugFeatureUpdate(t) ==
  /\ AtStage(t, "update")
  /\ \/ \E s \in Slots :
          /\ MayUpdate(t, s)
          /\ summary' = [summary EXCEPT !.reported[s] = Status(s)]
          /\ Deliver(t, <<StatusLine(s)>>, "notices")
     \/ /\ ~\E s \in Slots : MayUpdate(t, s)
        /\ Deliver(t, <<>>, "notices")
        /\ UNCHANGED summary
  /\ UNCHANGED <<regVars, chatReady, pending, clock, instance, lineVars, due>>

\* DeliverPendingMismatchNotices: every notice this thread queued leaves the
\* table before the first one enters the chat helper.
Ready(t, notice) == notice # Nothing /\ notice.thread = t

ReadyNotices(t) ==
  LET ready == InTableOrder({n \in Slots : Ready(t, pending[n])})
  IN  [k \in DOMAIN ready |-> pending[ready[k]]]

\* Deliberate fault, used by no specification: notices leave the table only one call later.
NothingRemoved(t) == pending

RemainingNotices(t) ==
  [n \in Slots |-> IF Ready(t, pending[n]) THEN Nothing ELSE pending[n]]

\* Deliberate fault, used by no specification: empties the table before the chat exists.
DropWithoutChat(t) ==
  /\ AtStage(t, "notices")
  /\ Deliver(t, IF chatReady THEN ReadyNotices(t) ELSE <<>>, AfterNotices)
  /\ pending' = RemainingNotices(t)
  /\ UNCHANGED <<regVars, chatReady, summary, clock, instance, lineVars, due>>

DeliverPendingMismatchNotices(t) ==
  /\ AtStage(t, "notices")
  /\ IF chatReady
       THEN /\ Deliver(t, ReadyNotices(t), AfterNotices)
            /\ pending' = RemainingNotices(t)
       ELSE /\ Deliver(t, <<>>, AfterNotices)
            /\ UNCHANGED pending
  /\ UNCHANGED <<regVars, chatReady, summary, clock, instance, lineVars, due>>

\* Deliberate fault, used by no specification: compares tick counts as plain numbers.
PlainDeadline == clock % TickWrap >= summary.deadline

\* The signed 32-bit difference of tick count and deadline is not negative.
DeadlineReached == (clock - summary.deadline) % TickWrap < TickWrap \div 2

SummaryDue(t) ==
  summary.pending /\ summary.thread = t /\ DeadlineReached /\ chatReady

SummaryLines ==
  LET slots == InTableOrder({s \in Slots : entries[s].used})
  IN  <<Banner>> \o [k \in DOMAIN slots |-> StatusLine(slots[k])]

\* Deliberate fault, used by no specification: stays pending while the lines are sent.
SummaryStaysPending ==
  [summary EXCEPT !.delivered = TRUE,
                  !.reported = [s \in Slots |-> IF entries[s].used THEN Status(s) ELSE @[s]]]

SummaryAfterDelivery ==
  [summary EXCEPT !.pending = FALSE, !.delivered = TRUE,
                  !.reported = [s \in Slots |-> IF entries[s].used THEN Status(s) ELSE @[s]]]

DeliverDebugJoinSummary(t) ==
  /\ AtStage(t, "summary")
  /\ IF SummaryDue(t)
       THEN Deliver(t, SummaryLines, "original") /\ summary' = SummaryAfterDelivery
       ELSE Deliver(t, <<>>, "original") /\ UNCHANGED summary
  /\ UNCHANGED <<regVars, chatReady, pending, clock, instance, lineVars, due>>

\* CallOriginal, or the early return of a consumed token.  The frame has no
\* work left, so a call the retail function makes is one of its caller's.
FinishCall(t) ==
  /\ AtStage(t, "original")
  /\ stack' = [stack EXCEPT ![t] = SubSeq(@, 1, Depth(t) - 1)]
  /\ UNCHANGED <<regVars, chatReady, pending, summary, clock, instance, lineVars, due>>

-----------------------------------------------------------------------------
(***************************************************************************)
(* The retail side: the chat helper and the clock.                         *)
(***************************************************************************)
Record(line) ==
  CASE line.kind = "notice" ->
         /\ shown' = [shown EXCEPT ![<<line.slot, line.instance>>] = @ + 1]
         /\ UNCHANGED <<told, banners>>
    [] line.kind = "status" ->
         /\ told' = [told EXCEPT ![line.slot] = line.status]
         /\ UNCHANGED <<shown, banners>>
    [] line.kind = "banner" -> banners' = banners + 1 /\ UNCHANGED <<shown, told>>

QueueChatMessage(t) ==
  /\ Depth(t) > 0 /\ Top(t).out # <<>> /\ ~Top(t).inChat
  /\ Record(Head(Top(t).out))
  /\ stack' = WithTop(t, [Top(t) EXCEPT !.inChat = TRUE])
  /\ UNCHANGED <<regVars, chatReady, pending, summary, clock, instance, due>>

ChatReturns(t) ==
  /\ Depth(t) > 0 /\ Top(t).inChat
  /\ stack' = WithTop(t, [Top(t) EXCEPT !.inChat = FALSE, !.out = Tail(@)])
  /\ UNCHANGED <<regVars, chatReady, pending, summary, clock, instance, lineVars, due>>

ChatManagerCreated ==
  /\ ~chatReady
  /\ chatReady' = TRUE
  /\ UNCHANGED <<regVars, pending, summary, stack, clock, instance, lineVars, due>>

ClockAdvances ==
  /\ clock < MaxClock
  /\ clock' = clock + 1
  /\ UNCHANGED <<regVars, chatReady, pending, summary, stack, instance, lineVars, due>>

Startup ==
  /\ FinishRegistration \/ \E reg \in Registrations : Register(reg)
  /\ UNCHANGED hsVars

-----------------------------------------------------------------------------
Init ==
  /\ RegInit
  /\ chatReady \in BOOLEAN
  /\ pending = NoNotices
  /\ summary = NoSummary
  /\ stack = [t \in Threads |-> <<>>]
  /\ clock = 0
  /\ instance = 0
  /\ shown = [k \in Slots \X (0 .. MaxInstance) |-> 0]
  /\ told = [s \in Slots |-> Nothing]
  /\ banners = 0
  /\ due = 0

FrameStep(t) ==
  \/ DeliverDebugFeatureUpdate(t)
  \/ DeliverPendingMismatchNotices(t)
  \/ DeliverDebugJoinSummary(t)
  \/ FinishCall(t)
  \/ QueueChatMessage(t)

Next ==
  \/ Startup
  \/ \E t \in Threads, token \in Tokens : ServerToken(t, token)
  \/ \E t \in Threads :
       ClientTravel(t) \/ ReceivedPlayer(t) \/ OtherCall(t) \/ FrameStep(t) \/ ChatReturns(t)
  \/ ChatManagerCreated
  \/ ClockAdvances

Spec == Init /\ [][Next]_vars

-----------------------------------------------------------------------------
(***************************************************************************)
(* Properties.                                                             *)
(***************************************************************************)
NoticeType ==
  [kind : {"notice"}, slot : Slots, serverRelease : FeatureRelease,
   clientRelease : FeatureRelease, thread : Threads, instance : Nat]

StatusType == FeatureState \X FeatureRelease

LineType ==
  NoticeType \cup [kind : {"status"}, slot : Slots, status : StatusType] \cup {Banner}

FrameType ==
  [next : {"update", "notices", "summary", "original"}, feature : FeatureId,
   out : Seq(LineType), inChat : BOOLEAN]

SummaryType ==
  [pending : BOOLEAN, delivered : BOOLEAN, deadline : Nat, thread : Threads,
   reported : [Slots -> StatusType \cup {Nothing}]]

\* Every variable of the detour has its type, the registry's included.
HandshakeTypeOK ==
  /\ RegTypeOK
  /\ chatReady \in BOOLEAN
  /\ pending \in [Slots -> NoticeType \cup {Nothing}]
  /\ summary \in SummaryType
  /\ stack \in [Threads -> Seq(FrameType)]
  /\ clock \in Nat /\ instance \in Nat /\ due \in Nat /\ banners \in Nat
  /\ told \in [Slots -> StatusType \cup {Nothing}]

\* A notice waiting in the table is about the current server instance, was
\* asked for by the registry, and names two different releases: a travel
\* boundary leaves no notice of the previous server to be delivered later.  A
\* feature whose notice was not asked for yet finds room in the table: the
\* "queue full" branch of the detour is never taken.
PendingIsCurrent ==
  /\ \A n \in Slots :
       pending[n] # Nothing =>
         /\ pending[n].instance = instance
         /\ entries[pending[n].slot].mismatchNoticeIssued
         /\ pending[n].serverRelease # pending[n].clientRelease
         /\ pending[n].clientRelease = entries[pending[n].slot].registration.featureRelease
  /\ \A s \in Slots :
       entries[s].used /\ ~entries[s].mismatchNoticeIssued =>
         \E n \in Slots : pending[n] = Nothing

\* "One local notice per feature until the next Reset": whatever the server
\* repeats and however the chat helper re-enters the detour, no feature's
\* mismatch notice is shown twice for one server instance.
OneNoticePerInstance ==
  \A k \in DOMAIN shown : shown[k] <= 1

\* Chat state belongs to the thread that received the RPC: no other caller of
\* ProcessEvent ever shows a mismatch notice or a line of the summary.
ChatOnGameThreadOnly ==
  \A t \in Threads : t # GameThread =>
    \A d \in 1 .. Depth(t) : stack[t][d].out = <<>>

\* A join is summarised at most once, although the chat helper re-enters the
\* detour between the lines of the summary.
OneSummaryPerJoin == banners <= 1

\* The grace period holds across the wrap of the tick count: no summary is
\* delivered less than SummaryDelay after the join.
SummaryNotEarly == summary.delivered => clock >= due

\* Once the summary is out and the game thread is back outside the detour,
\* the last status line the user saw of each feature is its present status: a
\* later advertisement corrects the summary.
StatusToldIsCurrent ==
  summary.delivered /\ Depth(GameThread) = 0 =>
    \A s \in Slots : entries[s].used => told[s] = Status(s)

\* The two ends of the liveness property of the runs: a notice of instance i
\* waits, and it was shown or a travel ended its instance.
Waiting(s, i) ==
  \E n \in Slots : pending[n] # Nothing /\ pending[n].slot = s /\ pending[n].instance = i

Settled(s, i) ==
  instance # i \/ \E k \in DOMAIN shown : k = <<s, i>> /\ shown[k] = 1
=============================================================================
