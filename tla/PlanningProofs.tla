----------------------------- MODULE PlanningProofs -----------------------------
(***************************************************************************)
(* The approval gate holds for any number of posts, channels, times and    *)
(* overlapping requests, for the agents the policy holds back: those with  *)
(* a key of the table api_keys, not those with a static key.               *)
(***************************************************************************)
EXTENDS Planning, FiniteSetTheorems, TLAPS

\* An input that makes a post scheduled, or approved for later scheduling.
Plans(input) == input.status = "scheduled" \/ input.planningApproved = "yes"

\* A request about to write such an input was not held back when it was read, or
\* concerns a post that has been cleared before: a policy that is switched on, or
\* a post that changes, after the request was read does not matter, because
\* nothing is ever taken from cleared.
RequestOK(s, planned) ==
    /\ s.pc \in {"insert", "update"} => s.input \in Input
    /\ s.pc = "insert" /\ Plans(s.input) => s.clears
    /\ s.pc = "update" /\ Plans(s.input) => s.clears \/ s.todo \subseteq planned

\* planning_approved lets an agent reschedule a post, so it has to be as
\* well-founded as the status.
ApprovedIsCleared ==
    \A p \in PostIds : Exists(p) /\ posts[p].planningApproved => p \in cleared

GateInv == ApprovalGate /\ ApprovedIsCleared

RequestsOK == \A h \in Handlers : RequestOK(requests[h], cleared)

IInv == TypeOK /\ GateInv /\ RequestsOK

-------------------------------------------------------------------------------
(***************************************************************************)
(* Inputs and requests.                                                    *)
(***************************************************************************)
LEMMA PlainInput ==
    ASSUME NEW status \in PostStatus, NEW at \in MaybeMoments
    PROVE  /\ Plain(status, at) \in Input
           /\ Plans(Plain(status, at)) => status = "scheduled"
  BY DEF Plain, Input, Flag, Plans

\* What maybeMarkForPlanningApproval lets through is cleared now or was before.
LEMMA MarkedInput ==
    ASSUME NEW status \in PostStatus, NEW at \in MaybeMoments,
           NEW auth \in Auth, NEW known \in BOOLEAN, NEW approved \in BOOLEAN
    PROVE  /\ Marked(Plain(status, at), auth, known, approved) \in Input
           /\ Plans(Marked(Plain(status, at), auth, known, approved)) =>
                 Clears(status, auth) \/ (known /\ approved)
  BY DEF Marked, Plain, Input, Flag, PostStatus, Plans, Clears

LEMMA IdleRequest ==
    ASSUME NEW planned
    PROVE  NoRequest \in Request /\ RequestOK(NoRequest, planned)
  BY DEF NoRequest, Request, RequestOK

\* A step that changes one request, and the tables within the invariant.
LEMMA OneRequestStep ==
    ASSUME TypeOK, RequestsOK, StoreTypeOK', GateInv',
           NEW h \in Handlers, NEW r \in Request, RequestOK(r, cleared'),
           requests' = [requests EXCEPT ![h] = r],
           cleared \subseteq cleared', cleared' \subseteq PostIds,
           UNCHANGED acceptBeforePlanning, lastId' \in Nat, begun' \in Nat
    PROVE  IInv'
  <1>1. TypeOK'
    BY DEF TypeOK
  <1>2. ASSUME NEW g \in Handlers PROVE RequestOK(requests[g], cleared)'
    <2>1. CASE g = h
      BY <2>1 DEF TypeOK
    <2>2. CASE g # h
      BY <2>2 DEF TypeOK, RequestsOK, RequestOK
    <2> QED BY <2>1, <2>2
  <1> QED BY <1>1, <1>2 DEF IInv, RequestsOK

LEMMA BeginStep ==
    ASSUME IInv, NEW h \in Handlers, NEW r \in Request, RequestOK(r, cleared), Begin(h, r)
    PROVE  IInv'
  <1>1. StoreTypeOK' /\ GateInv' /\ RequestOK(r, cleared')
    BY DEF IInv, TypeOK, StoreTypeOK, storeVars, Begin, GateInv, ApprovalGate,
           ApprovedIsCleared, Exists, RequestOK
  <1>2. requests' = [requests EXCEPT ![h] = r] /\ begun' \in Nat
    BY DEF IInv, TypeOK, Begin
  <1> QED BY <1>1, <1>2, OneRequestStep DEF IInv, TypeOK, Begin

\* A step that touches no request.
LEMMA NoRequestStep ==
    ASSUME TypeOK, RequestsOK, StoreTypeOK', GateInv',
           UNCHANGED requests,
           cleared \subseteq cleared', cleared' \subseteq PostIds,
           acceptBeforePlanning' \in BOOLEAN, lastId' \in Nat, begun' \in Nat
    PROVE  IInv'
  BY DEF IInv, TypeOK, RequestsOK, RequestOK

\* Tables that keep their posts, or lose one, stay within the invariant.
LEMMA FewerPosts ==
    ASSUME GateInv, cleared' = cleared,
           \A p \in PostIds : posts'[p] = posts[p] \/ posts'[p] = Null
    PROVE  GateInv'
  BY DEF GateInv, ApprovalGate, ApprovedIsCleared, Exists

LEMMA DeletedType ==
    ASSUME StoreTypeOK, NEW p \in PostIds, DeletePost(p), UNCHANGED <<now, channels>>
    PROVE  /\ StoreTypeOK'
           /\ \A q \in PostIds : posts'[q] = posts[q] \/ posts'[q] = Null
  <1>1. attempts' \subseteq attempts /\ IsFiniteSet(attempts')
    BY FS_Subset DEF DeletePost, StoreTypeOK
  <1> QED BY <1>1 DEF StoreTypeOK, DeletePost

-------------------------------------------------------------------------------
(***************************************************************************)
(* Requests that begin.                                                    *)
(***************************************************************************)
\* A handler that writes what it has parsed, whoever sent it.
LEMMA WriterBegins ==
    ASSUME IInv, NEW h \in Handlers, NEW r \in Request, r.input \in Input,
           Plans(r.input) => r.clears \/ (r.pc = "update" /\ r.todo \subseteq cleared),
           r.pc \in {"insert", "update"}, Begin(h, r)
    PROVE  IInv'
  <1>1. RequestOK(r, cleared)
    BY DEF RequestOK
  <1> QED BY <1>1, BeginStep

LEMMA CreateStep ==
    ASSUME IInv, NEW h \in Handlers, NEW status \in {"draft", "scheduled"},
           NEW at \in Times, NEW chans \in SUBSET ChannelIds,
           CreatePost(h, status, at, chans)
    PROVE  IInv'
  <1>1. Plain(status, at) \in Input
        /\ (Plans(Plain(status, at)) => status = "scheduled")
    BY PlainInput, PlanningAssumption DEF PostStatus
  <1>2. PICK r : Begin(h, r)
           /\ r = [NoRequest EXCEPT !.pc = "insert", !.kind = "create",
                     !.channels = chans, !.clears = (status = "scheduled"),
                     !.input = Plain(status, at)]
    BY DEF CreatePost
  <1>3. /\ r \in Request /\ r.input = Plain(status, at) /\ r.pc = "insert"
        /\ r.clears = (status = "scheduled")
    BY <1>1, <1>2 DEF NoRequest, Request
  <1> QED BY <1>1, <1>2, <1>3, WriterBegins

LEMMA APICreateStep ==
    ASSUME IInv, NEW h \in Handlers, NEW auth \in Auth,
           NEW status \in {"draft", "scheduled"}, NEW at \in Times,
           NEW chans \in SUBSET ChannelIds, APICreatePost(h, auth, status, at, chans)
    PROVE  IInv'
  <1> DEFINE input == Marked(Plain(status, at), auth, FALSE, FALSE)
  <1>1. input \in Input /\ (Plans(input) => Clears(status, auth))
    BY MarkedInput, PlanningAssumption DEF PostStatus
  <1>2. PICK r : Begin(h, r)
           /\ r = [NoRequest EXCEPT !.pc = "insert", !.kind = "create",
                     !.channels = chans, !.clears = Clears(status, auth),
                     !.input = input]
    BY DEF APICreatePost
  <1> HIDE DEF input
  <1>3. Clears(status, auth) \in BOOLEAN
    BY DEF Clears
  <1>4. /\ r \in Request /\ r.input = input /\ r.pc = "insert"
        /\ r.clears = Clears(status, auth)
    BY <1>1, <1>2, <1>3 DEF NoRequest, Request
  <1> QED BY <1>1, <1>2, <1>4, WriterBegins

LEMMA UpdateStep ==
    ASSUME IInv, NEW h \in Handlers, NEW p \in PostIds,
           NEW status \in {"draft", "scheduled"}, NEW at \in Times,
           NEW chans \in SUBSET ChannelIds, UpdatePost(h, p, status, at, chans)
    PROVE  IInv'
  <1>1. Plain(status, at) \in Input
        /\ (Plans(Plain(status, at)) => status = "scheduled")
    BY PlainInput, PlanningAssumption DEF PostStatus
  <1>2. PICK r : Begin(h, r)
           /\ r = [NoRequest EXCEPT !.pc = "update", !.kind = "update",
                     !.todo = {p}, !.channels = chans,
                     !.clears = (status = "scheduled"), !.input = Plain(status, at)]
    BY DEF UpdatePost
  <1>3. /\ r \in Request /\ r.input = Plain(status, at) /\ r.pc = "update"
        /\ r.clears = (status = "scheduled")
    BY <1>1, <1>2 DEF NoRequest, Request
  <1> QED BY <1>1, <1>2, <1>3, WriterBegins

\* The input APIUpdatePost and APIReschedulePost have for a post.
LEMMA ReadInput ==
    ASSUME IInv, NEW p \in PostIds, NEW auth \in Auth, Exists(p),
           NEW status \in PostStatus, NEW at \in MaybeMoments
    PROVE  LET input == Marked(Plain(status, at), auth, TRUE,
                               posts[p].planningApproved)
           IN /\ input \in Input
              /\ Plans(input) => Clears(status, auth) \/ {p} \subseteq cleared
  <1>1. posts[p] \in PostRow
    BY DEF IInv, TypeOK, StoreTypeOK, Exists
  <1>2. posts[p].planningApproved \in BOOLEAN
    BY <1>1 DEF PostRow
  <1>3. posts[p].planningApproved => p \in cleared
    BY DEF IInv, GateInv, ApprovedIsCleared
  <1> QED BY <1>2, <1>3, MarkedInput

LEMMA APIUpdateStep ==
    ASSUME IInv, NEW h \in Handlers, NEW auth \in Auth, NEW p \in PostIds,
           NEW status \in {"draft", "scheduled"}, NEW at \in Times,
           NEW chans \in SUBSET ChannelIds, APIUpdatePost(h, auth, p, status, at, chans)
    PROVE  IInv'
  <1> DEFINE input == Marked(Plain(status, at), auth, TRUE, posts[p].planningApproved)
  <1>1. PICK r : Begin(h, r)
           /\ r = [NoRequest EXCEPT !.pc = "update", !.kind = "update",
                     !.todo = {p}, !.channels = chans,
                     !.clears = Clears(status, auth), !.input = input]
    BY DEF APIUpdatePost
  <1>2. input \in Input /\ (Plans(input) => Clears(status, auth) \/ {p} \subseteq cleared)
    BY ReadInput, PlanningAssumption DEF PostStatus, APIUpdatePost
  <1> HIDE DEF input
  <1>3. Clears(status, auth) \in BOOLEAN
    BY DEF Clears
  <1>4. /\ r \in Request /\ r.input = input /\ r.pc = "update"
        /\ r.clears = Clears(status, auth) /\ r.todo = {p}
    BY <1>1, <1>2, <1>3 DEF NoRequest, Request
  <1> QED BY <1>1, <1>2, <1>4, WriterBegins

LEMMA RescheduleStep ==
    ASSUME IInv, NEW h \in Handlers, NEW p \in PostIds, NEW at \in Times,
           ReschedulePost(h, p, at)
    PROVE  IInv'
  <1>1. Plain("scheduled", at) \in Input
    BY PlainInput, PlanningAssumption DEF PostStatus
  <1>2. PICK r : Begin(h, r)
           /\ r = [NoRequest EXCEPT !.pc = "update", !.kind = "reschedule",
                     !.todo = {p}, !.clears = TRUE, !.input = Plain("scheduled", at)]
    BY DEF ReschedulePost
  <1>3. /\ r \in Request /\ r.input = Plain("scheduled", at) /\ r.pc = "update"
        /\ r.clears
    BY <1>1, <1>2 DEF NoRequest, Request
  <1> QED BY <1>1, <1>2, <1>3, WriterBegins

LEMMA APIRescheduleStep ==
    ASSUME IInv, NEW h \in Handlers, NEW auth \in Auth, NEW p \in PostIds,
           NEW at \in Times, APIReschedulePost(h, auth, p, at)
    PROVE  IInv'
  <1> DEFINE input == Marked(Plain("scheduled", at), auth, TRUE,
                             posts[p].planningApproved)
  <1>1. PICK r : Begin(h, r)
           /\ r = [NoRequest EXCEPT !.pc = "update", !.kind = "reschedule",
                     !.todo = {p}, !.clears = Clears("scheduled", auth),
                     !.input = input]
    BY DEF APIReschedulePost
  <1>2. input \in Input
        /\ (Plans(input) => Clears("scheduled", auth) \/ {p} \subseteq cleared)
    BY ReadInput, PlanningAssumption DEF PostStatus, APIReschedulePost
  <1> HIDE DEF input
  <1>3. Clears("scheduled", auth) \in BOOLEAN
    BY DEF Clears
  <1>4. /\ r \in Request /\ r.input = input /\ r.pc = "update"
        /\ r.clears = Clears("scheduled", auth) /\ r.todo = {p}
    BY <1>1, <1>2, <1>3 DEF NoRequest, Request
  <1> QED BY <1>1, <1>2, <1>4, WriterBegins

LEMMA AcceptStep ==
    ASSUME IInv, NEW h \in Handlers, NEW p \in PostIds, AcceptPostPlanning(h, p)
    PROVE  IInv'
  <1> DEFINE r == [NoRequest EXCEPT !.pc = "accept", !.kind = "accept",
                                    !.todo = {p}, !.clears = TRUE]
  <1>1. Begin(h, r)
    BY DEF AcceptPostPlanning
  <1>2. r \in Request /\ RequestOK(r, cleared)
    BY DEF NoRequest, Request, RequestOK
  <1> QED BY <1>1, <1>2, BeginStep

LEMMA BulkStep ==
    ASSUME IInv, NEW h \in Handlers, NEW ps \in SUBSET PostIds,
           NEW chans \in SUBSET ChannelIds, BulkSetPostChannels(h, ps, chans)
    PROVE  IInv'
  <1> DEFINE r == [NoRequest EXCEPT !.pc = "channels", !.kind = "bulk",
                                    !.todo = ps, !.channels = chans]
  <1>1. Begin(h, r)
    BY DEF BulkSetPostChannels
  <1>2. r \in Request /\ RequestOK(r, cleared)
    BY DEF NoRequest, Request, RequestOK
  <1> QED BY <1>1, <1>2, BeginStep

-------------------------------------------------------------------------------
(***************************************************************************)
(* Statements of requests in progress.                                     *)
(***************************************************************************)
LEMMA InsertStep ==
    ASSUME IInv, NEW h \in Handlers, InsertPost(h)
    PROVE  IInv'
  <1> DEFINE s == requests[h]
             p == lastId + 1
             row == [status |-> s.input.status, scheduledAt |-> s.input.scheduledAt,
                     nextRetryAt |-> Null, failCount |-> 0,
                     approvalPending |-> FlagOr(s.input.approvalPending, FALSE),
                     planningApproved |-> FlagOr(s.input.planningApproved, FALSE)]
             t == [s EXCEPT !.pc = "channels", !.todo = {p}]
  <1>1. /\ s.pc = "insert" /\ p \in PostIds
        /\ posts' = [posts EXCEPT ![p] = row]
        /\ cleared' = IF s.clears THEN cleared \cup {p} ELSE cleared
        /\ requests' = [requests EXCEPT ![h] = t]
        /\ UNCHANGED <<now, postChannels, channels, attempts,
                       acceptBeforePlanning, begun>>
        /\ lastId' = p
    BY DEF InsertPost
  <1>2. s \in Request /\ s.input \in Input /\ (Plans(s.input) => s.clears)
    BY <1>1 DEF IInv, TypeOK, RequestsOK, RequestOK
  <1>3. t \in Request /\ RequestOK(t, cleared')
    BY <1>1, <1>2 DEF Request, RequestOK
  <1>4. row \in PostRow
    BY <1>2 DEF Input, PostRow, FlagOr, MaybeMoments
  <1>5. StoreTypeOK'
    BY <1>1, <1>4 DEF IInv, TypeOK, StoreTypeOK
  <1>6. row.status = "scheduled" \/ row.planningApproved => p \in cleared'
    BY <1>1, <1>2 DEF Plans, FlagOr
  <1>7. cleared \subseteq cleared' /\ cleared' \subseteq PostIds /\ lastId' \in Nat
    BY <1>1 DEF IInv, TypeOK
  <1> HIDE DEF s, row, t
  <1>8. GateInv'
    <2>1. ASSUME NEW q \in PostIds, Exists(q)',
                 posts'[q].status = "scheduled" \/ posts'[q].planningApproved,
                 posts'[q].status = "scheduled" /\ ~posts'[q].planningApproved =>
                     ~posts'[q].approvalPending
          PROVE  q \in cleared'
      <3>1. CASE q = p
        BY <1>1, <1>6, <2>1, <3>1 DEF IInv, TypeOK, StoreTypeOK
      <3>2. CASE q # p
        <4>1. posts'[q] = posts[q]
          BY <1>1, <3>2 DEF IInv, TypeOK, StoreTypeOK
        <4> QED BY <1>7, <2>1, <4>1 DEF IInv, GateInv, ApprovalGate,
                                        ApprovedIsCleared, Exists
      <3> QED BY <3>1, <3>2
    <2> QED BY <2>1 DEF GateInv, ApprovalGate, ApprovedIsCleared
  <1> QED BY <1>1, <1>3, <1>5, <1>7, <1>8, OneRequestStep DEF IInv, TypeOK

\* An UPDATE of one row: what it has to satisfy for the gate to hold.
LEMMA RowUpdated ==
    ASSUME IInv, NEW p \in PostIds, NEW row \in PostRow,
           posts' = [posts EXCEPT ![p] = row],
           cleared \subseteq cleared', cleared' \subseteq PostIds,
           row.status = "scheduled" /\ ~row.approvalPending => p \in cleared',
           row.planningApproved => p \in cleared',
           UNCHANGED <<now, postChannels, channels, attempts>>
    PROVE  StoreTypeOK' /\ GateInv'
  <1>1. StoreTypeOK'
    BY DEF IInv, TypeOK, StoreTypeOK
  <1>2. \A q \in PostIds : posts'[q] = IF q = p THEN row ELSE posts[q]
    BY DEF IInv, TypeOK, StoreTypeOK
  <1> QED BY <1>1, <1>2 DEF IInv, GateInv, ApprovalGate, ApprovedIsCleared, Exists

LEMMA WriteStep ==
    ASSUME IInv, NEW h \in Handlers, WritePost(h)
    PROVE  IInv'
  <1> DEFINE s == requests[h]
  <1>1. s \in Request /\ s.pc = "update" /\ s.input \in Input
    BY DEF WritePost, IInv, TypeOK, RequestsOK, RequestOK
  <1>2. Plans(s.input) => s.clears \/ s.todo \subseteq cleared
    BY <1>1 DEF IInv, RequestsOK, RequestOK
  <1>3. UNCHANGED <<now, postChannels, channels, attempts>>
    BY DEF WritePost
  <1>4. PICK p \in s.todo :
          IF Exists(p)
          THEN /\ posts' = [posts EXCEPT ![p] = Updated(posts[p], s.input)]
               /\ cleared' = IF s.clears THEN cleared \cup {p} ELSE cleared
               /\ Continue(h, IF s.kind = "update"
                              THEN [s EXCEPT !.pc = "channels"] ELSE NoRequest)
          ELSE /\ UNCHANGED <<posts, cleared>>
               /\ Continue(h, NoRequest)
    BY DEF WritePost
  <1>5. p \in PostIds
    BY <1>1 DEF Request
  <1> HIDE DEF s
  <1>6. CASE Exists(p)
    <2> DEFINE row == Updated(posts[p], s.input)
               r == IF s.kind = "update" THEN [s EXCEPT !.pc = "channels"] ELSE NoRequest
    <2>1. posts[p] \in PostRow
      BY <1>5, <1>6 DEF IInv, TypeOK, StoreTypeOK, Exists
    <2>2. row \in PostRow
      BY <1>1, <2>1 DEF PostRow, Input, FlagOr, Updated
    <2>3. cleared \subseteq cleared' /\ cleared' \subseteq PostIds
      BY <1>4, <1>5, <1>6 DEF IInv, TypeOK
    <2>4. row.status = "scheduled" => p \in cleared'
      BY <1>2, <1>4, <1>6, <2>1 DEF Plans, PostRow, Updated
    <2>5. row.planningApproved => p \in cleared'
      <3>1. posts[p].planningApproved => p \in cleared
        BY <1>5, <1>6 DEF IInv, GateInv, ApprovedIsCleared
      <3>2. row.planningApproved = FlagOr(s.input.planningApproved,
                                          posts[p].planningApproved)
        BY <2>1 DEF PostRow, Updated
      <3> QED BY <1>2, <1>4, <1>6, <3>1, <3>2 DEF Plans, FlagOr
    <2>6. r \in Request /\ RequestOK(r, cleared')
      BY <1>1, IdleRequest DEF Request, RequestOK
    <2>7. posts' = [posts EXCEPT ![p] = row] /\ Continue(h, r)
      BY <1>4, <1>6
    <2> HIDE DEF row, r
    <2>8. StoreTypeOK' /\ GateInv'
      BY <1>3, <1>5, <2>2, <2>3, <2>4, <2>5, <2>7, RowUpdated
    <2> QED BY <2>3, <2>6, <2>7, <2>8, OneRequestStep DEF IInv, TypeOK, Continue
  <1>7. CASE ~Exists(p)
    <2>1. UNCHANGED <<posts, cleared>> /\ Continue(h, NoRequest)
      BY <1>4, <1>7
    <2>2. StoreTypeOK' /\ GateInv'
      BY <1>3, <2>1, FewerPosts DEF IInv, TypeOK, StoreTypeOK
    <2> QED BY <2>1, <2>2, IdleRequest, OneRequestStep
            DEF IInv, TypeOK, Continue
  <1> QED BY <1>6, <1>7

LEMMA WriteAcceptedStep ==
    ASSUME IInv, NEW h \in Handlers, WriteAccepted(h)
    PROVE  IInv'
  <1>1. PICK p \in requests[h].todo :
          IF Exists(p)
          THEN /\ posts' = [posts EXCEPT ![p] = [posts[p] EXCEPT
                     !.status = "scheduled", !.approvalPending = FALSE,
                     !.planningApproved = TRUE]]
               /\ cleared' = cleared \cup {p}
          ELSE UNCHANGED <<posts, cleared>>
    BY DEF WriteAccepted
  <1>2. Continue(h, NoRequest) /\ UNCHANGED <<now, postChannels, channels, attempts>>
    BY DEF WriteAccepted
  <1>3. p \in PostIds
    BY DEF IInv, TypeOK, Request
  <1>4. /\ StoreTypeOK' /\ GateInv'
        /\ cleared \subseteq cleared' /\ cleared' \subseteq PostIds
    <2>1. CASE Exists(p)
      <3> DEFINE row == [posts[p] EXCEPT !.status = "scheduled",
                           !.approvalPending = FALSE, !.planningApproved = TRUE]
      <3>1. posts[p] \in PostRow
        BY <1>3, <2>1 DEF IInv, TypeOK, StoreTypeOK, Exists
      <3>2. row \in PostRow
        BY <3>1 DEF PostRow, PostStatus
      <3>3. posts' = [posts EXCEPT ![p] = row] /\ cleared' = cleared \cup {p}
        BY <1>1, <2>1
      <3>4. cleared \subseteq cleared' /\ cleared' \subseteq PostIds /\ p \in cleared'
        BY <1>3, <3>3 DEF IInv, TypeOK
      <3> HIDE DEF row
      <3> QED BY <1>2, <1>3, <3>2, <3>3, <3>4, RowUpdated
    <2>2. CASE ~Exists(p)
      BY <1>1, <1>2, <2>2, FewerPosts DEF IInv, TypeOK, StoreTypeOK
    <2> QED BY <2>1, <2>2
  <1> QED BY <1>2, <1>4, IdleRequest, OneRequestStep
          DEF IInv, TypeOK, Continue

\* A step of a request that goes on, or ends, with nothing left to plan.
LEMMA ContinueStep ==
    ASSUME IInv, StoreTypeOK', GateInv', UNCHANGED cleared,
           NEW h \in Handlers, NEW r \in Request, r.pc \notin {"insert", "update"},
           Continue(h, r)
    PROVE  IInv'
  <1>1. RequestOK(r, cleared')
    BY DEF RequestOK
  <1> QED BY <1>1, OneRequestStep DEF IInv, TypeOK, Continue

LEMMA ReplaceChannelsStep ==
    ASSUME IInv, NEW h \in Handlers, ReplacePostChannels(h)
    PROVE  IInv'
  <1> DEFINE s == requests[h]
  <1>1. s \in Request /\ s.pc = "channels"
    BY DEF ReplacePostChannels, IInv, TypeOK
  <1>2. UNCHANGED <<now, posts, channels, attempts, cleared>>
    BY DEF ReplacePostChannels
  <1>3. PICK p \in s.todo, ok \in BOOLEAN :
          /\ postChannels' = IF ok THEN [postChannels EXCEPT ![p] = s.channels]
                                   ELSE postChannels
          /\ Continue(h,
                IF ~ok /\ s.kind = "create" THEN [s EXCEPT !.pc = "undo"]
                ELSE IF s.todo \ {p} # {} THEN [s EXCEPT !.todo = s.todo \ {p}]
                ELSE NoRequest)
    BY DEF ReplacePostChannels
  <1> HIDE DEF s
  <1> DEFINE r == IF ~ok /\ s.kind = "create" THEN [s EXCEPT !.pc = "undo"]
                  ELSE IF s.todo \ {p} # {} THEN [s EXCEPT !.todo = s.todo \ {p}]
                  ELSE NoRequest
  <1>4. r \in Request /\ r.pc \notin {"insert", "update"}
    BY <1>1 DEF NoRequest, Request
  <1>5. StoreTypeOK'
    BY <1>1, <1>2, <1>3 DEF IInv, TypeOK, StoreTypeOK, Request
  <1>6. GateInv'
    BY <1>2, FewerPosts DEF IInv
  <1> HIDE DEF r
  <1>7. Continue(h, r)
    BY <1>3 DEF r
  <1> QED BY <1>2, <1>4, <1>5, <1>6, <1>7, ContinueStep

LEMMA UndoStep ==
    ASSUME IInv, NEW h \in Handlers, UndoCreate(h)
    PROVE  IInv'
  <1>1. PICK p \in requests[h].todo : DeletePost(p)
    BY DEF UndoCreate
  <1>2. p \in PostIds
    BY DEF IInv, TypeOK, Request
  <1>3. /\ Continue(h, NoRequest)
        /\ UNCHANGED <<now, channels, cleared>>
    BY DEF UndoCreate
  <1>4. /\ StoreTypeOK'
        /\ \A q \in PostIds : posts'[q] = posts[q] \/ posts'[q] = Null
    BY <1>1, <1>2, <1>3, DeletedType DEF IInv, TypeOK
  <1>5. GateInv'
    BY <1>3, <1>4, FewerPosts DEF IInv
  <1>6. NoRequest \in Request /\ NoRequest.pc \notin {"insert", "update"}
    BY DEF NoRequest, Request
  <1> QED BY <1>3, <1>4, <1>5, <1>6, ContinueStep

LEMMA AbortStep ==
    ASSUME IInv, NEW h \in Handlers, Abort(h)
    PROVE  IInv'
  <1>1. UNCHANGED <<storeVars, cleared>> /\ Continue(h, NoRequest)
    BY DEF Abort
  <1>2. StoreTypeOK' /\ GateInv'
    BY <1>1, FewerPosts DEF IInv, TypeOK, StoreTypeOK, storeVars
  <1>3. NoRequest \in Request /\ NoRequest.pc \notin {"insert", "update"}
    BY DEF NoRequest, Request
  <1> QED BY <1>1, <1>2, <1>3, ContinueStep

-------------------------------------------------------------------------------
(***************************************************************************)
(* Requests of one statement, and the scheduler.                           *)
(***************************************************************************)
LEMMA RemoveStep ==
    ASSUME IInv, NEW p \in PostIds, RemovePost(p)
    PROVE  IInv'
  <1>1. StoreTypeOK' /\ GateInv'
    BY DeletedType, FewerPosts DEF RemovePost, IInv, TypeOK
  <1> QED BY <1>1, NoRequestStep DEF RemovePost, IInv, TypeOK

LEMMA DeleteChannelStep ==
    ASSUME IInv, NEW c \in ChannelIds, DeleteChannel(c)
    PROVE  IInv'
  <1>1. attempts' \subseteq attempts /\ IsFiniteSet(attempts')
    BY FS_Subset DEF DeleteChannel, IInv, TypeOK, StoreTypeOK
  <1>2. StoreTypeOK'
    BY <1>1 DEF DeleteChannel, IInv, TypeOK, StoreTypeOK
  <1>3. GateInv'
    BY FewerPosts DEF DeleteChannel, IInv
  <1> QED BY <1>2, <1>3, NoRequestStep DEF DeleteChannel, IInv, TypeOK

LEMMA PolicyStep ==
    ASSUME IInv, NEW enabled \in BOOLEAN, UpdateApprovalPolicy(enabled)
    PROVE  IInv'
  <1>1. StoreTypeOK' /\ GateInv'
    BY FewerPosts DEF UpdateApprovalPolicy, IInv, TypeOK, StoreTypeOK, storeVars
  <1> QED BY <1>1, NoRequestStep DEF UpdateApprovalPolicy, IInv, TypeOK

LEMMA AskStep ==
    ASSUME IInv, NEW p \in PostIds, AskToSend(p)
    PROVE  IInv'
  <1>1. StoreTypeOK' /\ GateInv'
    BY DEF AskToSend, IInv, TypeOK, StoreTypeOK, storeVars, GateInv,
           ApprovalGate, ApprovedIsCleared, Exists
  <1> QED BY <1>1, NoRequestStep DEF AskToSend, IInv, TypeOK

\* A post the scheduler has in its hands was cleared when it picked it up.
LEMMA ProcessStep ==
    ASSUME IInv, NEW p \in PostIds, NEW status \in PostStatus,
           NEW retryAt \in Times \cup {Null},
           ProcessPost(p, status, retryAt)
    PROVE  IInv'
  <1>1. UNCHANGED <<now, postChannels, channels, attempts, requests,
                    acceptBeforePlanning, lastId, cleared, begun>>
    BY DEF ProcessPost
  <1>2. StoreTypeOK' /\ GateInv'
    <2>1. CASE Exists(p)
      <3> DEFINE row == [posts[p] EXCEPT !.status = status,
                            !.failCount = posts[p].failCount, !.nextRetryAt = retryAt]
      <3>1. posts[p] \in PostRow
        BY <2>1 DEF IInv, TypeOK, StoreTypeOK, Exists
      <3>2. row \in PostRow
        BY <3>1, PlanningAssumption DEF PostRow, MaybeMoments
      <3>3. posts' = [posts EXCEPT ![p] = row]
        BY <2>1 DEF ProcessPost, SetPostState
      <3>4. p \in cleared
        BY DEF ProcessPost, IsDue, IInv, GateInv, ApprovalGate
      <3>5. cleared \subseteq cleared' /\ cleared' \subseteq PostIds /\ p \in cleared'
        BY <1>1, <3>4 DEF IInv, TypeOK
      <3> HIDE DEF row
      <3> QED BY <1>1, <3>2, <3>3, <3>5, RowUpdated
    <2>2. CASE ~Exists(p)
      <3>1. posts' = posts
        BY <2>2 DEF ProcessPost, SetPostState
      <3> QED BY <1>1, <3>1, FewerPosts DEF IInv, TypeOK, StoreTypeOK
    <2> QED BY <2>1, <2>2
  <1> QED BY <1>1, <1>2, NoRequestStep DEF IInv, TypeOK

-------------------------------------------------------------------------------
(***************************************************************************)
(* The theorems.                                                           *)
(***************************************************************************)
LEMMA InitOK == Init => IInv
  <1> SUFFICES ASSUME Init PROVE IInv
    OBVIOUS
  <1>1. Draft \subseteq PostRow
    <2>1. /\ {"draft"} \subseteq PostStatus /\ Times \subseteq MaybeMoments
          /\ {Null} \subseteq MaybeMoments /\ {0} \subseteq Nat
      BY PlanningAssumption DEF PostStatus, MaybeMoments
    <2> QED BY <2>1 DEF Draft, PostRow
  <1>2. StoreTypeOK
    BY <1>1, FS_EmptySet DEF Init, StoreTypeOK, Moments
  <1>3. TypeOK /\ RequestsOK
    BY <1>2, IdleRequest, IdsAssumption DEF Init, TypeOK, RequestsOK
  <1>4. ASSUME NEW p \in PostIds, Exists(p)
        PROVE  posts[p].status = "draft" /\ ~posts[p].planningApproved
    BY <1>4 DEF Init, Exists, Draft
  <1>5. GateInv
    BY <1>4 DEF GateInv, ApprovalGate, ApprovedIsCleared
  <1> QED BY <1>3, <1>5 DEF IInv

LEMMA HandleStep ==
    ASSUME IInv, NEW h \in Handlers, Handle(h)
    PROVE  IInv'
  BY InsertStep, WriteStep, WriteAcceptedStep, ReplaceChannelsStep, UndoStep DEF Handle

LEMMA ArriveStep ==
    ASSUME IInv, NEW h \in Handlers, Arrive(h)
    PROVE  IInv'
  <1>1. CASE \E at \in Times, chans \in SUBSET ChannelIds,
                status \in {"draft", "scheduled"} :
                \/ CreatePost(h, status, at, chans)
                \/ \E p \in PostIds : UpdatePost(h, p, status, at, chans)
                \/ \E auth \in Auth :
                      \/ APICreatePost(h, auth, status, at, chans)
                      \/ \E p \in PostIds : APIUpdatePost(h, auth, p, status, at, chans)
    BY <1>1, CreateStep, UpdateStep, APICreateStep, APIUpdateStep
  <1>2. CASE \E p \in PostIds, at \in Times :
                \/ ReschedulePost(h, p, at)
                \/ \E auth \in Auth : APIReschedulePost(h, auth, p, at)
    BY <1>2, RescheduleStep, APIRescheduleStep
  <1>3. CASE \E p \in PostIds : AcceptPostPlanning(h, p)
    BY <1>3, AcceptStep
  <1>4. CASE \E ps \in SUBSET PostIds, chans \in SUBSET ChannelIds :
                BulkSetPostChannels(h, ps, chans) \/ APIBulkSetPostChannels(h, ps, chans)
    BY <1>4, BulkStep DEF APIBulkSetPostChannels
  <1> QED BY <1>1, <1>2, <1>3, <1>4 DEF Arrive

LEMMA HandlerStep ==
    ASSUME IInv, HandlerNext
    PROVE  IInv'
  <1>1. CASE \E h \in Handlers : Arrive(h) \/ Handle(h) \/ Abort(h)
    BY <1>1, ArriveStep, HandleStep, AbortStep
  <1>2. CASE \E p \in PostIds : RemovePost(p)
    BY <1>2, RemoveStep
  <1>3. CASE \E c \in ChannelIds : DeleteChannel(c)
    BY <1>3, DeleteChannelStep
  <1>4. CASE \E enabled \in BOOLEAN : UpdateApprovalPolicy(enabled)
    BY <1>4, PolicyStep
  <1> QED BY <1>1, <1>2, <1>3, <1>4 DEF HandlerNext

LEMMA NextStep == IInv /\ [Next]_vars => IInv'
  <1> SUFFICES ASSUME IInv, [Next]_vars PROVE IInv'
    OBVIOUS
  <1>1. CASE HandlerNext
    BY <1>1, HandlerStep
  <1>2. CASE \E p \in PostIds :
                \/ AskToSend(p)
                \/ \E status \in PostStatus, retryAt \in Times \cup {Null} :
                      ProcessPost(p, status, retryAt)
    BY <1>2, AskStep, ProcessStep
  <1>3. CASE UNCHANGED vars
    <2>1. StoreTypeOK' /\ GateInv'
      BY <1>3, FewerPosts DEF IInv, TypeOK, StoreTypeOK, vars, storeVars
    <2> QED BY <1>3, <2>1, NoRequestStep DEF IInv, TypeOK, vars
  <1> QED BY <1>1, <1>2, <1>3 DEF Next

\* Whatever requests overlap, the tables and the requests keep their types, and
\* what makes a post due or lets agents reschedule it is always well-founded.
THEOREM PlanningCorrect == Spec => []IInv
  BY InitOK, NextStep, PTL DEF Spec

\* The tables and the requests keep their types.
THEOREM PlanningTypeCorrect == Spec => []TypeOK
  <1>1. IInv => TypeOK
    BY DEF IInv
  <1> QED BY <1>1, PlanningCorrect, PTL

\* The scheduler can only pick up what was accepted, was to be sent, or was
\* scheduled by somebody the approval policy did not hold back: for any number of
\* agents and people, of overlapping requests and of changes of the policy.
THEOREM ApprovalGateCorrect == Spec => []ApprovalGate
  <1>1. IInv => ApprovalGate
    BY DEF IInv, GateInv
  <1> QED BY <1>1, PlanningCorrect, PTL

-------------------------------------------------------------------------------
(***************************************************************************)
(* When an approval lasts.                                                 *)
(***************************************************************************)
OneAtATime == \A g, h \in Handlers : g = h

Approved(p) == Exists(p) /\ posts[p].planningApproved

\* The request is about to write that p still needs approval.
Denies(s, p) ==
    s.pc = "update" /\ s.input.planningApproved = "no" /\ p \in s.todo

\* What a request has read of the flag is what is stored, and new posts get
\* new rows.
KeptInv ==
    /\ \A p \in PostIds : Exists(p) => p <= lastId
    /\ \A h \in Handlers, p \in PostIds : Denies(requests[h], p) => ~Approved(p)

Kept == \A p \in PostIds : Approved(p) => ~Exists(p)' \/ Approved(p)'

\* Rows that stay, vanish, or keep their flag.
FlagsStay ==
    /\ lastId' = lastId
    /\ \A p \in PostIds :
          Exists(p)' => Exists(p) /\ posts'[p].planningApproved = posts[p].planningApproved

LEMMA FlagsStayKept ==
    ASSUME KeptInv, FlagsStay, OneAtATime,
           \/ UNCHANGED requests
           \/ \E h \in Handlers : \A p \in PostIds : Denies(requests'[h], p) => ~Approved(p)
    PROVE  KeptInv' /\ Kept
  <1>1. Kept
    BY DEF FlagsStay, Kept, Approved
  <1>2. \A p \in PostIds : Exists(p)' => p <= lastId'
    BY DEF FlagsStay, KeptInv
  <1>3. \A p \in PostIds : Approved(p)' => Approved(p)
    BY DEF FlagsStay, Approved
  <1>4. ASSUME NEW h \in Handlers, NEW p \in PostIds, Denies(requests'[h], p)
        PROVE  ~Approved(p)
    BY <1>4 DEF KeptInv, OneAtATime
  <1> QED BY <1>1, <1>2, <1>3, <1>4 DEF KeptInv

\* A request that begins: it denies nothing that is approved.
LEMMA BeginKept ==
    ASSUME TypeOK, KeptInv, OneAtATime, NEW h \in Handlers, NEW r, Begin(h, r),
           \A p \in PostIds : Denies(r, p) => ~Approved(p)
    PROVE  KeptInv' /\ Kept
  <1>1. requests'[h] = r
    BY DEF Begin, TypeOK
  <1>2. FlagsStay
    BY DEF Begin, FlagsStay, storeVars, Exists
  <1> QED BY <1>1, <1>2, FlagsStayKept

LEMMA PlainDeniesNothing ==
    ASSUME NEW status, NEW at PROVE Plain(status, at).planningApproved = "unset"
  BY DEF Plain

\* maybeMarkForPlanningApproval never takes away the approval it is shown.
LEMMA MarkedDenies ==
    ASSUME NEW status \in PostStatus, NEW at \in MaybeMoments, NEW auth \in Auth
    PROVE  Marked(Plain(status, at), auth, TRUE, TRUE).planningApproved # "no"
  <1>1. PICK i : i = Plain(status, at)
    OBVIOUS
  <1>2. i \in Input /\ i.planningApproved = "unset" /\ i.status = status
    BY <1>1, PlainInput DEF Plain
  <1> QED BY <1>1, <1>2 DEF Marked, Input

LEMMA ReaderKept ==
    ASSUME TypeOK, KeptInv, OneAtATime, NEW h \in Handlers, NEW p \in PostIds, Exists(p),
           NEW auth \in Auth, NEW status \in PostStatus, NEW at \in MaybeMoments,
           NEW r, Begin(h, r), r.todo = {p},
           r.input = Marked(Plain(status, at), auth, TRUE, posts[p].planningApproved)
    PROVE  KeptInv' /\ Kept
  <1>1. ASSUME NEW q \in PostIds, Denies(r, q), Approved(q) PROVE FALSE
    <2>1. q = p
      BY <1>1 DEF Denies
    <2>2. posts[p] \in PostRow /\ posts[p].planningApproved
      BY <1>1, <2>1 DEF Approved, TypeOK, StoreTypeOK, Exists
    <2>3. posts[p].planningApproved = TRUE
      BY <2>2 DEF PostRow
    <2> QED BY <1>1, <2>3, MarkedDenies DEF Denies
  <1> QED BY <1>1, BeginKept

LEMMA ArriveKept ==
    ASSUME TypeOK, KeptInv, OneAtATime, NEW h \in Handlers, Arrive(h)
    PROVE  KeptInv' /\ Kept
  <1>0. Times \subseteq MaybeMoments /\ {"draft", "scheduled"} \subseteq PostStatus
    BY PlanningAssumption DEF PostStatus
  <1>1. ASSUME NEW at \in Times, NEW chans \in SUBSET ChannelIds,
               NEW status \in {"draft", "scheduled"}, CreatePost(h, status, at, chans)
        PROVE  KeptInv' /\ Kept
    <2>1. PICK r : Begin(h, r) /\ r = [NoRequest EXCEPT
             !.pc = "insert", !.kind = "create", !.channels = chans,
             !.clears = (status = "scheduled"), !.input = Plain(status, at)]
      BY <1>1 DEF CreatePost
    <2>2. r.pc = "insert"
      BY <2>1 DEF NoRequest
    <2> QED BY <2>1, <2>2, BeginKept DEF Denies
  <1>2. ASSUME NEW at \in Times, NEW chans \in SUBSET ChannelIds,
               NEW status \in {"draft", "scheduled"}, NEW p \in PostIds,
               UpdatePost(h, p, status, at, chans)
        PROVE  KeptInv' /\ Kept
    <2>1. PICK r : Begin(h, r) /\ r = [NoRequest EXCEPT
             !.pc = "update", !.kind = "update", !.todo = {p}, !.channels = chans,
             !.clears = (status = "scheduled"), !.input = Plain(status, at)]
      BY <1>2 DEF UpdatePost
    <2>2. r.input = Plain(status, at)
      BY <2>1 DEF NoRequest
    <2> QED BY <2>1, <2>2, PlainDeniesNothing, BeginKept DEF Denies
  <1>3. ASSUME NEW at \in Times, NEW chans \in SUBSET ChannelIds, NEW auth \in Auth,
               NEW status \in {"draft", "scheduled"}, APICreatePost(h, auth, status, at, chans)
        PROVE  KeptInv' /\ Kept
    <2>1. PICK r : Begin(h, r) /\ r = [NoRequest EXCEPT
             !.pc = "insert", !.kind = "create", !.channels = chans,
             !.clears = Clears(status, auth),
             !.input = Marked(Plain(status, at), auth, FALSE, FALSE)]
      BY <1>3 DEF APICreatePost
    <2>2. r.pc = "insert"
      BY <2>1 DEF NoRequest
    <2> QED BY <2>1, <2>2, BeginKept DEF Denies
  <1>4. ASSUME NEW at \in Times, NEW chans \in SUBSET ChannelIds, NEW auth \in Auth,
               NEW status \in {"draft", "scheduled"}, NEW p \in PostIds,
               APIUpdatePost(h, auth, p, status, at, chans)
        PROVE  KeptInv' /\ Kept
    <2>1. PICK r : Begin(h, r) /\ r = [NoRequest EXCEPT
             !.pc = "update", !.kind = "update", !.todo = {p}, !.channels = chans,
             !.clears = Clears(status, auth),
             !.input = Marked(Plain(status, at), auth, TRUE, posts[p].planningApproved)]
      BY <1>4 DEF APIUpdatePost
    <2>2. /\ r.input = Marked(Plain(status, at), auth, TRUE, posts[p].planningApproved)
          /\ r.todo = {p} /\ Exists(p)
      BY <1>4, <2>1 DEF NoRequest, APIUpdatePost
    <2> QED BY <1>0, <2>1, <2>2, ReaderKept
  <1>5. ASSUME NEW p \in PostIds, NEW at \in Times, ReschedulePost(h, p, at)
        PROVE  KeptInv' /\ Kept
    <2>1. PICK r : Begin(h, r) /\ r = [NoRequest EXCEPT
             !.pc = "update", !.kind = "reschedule", !.todo = {p}, !.clears = TRUE,
             !.input = Plain("scheduled", at)]
      BY <1>5 DEF ReschedulePost
    <2>2. r.input = Plain("scheduled", at)
      BY <2>1 DEF NoRequest
    <2> QED BY <2>1, <2>2, PlainDeniesNothing, BeginKept DEF Denies
  <1>6. ASSUME NEW p \in PostIds, NEW at \in Times, NEW auth \in Auth,
               APIReschedulePost(h, auth, p, at)
        PROVE  KeptInv' /\ Kept
    <2>1. PICK r : Begin(h, r) /\ r = [NoRequest EXCEPT
             !.pc = "update", !.kind = "reschedule", !.todo = {p},
             !.clears = Clears("scheduled", auth),
             !.input = Marked(Plain("scheduled", at), auth, TRUE,
                              posts[p].planningApproved)]
      BY <1>6 DEF APIReschedulePost
    <2>2. /\ r.input = Marked(Plain("scheduled", at), auth, TRUE,
                              posts[p].planningApproved)
          /\ r.todo = {p} /\ Exists(p)
      BY <1>6, <2>1 DEF NoRequest, APIReschedulePost
    <2> QED BY <1>0, <2>1, <2>2, ReaderKept
  <1>7. ASSUME NEW p \in PostIds, AcceptPostPlanning(h, p) PROVE KeptInv' /\ Kept
    <2>1. PICK r : Begin(h, r) /\ r = [NoRequest EXCEPT !.pc = "accept",
             !.kind = "accept", !.todo = {p}, !.clears = TRUE]
      BY <1>7 DEF AcceptPostPlanning
    <2>2. r.pc = "accept"
      BY <2>1 DEF NoRequest
    <2> QED BY <2>1, <2>2, BeginKept DEF Denies
  <1>8. ASSUME NEW ps \in SUBSET PostIds, NEW chans \in SUBSET ChannelIds,
               BulkSetPostChannels(h, ps, chans)
        PROVE  KeptInv' /\ Kept
    <2>1. PICK r : Begin(h, r) /\ r = [NoRequest EXCEPT !.pc = "channels",
             !.kind = "bulk", !.todo = ps, !.channels = chans]
      BY <1>8 DEF BulkSetPostChannels
    <2>2. r.pc = "channels"
      BY <2>1 DEF NoRequest
    <2> QED BY <2>1, <2>2, BeginKept DEF Denies
  <1> QED BY <1>1, <1>2, <1>3, <1>4, <1>5, <1>6, <1>7, <1>8
          DEF Arrive, APIBulkSetPostChannels

\* A row is written by the only request there is, which goes on with something
\* else.
LEMMA RowKept ==
    ASSUME TypeOK, KeptInv, OneAtATime, NEW h \in Handlers, NEW p \in PostIds, NEW row,
           posts' = [posts EXCEPT ![p] = row], row # Null,
           Approved(p) => row.planningApproved,
           requests'[h].pc # "update",
           p <= lastId', lastId \in Nat, lastId' \in Nat, lastId <= lastId'
    PROVE  KeptInv' /\ Kept
  <1>1. \A q \in PostIds : posts'[q] = IF q = p THEN row ELSE posts[q]
    BY DEF TypeOK, StoreTypeOK
  <1>2. Kept
    BY <1>1 DEF Kept, Approved, Exists
  <1>3. ASSUME NEW q \in PostIds, Exists(q)' PROVE q <= lastId'
    <2>1. q = p \/ q <= lastId
      BY <1>1, <1>3 DEF KeptInv, Exists
    <2> QED BY <2>1, IdsAssumption
  <1>4. \A g \in Handlers, q \in PostIds : ~Denies(requests'[g], q)
    BY DEF OneAtATime, Denies
  <1> QED BY <1>2, <1>3, <1>4 DEF KeptInv

LEMMA InsertKept ==
    ASSUME IInv, KeptInv, OneAtATime, NEW h \in Handlers, InsertPost(h)
    PROVE  KeptInv' /\ Kept
  <1>1. PICK s \in Request : s = requests[h] /\ s.pc = "insert" /\ s.input \in Input
    BY DEF InsertPost, IInv, TypeOK, RequestsOK, RequestOK
  <1>2. PICK p \in PostIds : p = lastId + 1 /\ lastId' = p
    BY DEF InsertPost
  <1>3. PICK row : row =
          [status |-> s.input.status, scheduledAt |-> s.input.scheduledAt,
           nextRetryAt |-> Null, failCount |-> 0,
           approvalPending |-> FlagOr(s.input.approvalPending, FALSE),
           planningApproved |-> FlagOr(s.input.planningApproved, FALSE)]
    OBVIOUS
  <1>4. row \in PostRow
    BY <1>1, <1>3 DEF Input, PostRow, FlagOr, MaybeMoments
  <1>5. row # Null
    BY <1>4, NoRowAssumption
  <1>6. posts' = [posts EXCEPT ![p] = row]
    BY <1>1, <1>2, <1>3 DEF InsertPost
  <1>7. requests'[h] = [s EXCEPT !.pc = "channels", !.todo = {p}]
    BY <1>1, <1>2 DEF InsertPost, IInv, TypeOK
  <1>8. requests'[h].pc # "update"
    BY <1>7 DEF Request
  <1>9. lastId \in Nat /\ TypeOK
    BY DEF IInv, TypeOK
  <1>10. ~Approved(p)
    BY <1>2, <1>9 DEF KeptInv, Approved
  <1>11. p <= lastId' /\ lastId' \in Nat /\ lastId <= lastId'
    BY <1>2, <1>9
  <1> QED BY <1>5, <1>6, <1>8, <1>9, <1>10, <1>11, RowKept

LEMMA WriteKept ==
    ASSUME IInv, KeptInv, OneAtATime, NEW h \in Handlers, WritePost(h)
    PROVE  KeptInv' /\ Kept
  <1>1. PICK s \in Request : s = requests[h] /\ s.pc = "update" /\ s.input \in Input
    BY DEF WritePost, IInv, TypeOK, RequestsOK, RequestOK
  <1>2. PICK p \in s.todo :
          IF Exists(p)
          THEN /\ posts' = [posts EXCEPT ![p] = Updated(posts[p], s.input)]
               /\ Continue(h, IF s.kind = "update"
                              THEN [s EXCEPT !.pc = "channels"] ELSE NoRequest)
          ELSE UNCHANGED posts /\ Continue(h, NoRequest)
    BY <1>1 DEF WritePost
  <1>3. p \in PostIds /\ TypeOK /\ lastId \in Nat /\ requests \in [Handlers -> Request]
    BY <1>1 DEF Request, IInv, TypeOK
  <1>4. /\ requests'[h] \in {NoRequest, [s EXCEPT !.pc = "channels"]}
        /\ lastId' = lastId
    BY <1>2, <1>3 DEF Continue
  <1>5. requests'[h].pc # "update"
    BY <1>4 DEF NoRequest, Request
  <1>6. CASE Exists(p)
    <2>1. PICK row : row = Updated(posts[p], s.input)
      OBVIOUS
    <2>2. posts[p] \in PostRow
      BY <1>3, <1>6 DEF TypeOK, StoreTypeOK, Exists
    <2>3. row \in PostRow
      BY <1>1, <2>1, <2>2 DEF PostRow, Input, FlagOr, Updated
    <2>4. row.planningApproved = FlagOr(s.input.planningApproved, posts[p].planningApproved)
      BY <2>1, <2>2 DEF PostRow, Updated
    <2>5. Approved(p) => s.input.planningApproved # "no"
      BY <1>1, <1>2, <1>3 DEF KeptInv, Denies
    <2>6. Approved(p) => row.planningApproved
      BY <1>1, <2>4, <2>5 DEF FlagOr, Approved, Input, Flag
    <2>7. row # Null
      BY <2>3, NoRowAssumption
    <2>8. p <= lastId
      BY <1>3, <1>6 DEF KeptInv
    <2> QED BY <1>2, <1>3, <1>4, <1>5, <1>6, <2>1, <2>6, <2>7, <2>8, RowKept
  <1>7. CASE ~Exists(p)
    BY <1>2, <1>4, <1>5, <1>7, FlagsStayKept DEF FlagsStay, Exists, Denies
  <1> QED BY <1>6, <1>7

LEMMA AcceptedKept ==
    ASSUME TypeOK, KeptInv, OneAtATime, NEW h \in Handlers, WriteAccepted(h)
    PROVE  KeptInv' /\ Kept
  <1>1. PICK p \in requests[h].todo :
          IF Exists(p)
          THEN posts' = [posts EXCEPT ![p] = [posts[p] EXCEPT
                     !.status = "scheduled", !.approvalPending = FALSE,
                     !.planningApproved = TRUE]]
          ELSE UNCHANGED posts
    BY DEF WriteAccepted
  <1>2. p \in PostIds /\ lastId \in Nat /\ lastId' = lastId
    BY DEF TypeOK, Request, WriteAccepted, Continue
  <1>3. requests'[h].pc = "idle"
    BY DEF WriteAccepted, Continue, TypeOK, NoRequest
  <1>4. CASE Exists(p)
    <2>1. posts[p] \in PostRow
      BY <1>2, <1>4 DEF TypeOK, StoreTypeOK, Exists
    <2>2. PICK row : row = [posts[p] EXCEPT !.status = "scheduled",
                              !.approvalPending = FALSE, !.planningApproved = TRUE]
      OBVIOUS
    <2>3. row \in PostRow /\ row.planningApproved
      BY <2>1, <2>2 DEF PostRow, PostStatus
    <2>4. row # Null
      BY <2>3, NoRowAssumption
    <2>5. p <= lastId' /\ lastId' \in Nat /\ lastId <= lastId'
      BY <1>2, <1>4 DEF KeptInv
    <2>6. posts' = [posts EXCEPT ![p] = row]
      BY <1>1, <1>4, <2>2
    <2> QED BY <1>2, <1>3, <2>3, <2>4, <2>5, <2>6, RowKept
  <1>5. CASE ~Exists(p)
    BY <1>1, <1>2, <1>3, <1>5, FlagsStayKept DEF FlagsStay, Exists, Denies
  <1> QED BY <1>4, <1>5

LEMMA DeletedFlags ==
    ASSUME TypeOK, NEW p \in PostIds, DeletePost(p), lastId' = lastId
    PROVE  FlagsStay
  BY DEF DeletePost, FlagsStay, Exists, TypeOK, StoreTypeOK

LEMMA NextKept ==
    ASSUME IInv, KeptInv, OneAtATime, [Next]_vars
    PROVE  KeptInv' /\ Kept
  <1>0. TypeOK
    BY DEF IInv
  <1>1. ASSUME NEW h \in Handlers, Handle(h) \/ Abort(h) \/ Arrive(h)
        PROVE  KeptInv' /\ Kept
    <2>1. CASE ReplacePostChannels(h)
      <3>1. FlagsStay
        BY <2>1 DEF ReplacePostChannels, Continue, FlagsStay, Exists
      <3>2. PICK r : requests' = [requests EXCEPT ![h] = r] /\
                     (r = NoRequest \/ r.pc = "undo" \/ r.pc = "channels")
        <4>1. PICK s \in Request : s = requests[h] /\ s.pc = "channels"
          BY <1>0, <2>1 DEF TypeOK, ReplacePostChannels
        <4>2. PICK rest, r : /\ requests' = [requests EXCEPT ![h] = r]
                             /\ \/ r = [s EXCEPT !.pc = "undo"]
                                \/ r = [s EXCEPT !.todo = rest]
                                \/ r = NoRequest
          BY <2>1, <4>1 DEF ReplacePostChannels, Continue
        <4> QED BY <4>1, <4>2 DEF Request
      <3>3. \A p \in PostIds : ~Denies(requests'[h], p)
        BY <1>0, <3>2 DEF Denies, NoRequest, TypeOK
      <3> QED BY <3>1, <3>3, FlagsStayKept
    <2>2. CASE UndoCreate(h)
      <3>1. PICK p \in PostIds : DeletePost(p)
        BY <1>0, <2>2 DEF UndoCreate, TypeOK, Request
      <3>2. lastId' = lastId /\ requests'[h] = NoRequest
        BY <1>0, <2>2 DEF UndoCreate, Continue, TypeOK
      <3>3. \A q \in PostIds : ~Denies(requests'[h], q)
        BY <3>2 DEF Denies, NoRequest
      <3> QED BY <1>0, <3>1, <3>2, <3>3, DeletedFlags, FlagsStayKept
    <2>3. CASE Abort(h)
      <3>1. FlagsStay /\ requests'[h] = NoRequest
        BY <1>0, <2>3 DEF Abort, Continue, FlagsStay, Exists, storeVars, TypeOK
      <3>2. \A q \in PostIds : ~Denies(requests'[h], q)
        BY <3>1 DEF Denies, NoRequest
      <3> QED BY <3>1, <3>2, FlagsStayKept
    <2> QED BY <1>0, <1>1, <2>1, <2>2, <2>3, ArriveKept, InsertKept, WriteKept, AcceptedKept
            DEF Handle
  <1>2. ASSUME NEW p \in PostIds, RemovePost(p) PROVE KeptInv' /\ Kept
    BY <1>0, <1>2, DeletedFlags, FlagsStayKept DEF RemovePost
  <1>3. CASE \/ \E c \in ChannelIds : DeleteChannel(c)
             \/ \E enabled \in BOOLEAN : UpdateApprovalPolicy(enabled)
             \/ \E p \in PostIds : AskToSend(p)
             \/ UNCHANGED vars
    BY <1>3, FlagsStayKept
       DEF DeleteChannel, UpdateApprovalPolicy, AskToSend, vars, storeVars, FlagsStay, Exists
  <1>4. ASSUME NEW p \in PostIds, NEW status \in PostStatus, NEW at \in Times \cup {Null},
               ProcessPost(p, status, at)
        PROVE  KeptInv' /\ Kept
    <2>1. FlagsStay
      <3> SUFFICES ASSUME NEW q \in PostIds, Exists(q)'
                   PROVE  /\ Exists(q)
                          /\ posts'[q].planningApproved = posts[q].planningApproved
        BY <1>4 DEF FlagsStay, ProcessPost
      <3>1. CASE posts' = posts \/ q # p
        BY <1>0, <1>4, <3>1 DEF ProcessPost, SetPostState, Exists, TypeOK, StoreTypeOK
      <3>2. CASE Exists(p) /\ q = p
        <4>1. posts[p] \in PostRow
          BY <1>0, <3>2 DEF TypeOK, StoreTypeOK, Exists
        <4>2. posts'[p] = [posts[p] EXCEPT !.status = status,
                              !.failCount = posts[p].failCount, !.nextRetryAt = at]
          BY <1>0, <1>4, <3>2 DEF ProcessPost, SetPostState, TypeOK, StoreTypeOK
        <4> QED BY <3>2, <4>1, <4>2 DEF PostRow
      <3> QED BY <1>4, <3>1, <3>2 DEF ProcessPost, SetPostState
    <2> QED BY <1>4, <2>1, FlagsStayKept DEF ProcessPost
  <1> QED BY <1>1, <1>2, <1>3, <1>4 DEF Next, HandlerNext

LEMMA InitKept == Init => KeptInv
  BY DEF Init, KeptInv, Denies, NoRequest

\* As long as requests do not overlap, an approval is never taken back, whatever
\* agents edit and reschedule and whatever the scheduler does meanwhile.
THEOREM ApprovalKeptAlone == OneAtATime /\ Spec => ApprovalIsKept
  <1>1. OneAtATime /\ IInv /\ KeptInv /\ [Next]_vars => KeptInv' /\ OneAtATime' /\ Kept
    BY NextKept DEF OneAtATime
  <1>2. Kept =>  (\A p \in PostIds :
          Exists(p) /\ posts[p].planningApproved =>
             ~Exists(p)' \/ (posts[p].planningApproved)')
    BY DEF Kept, Approved
  <1> QED BY <1>1, <1>2, InitKept, PlanningCorrect, PTL DEF Spec, ApprovalIsKept
===============================================================================
