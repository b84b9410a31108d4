-------------------------------- MODULE Planning --------------------------------
(***************************************************************************)
(* Planning posts (internal/handlers, internal/db): creating, editing,     *)
(* rescheduling, approving and deleting them, through the UI or the JSON   *)
(* API, by people or by agents with an API key.  A handler takes one step  *)
(* per statement, so that handlers interleave as in the program.  Refused  *)
(* requests change nothing and are left out.  The scheduler is seen from   *)
(* outside here: it rewrites the status of a post it was given.            *)
(***************************************************************************)
EXTENDS Store

CONSTANTS
    Handlers,    \* requests that can be in progress at the same time
    Times,       \* the values of scheduled_at a request may carry
    MaxRequests  \* bound: requests begun

ASSUME PlanningAssumption == Times \subseteq MaybeMoments /\ MaxRequests \in Nat

VARIABLES
    requests,              \* the local variables of each handler
    acceptBeforePlanning,  \* Config.AcceptBeforePlanning
    lastId,                \* the AUTOINCREMENT counter of posts
    cleared,               \* posts that were accepted, were to be sent, or were
                           \* scheduled by somebody the policy did not hold back
    begun                  \* requests so far

vars == <<storeVars, requests, acceptBeforePlanning, lastId, cleared, begun>>

\* authMethodFromContext: how a request to the JSON API was authenticated.  The
\* key of an agent is a row of api_keys ("api-key") or one of static_api_keys in
\* the configuration ("api-key-env").  The policy accept_before_planning holds
\* back the first only, although docs/agents-usage.md:19 speaks of any API key.
Auth == {"basic", "api-key", "api-key-env"}

\* A PostInput: the flags carry their ...Set companions.
Flag == {"yes", "no", "unset"}
Input ==
    [status : PostStatus, scheduledAt : MaybeMoments,
     approvalPending : Flag, planningApproved : Flag]

Request ==
    [pc       : {"idle", "insert", "update", "accept", "channels", "undo"},
     kind     : {"none", "create", "update", "reschedule", "accept", "bulk"},
     todo     : SUBSET PostIds,      \* the posts still to be written
     input    : Input \cup {Null},
     channels : SUBSET ChannelIds,
     clears   : BOOLEAN]             \* nobody the policy holds back

NoRequest ==
    [pc |-> "idle", kind |-> "none", todo |-> {}, input |-> Null,
     channels |-> {}, clears |-> FALSE]

TypeOK ==
    /\ StoreTypeOK
    /\ requests \in [Handlers -> Request]
    /\ acceptBeforePlanning \in BOOLEAN
    /\ lastId \in Nat
    /\ cleared \subseteq PostIds
    /\ begun \in Nat

-------------------------------------------------------------------------------
\* The PostInput of parsePostForm and parsePostPayload, flags unset.
Plain(status, at) ==
    [status |-> status, scheduledAt |-> at,
     approvalPending |-> "unset", planningApproved |-> "unset"]

\* ValidateEditableInput, and the channels a scheduled post must have.
IsParsed(status, at, chans) ==
    /\ status = "scheduled" => at # Null /\ chans # {}
    /\ \A c \in chans : channels[c] # Null

\* Mutant: only new posts need approval.
MarkedWhenNew(input, auth, known, approved) ==
    IF input.status # "scheduled" THEN input
    ELSE IF acceptBeforePlanning /\ auth = "api-key" /\ ~known
         THEN [input EXCEPT !.status = "draft", !.approvalPending = "yes",
                            !.planningApproved = "no"]
         ELSE [input EXCEPT !.approvalPending = "no", !.planningApproved = "yes"]

\* Mutant: the post's status says that it waits, a value the table refuses.
MarkedPendingStatus(input, auth, known, approved) ==
    IF input.status # "scheduled" \/ (known /\ approved) THEN input
    ELSE [input EXCEPT !.status = "pending", !.approvalPending = "yes"]

\* maybeMarkForPlanningApproval: `known' when there is an existing post, and
\* `approved' its planning_approved.  What an agent that is held back schedules,
\* and nobody has approved, becomes a draft that waits for approval.
Marked(input, auth, known, approved) ==
    IF input.status # "scheduled"
    THEN IF known /\ approved THEN [input EXCEPT !.planningApproved = "yes"]
                              ELSE input
    ELSE IF acceptBeforePlanning /\ auth = "api-key" /\ ~(known /\ approved)
         THEN [input EXCEPT !.status = "draft", !.approvalPending = "yes",
                            !.planningApproved = "no"]
         ELSE [input EXCEPT !.approvalPending = "no", !.planningApproved = "yes"]

\* A request of the API schedules and is not held back.
Clears(status, auth) ==
    status = "scheduled" /\ (auth # "api-key" \/ ~acceptBeforePlanning)

FlagOr(flag, old) == IF flag = "unset" THEN old ELSE flag = "yes"

\* The SET clause of Store.UpdatePost, which leaves next_retry_at and fail_count
\* as they are.
Updated(row, input) ==
    [row EXCEPT !.status = input.status,
                !.scheduledAt = input.scheduledAt,
                !.approvalPending = FlagOr(input.approvalPending, @),
                !.planningApproved = FlagOr(input.planningApproved, @)]

Begin(h, request) ==
    /\ requests[h].pc = "idle"
    /\ begun < MaxRequests
    /\ begun' = begun + 1
    /\ requests' = [requests EXCEPT ![h] = request]
    /\ UNCHANGED <<storeVars, acceptBeforePlanning, lastId, cleared>>

Continue(h, request) ==
    /\ requests' = [requests EXCEPT ![h] = request]
    /\ UNCHANGED <<acceptBeforePlanning, lastId, begun>>

\* What a post may be that nobody has planned yet.
Draft ==
    [status : {"draft"}, scheduledAt : Times, nextRetryAt : {Null}, failCount : {0},
     approvalPending : BOOLEAN, planningApproved : {FALSE}]

\* The drafts people and agents have left, with or without channels.
Init ==
    /\ now = 0
    /\ lastId \in PostIds \cup {0}
    /\ posts \in [PostIds -> Draft \cup {Null}]
    /\ postChannels \in [PostIds -> SUBSET ChannelIds]
    /\ \A p \in PostIds : Exists(p) => p <= lastId
    /\ \A p \in PostIds : postChannels[p] # {} => Exists(p)
    /\ channels \in [ChannelIds -> ChannelStatus]
    /\ attempts = {}
    /\ requests = [h \in Handlers |-> NoRequest]
    /\ acceptBeforePlanning \in BOOLEAN
    /\ cleared = {}
    /\ begun = 0

\* CreatePost of the UI, up to the first statement: the flags stay unset.
CreatePost(h, status, at, chans) ==
    /\ IsParsed(status, at, chans)
    /\ Begin(h, [NoRequest EXCEPT
          !.pc = "insert", !.kind = "create", !.channels = chans,
          !.clears = (status = "scheduled"), !.input = Plain(status, at)])

APICreatePost(h, auth, status, at, chans) ==
    /\ IsParsed(status, at, chans)
    /\ Begin(h, [NoRequest EXCEPT
          !.pc = "insert", !.kind = "create", !.channels = chans,
          !.clears = Clears(status, auth),
          !.input = Marked(Plain(status, at), auth, FALSE, FALSE)])

\* UpdatePost of the UI, which does not read the post.
UpdatePost(h, p, status, at, chans) ==
    /\ IsParsed(status, at, chans)
    /\ Begin(h, [NoRequest EXCEPT
          !.pc = "update", !.kind = "update", !.todo = {p}, !.channels = chans,
          !.clears = (status = "scheduled"), !.input = Plain(status, at)])

\* APIUpdatePost, which reads whether the post has been approved.
APIUpdatePost(h, auth, p, status, at, chans) ==
    /\ IsParsed(status, at, chans)
    /\ Exists(p)
    /\ Begin(h, [NoRequest EXCEPT
          !.pc = "update", !.kind = "update", !.todo = {p}, !.channels = chans,
          !.clears = Clears(status, auth),
          !.input = Marked(Plain(status, at), auth, TRUE, posts[p].planningApproved)])

\* ReschedulePost of the UI: any post that is not sent becomes scheduled, its
\* channels are not looked at.
ReschedulePost(h, p, at) ==
    /\ at # Null
    /\ Exists(p)
    /\ posts[p].status # "sent"
    /\ Begin(h, [NoRequest EXCEPT
          !.pc = "update", !.kind = "reschedule", !.todo = {p}, !.clears = TRUE,
          !.input = Plain("scheduled", at)])

APIReschedulePost(h, auth, p, at) ==
    /\ at # Null
    /\ Exists(p)
    /\ posts[p].status # "sent"
    /\ Begin(h, [NoRequest EXCEPT
          !.pc = "update", !.kind = "reschedule", !.todo = {p},
          !.clears = Clears("scheduled", auth),
          !.input = Marked(Plain("scheduled", at), auth, TRUE,
                           posts[p].planningApproved)])

\* AcceptPostPlanning: GetPost and its checks.
AcceptPostPlanning(h, p) ==
    /\ Exists(p)
    /\ posts[p].approvalPending
    /\ posts[p].scheduledAt # Null
    /\ posts[p].status # "sent"
    /\ Begin(h, [NoRequest EXCEPT !.pc = "accept", !.kind = "accept",
                                  !.todo = {p}, !.clears = TRUE])

\* ListPostsByIDs, the check that scheduled posts keep a channel, and the loop
\* over the posts.
BulkSetPostChannels(h, ps, chans) ==
    /\ ps # {}
    /\ \A p \in ps : Exists(p)
    /\ chans = {} => \A p \in ps : posts[p].status # "scheduled"
    /\ Begin(h, [NoRequest EXCEPT !.pc = "channels", !.kind = "bulk",
                                  !.todo = ps, !.channels = chans])

\* The same statements.
APIBulkSetPostChannels(h, ps, chans) == BulkSetPostChannels(h, ps, chans)

\* The INSERT of Store.CreatePost.
InsertPost(h) ==
    LET s == requests[h]
        p == lastId + 1
        row == [status |-> s.input.status, scheduledAt |-> s.input.scheduledAt,
                nextRetryAt |-> Null, failCount |-> 0,
                approvalPending |-> FlagOr(s.input.approvalPending, FALSE),
                planningApproved |-> FlagOr(s.input.planningApproved, FALSE)]
    IN /\ s.pc = "insert"
       /\ p \in PostIds
       /\ posts' = [posts EXCEPT ![p] = row]
       /\ lastId' = p
       /\ cleared' = IF s.clears THEN cleared \cup {p} ELSE cleared
       /\ requests' = [requests EXCEPT ![h] = [s EXCEPT !.pc = "channels", !.todo = {p}]]
       /\ UNCHANGED <<now, postChannels, channels, attempts,
                      acceptBeforePlanning, begun>>

\* The UPDATE of Store.UpdatePost, whatever has become of the post; a post that
\* is gone ends the request.
WritePost(h) ==
    LET s == requests[h]
    IN /\ s.pc = "update"
       /\ \E p \in s.todo :
             IF Exists(p)
             THEN /\ posts' = [posts EXCEPT ![p] = Updated(@, s.input)]
                  /\ cleared' = IF s.clears THEN cleared \cup {p} ELSE cleared
                  /\ Continue(h, IF s.kind = "update"
                                 THEN [s EXCEPT !.pc = "channels"] ELSE NoRequest)
             ELSE /\ UNCHANGED <<posts, cleared>>
                  /\ Continue(h, NoRequest)
       /\ UNCHANGED <<now, postChannels, channels, attempts>>

\* The UPDATE of AcceptPostPlanning, with the status GetPost has returned: a
\* draft or failed post becomes scheduled, and so does a scheduled one.
WriteAccepted(h) ==
    LET s == requests[h]
    IN /\ s.pc = "accept"
       /\ \E p \in s.todo :
             IF Exists(p)
             THEN /\ posts' = [posts EXCEPT ![p] = [@ EXCEPT
                        !.status = "scheduled", !.approvalPending = FALSE,
                        !.planningApproved = TRUE]]
                  /\ cleared' = cleared \cup {p}
             ELSE UNCHANGED <<posts, cleared>>
       /\ Continue(h, NoRequest)
       /\ UNCHANGED <<now, postChannels, channels, attempts>>

\* ReplacePostChannels, one transaction, which fails when a channel or the post
\* is gone and may fail for other reasons; only a create undoes its insert then.
ReplacePostChannels(h) ==
    LET s == requests[h]
    IN /\ s.pc = "channels"
       /\ \E p \in s.todo, ok \in BOOLEAN :
             LET rest == s.todo \ {p}
             IN /\ ok => /\ s.channels = {} \/ Exists(p)
                         /\ \A c \in s.channels : channels[c] # Null
                /\ postChannels' = IF ok THEN [postChannels EXCEPT ![p] = s.channels]
                                         ELSE postChannels
                /\ Continue(h,
                      IF ~ok /\ s.kind = "create" THEN [s EXCEPT !.pc = "undo"]
                      ELSE IF rest # {} THEN [s EXCEPT !.todo = rest]
                      ELSE NoRequest)
       /\ UNCHANGED <<now, posts, channels, attempts, cleared>>

UndoCreate(h) ==
    LET s == requests[h]
    IN /\ s.pc = "undo"
       /\ \E p \in s.todo : DeletePost(p)
       /\ Continue(h, NoRequest)
       /\ UNCHANGED <<now, channels, cleared>>

\* The request is cancelled, a statement of it fails or the server stops.
Abort(h) ==
    /\ requests[h].pc # "idle"
    /\ Continue(h, NoRequest)
    /\ UNCHANGED <<storeVars, cleared>>

\* DeletePost and APIDeletePost.
RemovePost(p) ==
    /\ Exists(p)
    /\ DeletePost(p)
    /\ UNCHANGED <<now, channels, requests, acceptBeforePlanning, lastId,
                   cleared, begun>>

\* Store.DeleteChannel, one transaction; the attempts cascade.
DeleteChannel(c) ==
    /\ channels[c] # Null
    /\ channels' = [channels EXCEPT ![c] = Null]
    /\ postChannels' = [p \in PostIds |-> postChannels[p] \ {c}]
    /\ attempts' = {r \in attempts : r.channel # c}
    /\ UNCHANGED <<now, posts, requests, acceptBeforePlanning, lastId, cleared,
                   begun>>

UpdateApprovalPolicy(enabled) ==
    /\ acceptBeforePlanning' = enabled
    /\ UNCHANGED <<storeVars, requests, lastId, cleared, begun>>

\* A send-now request, which no policy holds back.
AskToSend(p) ==
    /\ Exists(p)
    /\ posts[p].status # "sent"
    /\ cleared' = cleared \cup {p}
    /\ UNCHANGED <<storeVars, requests, acceptBeforePlanning, lastId, begun>>

\* What the scheduler stores for a post it was given, just now or long before,
\* because it was due or was to be sent: sent_at aside, that is MarkSent,
\* RecordFailure and SetPostState.
ProcessPost(p, status, retryAt) ==
    /\ IF p \in cleared THEN TRUE ELSE IsDue(p, now)
    /\ status \in {"sent", "failed", "scheduled"}
    /\ retryAt # Null => status = "scheduled"
    /\ SetPostState(p, status, posts[p].failCount, retryAt)
    /\ UNCHANGED <<now, postChannels, channels, attempts, requests,
                   acceptBeforePlanning, lastId, cleared, begun>>

Handle(h) ==
    \/ InsertPost(h)
    \/ WritePost(h)
    \/ WriteAccepted(h)
    \/ ReplacePostChannels(h)
    \/ UndoCreate(h)

\* A request arrives at a handler of several statements.
Arrive(h) ==
    \/ \E at \in Times, chans \in SUBSET ChannelIds, status \in {"draft", "scheduled"} :
          \/ CreatePost(h, status, at, chans)
          \/ \E p \in PostIds : UpdatePost(h, p, status, at, chans)
          \/ \E auth \in Auth :
                \/ APICreatePost(h, auth, status, at, chans)
                \/ \E p \in PostIds : APIUpdatePost(h, auth, p, status, at, chans)
    \/ \E p \in PostIds, at \in Times :
          \/ ReschedulePost(h, p, at)
          \/ \E auth \in Auth : APIReschedulePost(h, auth, p, at)
    \/ \E p \in PostIds : AcceptPostPlanning(h, p)
    \/ \E ps \in SUBSET PostIds, chans \in SUBSET ChannelIds :
          BulkSetPostChannels(h, ps, chans) \/ APIBulkSetPostChannels(h, ps, chans)

\* Everything but the scheduler and the requests to send.
HandlerNext ==
    \/ \E enabled \in BOOLEAN : UpdateApprovalPolicy(enabled)
    \/ \E c \in ChannelIds : DeleteChannel(c)
    \/ \E p \in PostIds : RemovePost(p)
    \/ \E h \in Handlers : Handle(h) \/ Abort(h) \/ Arrive(h)

Next ==
    \/ HandlerNext
    \/ \E p \in PostIds :
          \/ AskToSend(p)
          \/ \E status \in PostStatus, retryAt \in Times \cup {Null} :
                ProcessPost(p, status, retryAt)

Spec == Init /\ [][Next]_vars

-------------------------------------------------------------------------------
(***************************************************************************)
(* Properties.                                                             *)
(***************************************************************************)
\* The scheduler can only pick a post up that was accepted, was to be sent, or was
\* scheduled by somebody the policy does not hold back (a person, an agent with a
\* static key, anybody while it is off), however the requests of the agents that
\* it does overlap with each other, with an approval or a change of the policy.
ApprovalGate ==
    \A p \in PostIds :
        Exists(p) /\ posts[p].status = "scheduled" /\ ~posts[p].approvalPending =>
            p \in cleared

\* A post that was approved once is not in need of another approval.  Broken by
\* an agent's edit that read the post before the approval and writes it after.
ApprovalIsKept ==
    [][\A p \in PostIds :
          Exists(p) /\ posts[p].planningApproved =>
             ~Exists(p)' \/ (posts[p].planningApproved)']_vars
================================================================================
