-------------------------------- MODULE Channels --------------------------------
(***************************************************************************)
(* Configuring channels (internal/handlers/channels.go, channel_update.go, *)
(* controlplane_api.go, internal/db/channels*.go): creating, editing,      *)
(* testing, rotating, enabling, disabling and deleting them, one by one or *)
(* in bulk, with the audit events of edits.  A handler takes one step per  *)
(* statement or per call of a platform.  Of a row's credentials only those *)
(* of the channel's own type are kept, of the status only what decides     *)
(* publishing: the name, base URLs, times and last_error are displayed.    *)
(***************************************************************************)
EXTENDS Content, FiniteSets, Sequences

CONSTANTS
    ChannelIds,  \* ids AUTOINCREMENT may hand out
    Types,       \* the types of channels that are created
    Tokens,      \* access tokens
    Accounts,    \* author URNs, page ids, business account ids
    Handlers,    \* requests that can be in progress at the same time
    MaxRequests  \* bound: requests begun

ASSUME ChannelsAssumption ==
    /\ ChannelIds \subseteq Nat
    /\ Types \subseteq ChannelTypes
    /\ Null \notin Tokens \cup Accounts
    /\ "unset" \notin Accounts
    /\ MaxRequests \in Nat

VARIABLES
    channels,   \* table channels: a row, or Null
    rules,      \* table channel_rules: the row of a channel, or Null
    policied,   \* the channels with a row in channel_retry_policies
    audit,      \* table channel_audit_events, by channel, oldest first
    lastId,     \* the AUTOINCREMENT counter of channels
    requests,   \* the local variables of each handler
    begun,      \* requests so far
    disturbed,  \* history: channels whose status was last written by a test of
                \* a row that had changed since it was read, or whose enabling
                \* was cut short before its test
    failedProbes \* history: credentials a probe has failed with, by channel

tables == <<channels, rules, policied, audit, lastId>>
vars == <<tables, requests, begun, disturbed, failedProbes>>

Status == {"active", "error", "disabled"}
MaybeToken == Tokens \cup {Null}
MaybeAccount == Accounts \cup {Null}
Credentials == MaybeToken \X MaybeAccount

Row == [type : Types, status : Status, token : MaybeToken, account : MaybeAccount]
ASSUME NoRowAssumption == Null \notin Row

\* channel.updated: the fields named as changed and the statuses around it.
Field == {"status", "token", "account"}
Event == [changed : SUBSET Field, before : Status, after : Status]

\* ChannelUpdateInput: an action on the secret, and the account unless unset.
SecretAction == {"keep", "replace", "clear"}
Input == [action : SecretAction, token : MaybeToken,
          account : MaybeAccount \cup {"unset"}]
ASSUME NoInputAssumption == Null \notin Input

Request ==
    [pc      : {"idle", "next", "read", "write",
                "get", "verdict", "reget", "probe", "result"},
     channel : ChannelIds \cup {Null},
     todo    : SUBSET ChannelIds,     \* the channels of a bulk request to come
     target  : {"active", "disabled"}, \* the status a bulk request sets
     enables : BOOLEAN,               \* the test of an enable
     tests   : BOOLEAN,               \* a rotation that is validated
     input   : Input \cup {Null},
     row     : Row \cup {Null},       \* the row as it was read
     ok      : BOOLEAN,               \* what the probe said
     fresh   : BOOLEAN]               \* history: nobody has written it since

NoRequest ==
    [pc |-> "idle", channel |-> Null, todo |-> {}, target |-> "disabled",
     enables |-> FALSE, tests |-> FALSE, input |-> Null, row |-> Null,
     ok |-> FALSE, fresh |-> FALSE]

TypeOK ==
    /\ channels \in [ChannelIds -> Row \cup {Null}]
    /\ rules \in [ChannelIds -> Rule \cup {Null}]
    /\ policied \subseteq ChannelIds
    /\ audit \in [ChannelIds -> Seq(Event)]
    /\ lastId \in Nat
    /\ requests \in [Handlers -> Request]
    /\ begun \in Nat
    /\ disturbed \subseteq ChannelIds
    /\ failedProbes \in [ChannelIds -> SUBSET Credentials]

-------------------------------------------------------------------------------
Exists(c) == channels[c] # Null

\* validateChannelConfig: nothing that the type requires is missing.
Complete(row) == Configured(row.type, row.token, row.account)

\* Mutant: a status that is not one of a channel's.
StatusOrFailed(row) == IF Complete(row) THEN "active" ELSE "failed"

\* The status it gives a channel.
StatusOf(row) == IF Complete(row) THEN "active" ELSE "error"

\* applySecretAction, and applyNullableStringPatch.
SecretAfter(token, input) ==
    CASE input.action = "keep" -> token
      [] input.action = "clear" -> Null
      [] input.action = "replace" -> input.token
AccountAfter(account, input) ==
    IF input.account = "unset" THEN account ELSE input.account

Edited(row, input) ==
    [row EXCEPT !.token = SecretAfter(row.token, input),
                !.account = AccountAfter(row.account, input)]

\* Mutant: an edit keeps the status the channel had.
AppliedWithOldStatus(row, input) == Edited(row, input)

\* UpdateChannel: the row it writes, from the row it has read.
Applied(row, input) ==
    [Edited(row, input) EXCEPT !.status = StatusOf(Edited(row, input))]

\* Mutant: only what is set is looked at, a cleared account is not reported.
ChangedWhenSet(row, input) ==
    {f \in {"status"} : Applied(row, input).status # row.status} \cup
    {f \in {"token"} : input.action # "keep"} \cup
    {f \in {"account"} : input.account \notin {"unset", Null, row.account}}

\* collectChangedChannelFields.
Changed(row, input) ==
    {f \in {"status"} : Applied(row, input).status # row.status} \cup
    {f \in {"token"} : input.action # "keep"} \cup
    {f \in {"account"} : Applied(row, input).account # row.account}

\* A write of channel c makes what handlers have read of it stale.
Outdated(c) ==
    [g \in Handlers |-> IF requests[g].channel = c
                        THEN [requests[g] EXCEPT !.fresh = FALSE]
                        ELSE requests[g]]

\* The handler that writes goes on with request.
Outdate(h, c, request) == requests' = [Outdated(c) EXCEPT ![h] = request]

\* A test has written the status, from what it had read.
Judged(c, fresh) == disturbed' = IF fresh THEN disturbed \ {c} ELSE disturbed \cup {c}

\* The end of a request, or of one turn of a bulk request.
Finished(s) ==
    IF s.todo = {} THEN NoRequest
    ELSE [NoRequest EXCEPT !.pc = "next", !.todo = s.todo, !.target = s.target]

\* runChannelTest on channel c; `enables' when the channel was just enabled.
Test(s, c, enables) ==
    [Finished(s) EXCEPT !.pc = "get", !.channel = c, !.enables = enables]

\* The tables after some channels have been created.
Init ==
    /\ channels \in [ChannelIds -> {row \in Row : row.status = StatusOf(row)} \cup {Null}]
    /\ rules = [c \in ChannelIds |-> Null]
    /\ policied = {}
    /\ audit = [c \in ChannelIds |-> <<>>]
    /\ lastId \in {0} \cup ChannelIds
    /\ \A c \in ChannelIds : Exists(c) <=> c <= lastId
    /\ requests = [h \in Handlers |-> NoRequest]
    /\ begun = 0
    /\ disturbed = {}
    /\ failedProbes = [c \in ChannelIds |-> {}]

-------------------------------------------------------------------------------
(***************************************************************************)
(* Requests of a single statement.                                         *)
(***************************************************************************)
\* The INSERT of Store.CreateChannel.
InsertChannel(c, row) ==
    /\ channels' = [channels EXCEPT ![c] = [row EXCEPT !.status = StatusOf(row)]]
    /\ lastId' = c

\* CreateChannel and APICreateChannel, from parseChannelForm or parseChannelPayload.
CreateChannel(type, token, account) ==
    LET row == [type |-> type, status |-> "active", token |-> token, account |-> account]
    IN /\ begun < MaxRequests
       /\ lastId + 1 \in ChannelIds
       /\ InsertChannel(lastId + 1, row)
       /\ begun' = begun + 1
       /\ UNCHANGED <<rules, policied, audit, requests, disturbed, failedProbes>>

\* The DELETE of Store.DeleteChannel: rules, policies and audit events cascade.
RemoveChannel(c) ==
    /\ channels' = [channels EXCEPT ![c] = Null]
    /\ rules' = [rules EXCEPT ![c] = Null]
    /\ policied' = policied \ {c}
    /\ audit' = [audit EXCEPT ![c] = <<>>]

\* DeleteChannel and APIDeleteChannel.
DeleteChannel(c) ==
    /\ begun < MaxRequests
    /\ Exists(c)
    /\ RemoveChannel(c)
    /\ requests' = Outdated(c)
    /\ begun' = begun + 1
    /\ UNCHANGED <<lastId, disturbed, failedProbes>>

\* Mutant: a connection without _pragma=foreign_keys(1), which SQLite leaves off.
UpsertChannelRuleAnyway(c, input) ==
    LET rule == normalizeChannelRuleInput(input)
    IN rules' = [rules EXCEPT ![c] = IF Enabled(rule) THEN rule ELSE Null]

\* A delete when the input leaves no rule, or else an upsert, which the foreign
\* key refuses when the channel is gone.
UpsertChannelRule(c, input) ==
    LET rule == normalizeChannelRuleInput(input)
    IN \/ /\ ~Enabled(rule)
          /\ rules' = [rules EXCEPT ![c] = Null]
       \/ /\ Enabled(rule)
          /\ Exists(c)
          /\ rules' = [rules EXCEPT ![c] = rule]

\* UpdateChannelRules does not look for the channel; APIUpdateChannelRules does.
UpdateChannelRules(c) ==
    /\ begun < MaxRequests
    /\ \E input \in RuleInputs : UpsertChannelRule(c, input)
    /\ begun' = begun + 1
    /\ UNCHANGED <<channels, policied, audit, lastId, requests, disturbed, failedProbes>>

APIUpdateChannelRules(c) == Exists(c) /\ UpdateChannelRules(c)

UpsertChannelRetryPolicy(c) == Exists(c) /\ policied' = policied \cup {c}

APIUpdateChannelRetryPolicy(c) ==
    /\ begun < MaxRequests
    /\ UpsertChannelRetryPolicy(c)
    /\ begun' = begun + 1
    /\ UNCHANGED <<channels, rules, audit, lastId, requests, disturbed, failedProbes>>

\* The statement of SetChannelStatus, whatever the row says.
SetChannelStatus(h, c, status, request) ==
    /\ channels' = [channels EXCEPT ![c] = [channels[c] EXCEPT !.status = status]]
    /\ Outdate(h, c, request)

\* DisableChannel, EnableChannel and their API twins: an enabled channel is
\* active until its test says otherwise.
SetStatus(h, c, status) ==
    /\ requests[h].pc = "idle"
    /\ begun < MaxRequests
    /\ Exists(c)
    /\ SetChannelStatus(h, c, status,
          IF status = "active" THEN Test(NoRequest, c, TRUE) ELSE NoRequest)
    /\ begun' = begun + 1
    /\ UNCHANGED <<rules, policied, audit, lastId, disturbed, failedProbes>>

-------------------------------------------------------------------------------
(***************************************************************************)
(* Requests of several statements.                                         *)
(***************************************************************************)
Begin(h, request) ==
    /\ requests[h].pc = "idle"
    /\ begun < MaxRequests
    /\ begun' = begun + 1
    /\ requests' = [requests EXCEPT ![h] = request]
    /\ UNCHANGED <<tables, disturbed, failedProbes>>

\* TestChannel and APITestChannel.
TestChannel(h, c) == Exists(c) /\ Begin(h, Test(NoRequest, c, FALSE))

\* parseChannelUpdatePayload: a secret comes with the action that takes it, and
\* applySecretAction refuses to replace one by nothing.
ParsedPayload == {input \in Input : input.action = "replace" <=> input.token # Null}

\* parseChannelUpdateForm: the fields of a form are never unset, only blank.
ParsedForm == {input \in ParsedPayload : input.account # "unset"}

BeginUpdate(h, c, input, tests) ==
    /\ Exists(c)
    /\ Begin(h, [NoRequest EXCEPT !.pc = "read", !.channel = c, !.input = input,
                                  !.tests = tests])

UpdateChannel(h, c) == \E input \in ParsedForm : BeginUpdate(h, c, input, FALSE)

APIUpdateChannel(h, c) == \E input \in ParsedPayload : BeginUpdate(h, c, input, FALSE)

\* An update and, unless the caller declines, a test.
APIRotateChannelCredentials(h, c) ==
    \E input \in ParsedPayload, validate \in BOOLEAN : BeginUpdate(h, c, input, validate)

\* apiBulkSetChannelStatus: ListChannelsByIDs finds every channel.
BulkSetStatus(h, cs, status) ==
    /\ cs # {}
    /\ \A c \in cs : Exists(c)
    /\ Begin(h, [NoRequest EXCEPT !.pc = "next", !.todo = cs, !.target = status])

\* One turn of its loop: a channel that is gone by now, or whose statement fails,
\* is counted as failed and the loop goes on.
BulkNext(h) ==
    LET s == requests[h]
    IN /\ s.pc = "next"
       /\ \E c \in s.todo, ok \in BOOLEAN :
             LET rest == [s EXCEPT !.todo = s.todo \ {c}]
             IN IF ok /\ Exists(c)
                THEN SetChannelStatus(h, c, s.target,
                        IF s.target = "active" THEN Test(rest, c, TRUE)
                                               ELSE Finished(rest))
                ELSE /\ requests' = [requests EXCEPT ![h] = Finished(rest)]
                     /\ UNCHANGED channels
       /\ UNCHANGED <<rules, policied, audit, lastId, begun, disturbed, failedProbes>>

\* GetChannel, at the head of UpdateChannel and of TestChannel, and once more
\* for the probe: a test that finds the channel not active ends there.
GetChannel(h) ==
    LET s == requests[h]
        then == CASE s.pc = "read" -> "write"
                  [] s.pc = "get" -> "verdict"
                  [] s.pc = "reget" -> "probe"
    IN /\ s.pc \in {"read", "get", "reget"}
       /\ requests' = [requests EXCEPT ![h] =
             IF Exists(s.channel) /\ (s.pc = "reget" => channels[s.channel].status = "active")
             THEN [s EXCEPT !.pc = then, !.row = channels[s.channel], !.fresh = TRUE]
             ELSE Finished(s)]
       /\ UNCHANGED <<tables, begun, disturbed, failedProbes>>

\* The transaction of UpdateChannel: the whole row as it was read and edited,
\* and its audit event; nothing when the channel is gone.
WriteUpdate(h) ==
    LET s == requests[h]
        c == s.channel
        row == Applied(s.row, s.input)
        event == [changed |-> Changed(s.row, s.input),
                  before |-> s.row.status, after |-> row.status]
        next == IF s.tests THEN Test(NoRequest, c, FALSE) ELSE NoRequest
    IN /\ s.pc = "write"
       /\ \/ /\ Exists(c)
             /\ channels' = [channels EXCEPT ![c] = row]
             /\ audit' = [audit EXCEPT ![c] = Append(audit[c], event)]
             /\ disturbed' = disturbed \ {c}
             /\ Outdate(h, c, next)
          \/ /\ ~Exists(c)
             /\ requests' = [requests EXCEPT ![h] = NoRequest]
             /\ UNCHANGED <<channels, audit, disturbed>>
       /\ UNCHANGED <<rules, policied, lastId, begun, failedProbes>>

\* SetChannelTestResult, whatever has become of the row since it was read.
SetTestResult(h, status, request) ==
    LET s == requests[h]
        c == s.channel
    IN /\ IF Exists(c)
          THEN /\ channels' = [channels EXCEPT ![c] = [channels[c] EXCEPT !.status = status]]
               /\ Judged(c, s.fresh)
               /\ Outdate(h, c, request)
          ELSE /\ requests' = [requests EXCEPT ![h] = Finished(s)]
               /\ UNCHANGED <<channels, disturbed>>
       /\ UNCHANGED <<rules, policied, audit, lastId, begun, failedProbes>>

\* Store.TestChannel: what the stored credentials are worth without a platform.
SetVerdict(h) ==
    LET s == requests[h]
    IN /\ s.pc = "verdict"
       /\ SetTestResult(h, StatusOf(s.row), [s EXCEPT !.pc = "reget", !.row = Null,
                                                      !.fresh = FALSE])

\* probeChannel, with the credentials that were read.  Whatever goes wrong counts
\* alike: a refusal, a limit, an error of the platform, or no answer at all.
Probe(h) ==
    LET s == requests[h]
    IN /\ s.pc = "probe"
       /\ \E reply \in Reply :
             LET ok == ProbeSucceeds(s.row.type, s.row.token, s.row.account, reply)
             IN /\ requests' = [requests EXCEPT ![h] = [s EXCEPT !.pc = "result", !.ok = ok]]
                /\ failedProbes' =
                      IF ok THEN failedProbes
                      ELSE [failedProbes EXCEPT ![s.channel] =
                               @ \cup {<<s.row.token, s.row.account>>}]
       /\ UNCHANGED <<tables, begun, disturbed>>

\* The end of runChannelTest.
SetProbeResult(h) ==
    LET s == requests[h]
    IN /\ s.pc = "result"
       /\ SetTestResult(h, IF s.ok THEN "active" ELSE "error", Finished(s))

\* A statement fails, the request is cancelled or the server stops; the loop of
\* a bulk request goes on after a failing statement.
Abort(h) ==
    LET s == requests[h]
    IN /\ s.pc # "idle"
       /\ \E end \in {NoRequest, Finished(s)} : requests' = [requests EXCEPT ![h] = end]
       /\ disturbed' = IF s.enables /\ s.pc \in {"get", "verdict"}
                       THEN disturbed \cup {s.channel} ELSE disturbed
       /\ UNCHANGED <<tables, begun, failedProbes>>

Handle(h) ==
    \/ BulkNext(h)
    \/ GetChannel(h)
    \/ WriteUpdate(h)
    \/ SetVerdict(h)
    \/ Probe(h)
    \/ SetProbeResult(h)

Next ==
    \/ \E type \in Types, token \in MaybeToken, account \in MaybeAccount :
          CreateChannel(type, token, account)
    \/ \E c \in ChannelIds :
          \/ UpdateChannelRules(c)
          \/ APIUpdateChannelRules(c)
          \/ APIUpdateChannelRetryPolicy(c)
          \/ DeleteChannel(c)
          \/ \E h \in Handlers :
                \/ \E status \in {"active", "disabled"} : SetStatus(h, c, status)
                \/ TestChannel(h, c)
                \/ UpdateChannel(h, c)
                \/ APIUpdateChannel(h, c)
                \/ APIRotateChannelCredentials(h, c)
    \/ \E h \in Handlers :
          \/ \E cs \in SUBSET ChannelIds, status \in {"active", "disabled"} :
                BulkSetStatus(h, cs, status)
          \/ Handle(h)
          \/ Abort(h)

Spec == Init /\ [][Next]_vars

\* A handler that has begun goes on; nobody has to send a request.
FairSpec == Spec /\ \A h \in Handlers : WF_vars(Handle(h))

-------------------------------------------------------------------------------
(***************************************************************************)
(* Properties.                                                             *)
(***************************************************************************)
\* The channel was enabled and its test has not come to a verdict yet.
Enabling(c) ==
    \E h \in Handlers : /\ requests[h].channel = c
                        /\ requests[h].enables
                        /\ requests[h].pc \in {"get", "verdict"}

\* However edits, rotations, tests and enablings overlap: unless the last write
\* was that of a test whose row had changed meanwhile, or an enabling was cut
\* short, an active channel has the credentials its publisher needs, and a channel
\* in error lacks some or has ones that some probe of this channel was made with
\* and failed: because the platform refused them, but just as well because it was
\* slow or in trouble.  (An edit of an old row brings the old credentials back, with
\* the status that fits them.)
StatusFitsCredentials ==
    \A c \in ChannelIds :
        Exists(c) /\ c \notin disturbed /\ ~Enabling(c) =>
            LET row == channels[c]
            IN /\ row.status = "active" => Complete(row)
               /\ row.status = "error" =>
                     ~Complete(row) \/ <<row.token, row.account>> \in failedProbes[c]

\* Whatever was in progress when a channel was deleted, no rule, policy or audit
\* event is left or recorded for it afterwards.
NothingOutlivesItsChannel ==
    \A c \in ChannelIds :
        ~Exists(c) => audit[c] = <<>> /\ rules[c] = Null /\ c \notin policied

\* The checks a post has passed when it is planned on channel c.
Accepts(c, text, media) ==
    /\ IsEditableMedia(media)
    /\ rules[c] # Null /\ Enabled(rules[c]) => KeepsRule(text, rules[c])
    /\ FitsCapabilities(channels[c].type, media)

\* What is left of it goes to the platform, which has the last word.
GoesOut(c, text, media) ==
    LET row == channels[c]
    IN /\ rules[c] # Null => ~ViolatesRule(text, rules[c])
       /\ Refusals(row.type, row.token, row.account, Scanned(WithType(media))) = {}

\* Whatever has happened to the rules and the credentials of an active channel,
\* and although both the type of the media and the checks that were made are lost
\* on the way: neither the scheduler nor the publisher refuses a post that would be
\* accepted there when it is planned.
AcceptedGoesOut ==
    \A c \in ChannelIds :
        Exists(c) /\ channels[c].status = "active" /\ c \notin disturbed /\ ~Enabling(c) =>
            \A text \in Texts, media \in Media :
                Accepts(c, text, media) => GoesOut(c, text, media)

\* The update of channel c is made from a row that has changed meanwhile.
StaleUpdate(c) ==
    \E h \in Handlers : /\ requests[h].pc = "write"
                        /\ requests[h].channel = c
                        /\ ~requests[h].fresh
                        /\ requests[h]' # requests[h]

\* What an edit changes of channel c, the audit event that comes with it names.
AuditNames(c) ==
    LET old == channels[c]
        new == channels'[c]
        edited == {f \in {"token", "account"} : old[f] # new[f]}
    IN \/ edited = {} /\ audit'[c] = audit[c]
       \/ /\ Len(audit'[c]) = Len(audit[c]) + 1
          /\ LET event == audit'[c][Len(audit'[c])]
             IN \/ StaleUpdate(c)
                \/ /\ {f \in Field : old[f] # new[f]} \subseteq event.changed
                   /\ event.before = old.status
                   /\ event.after = new.status

\* Stored credentials change in a step that appends an audit event, and the event
\* names every field that changes and the status there was, except when the
\* update overlaps with another write: then it puts old credentials back and
\* reports `keep'.
AuditNamesEveryChange ==
    [][\A c \in ChannelIds : Exists(c) /\ Exists(c)' => AuditNames(c)]_vars
================================================================================
