------------------------------- MODULE Publishers -------------------------------
(***************************************************************************)
(* Publishers (internal/publisher, linkedin, facebook, instagram): what a  *)
(* Publish or a Probe makes of the platform's replies, and which of the    *)
(* outcomes that the publishing service tells apart they can have.  A      *)
(* platform and its network are outside the program: all that is assumed   *)
(* of them is Took.  Base URLs have defaults and are left out, so are the  *)
(* texts of posts and errors.                                              *)
(***************************************************************************)
EXTENDS Integers

CONSTANTS
    Null,  \* nil / NULL
    Urns   \* the accounts that begin with urn:li:

ChannelTypes == {"linkedin", "facebook-page", "instagram", "dry-run"}

\* Configured() of the publisher buildChannelPublisher makes of a channel.
Configured(type, token, account) ==
    type = "dry-run" \/ (token # Null /\ account # Null)

\* buildPublisher, the fallback for posts without channels.
FallbackType(mode, token, account) ==
    IF mode \in {"linkedin", "facebook-page"} /\ Configured(mode, token, account)
    THEN mode ELSE "dry-run"

\* A reply is an HTTP status with the kind of error its body tells of, or no
\* answer at all: a failing transport or the timeout (20 seconds, Instagram's 30).
NoAnswer == 0
Statuses == {NoAnswer, 200, 304, 400, 401, 403, 404, 422, 429, 500}
Bodies == {"plain", "expired", "invalid_oauth", "scope"}
Reply == [status : Statuses, body : Bodies]

Success(reply) == reply.status \in 200 .. 299

\* The answers after which a publish is worth another try.
Retryable(reply) ==
    reply.status = NoAnswer \/ reply.status = 429 \/ reply.status >= 500

\* What a status says on every platform, whatever the body.
StatusCategory(reply) ==
    CASE reply.status = 429 -> "rate_limited"
      [] reply.status = 401 -> "auth_expired"
      [] reply.status = 403 -> "scope_missing"
      [] reply.status = NoAnswer \/ reply.status >= 500 -> "upstream_error"
      [] OTHER -> "unknown"

\* LinkedIn looks at the status alone, the others at the body as well.
categorizeLinkedInStatus(reply) ==
    IF reply.status \in {400, 422} THEN "validation_error" ELSE StatusCategory(reply)

BodyCategory(reply, expired) ==
    IF StatusCategory(reply) # "unknown" THEN StatusCategory(reply)
    ELSE CASE reply.body \in expired -> "auth_expired"
           [] reply.body = "scope" -> "scope_missing"
           [] OTHER -> IF reply.status >= 400 THEN "validation_error" ELSE "unknown"

categorizeFacebookStatus(reply) == BodyCategory(reply, {"expired"})

categorizeInstagramStatus(reply) == BodyCategory(reply, {"expired", "invalid_oauth"})

-------------------------------------------------------------------------------
\* A PublishError, respectively a PublishResult.  `took': the post is out.
Failed(retryable, category, took) ==
    [ok |-> FALSE, retryable |-> retryable, category |-> category, took |-> took]
Published == [ok |-> TRUE, retryable |-> FALSE, category |-> "unknown", took |-> TRUE]

NotConfigured == Failed(FALSE, "auth_expired", FALSE)

\* Whether a request that got this reply can have taken effect.  An answer of
\* the platform tells; without one, or after an error of its own, either is
\* possible.
Took(reply) ==
    IF Success(reply) THEN {TRUE}
    ELSE IF reply.status = NoAnswer \/ reply.status >= 500 THEN BOOLEAN
    ELSE {FALSE}

\* The request that makes a post public: all there is on LinkedIn and Facebook.
PublicRequest(categorize(_)) ==
    {IF Success(x[1]) THEN Published ELSE Failed(Retryable(x[1]), categorize(x[1]), x[2]) :
        x \in {y \in Reply \X BOOLEAN : y[2] \in Took(y[1])}}

PublishLinkedIn == PublicRequest(categorizeLinkedInStatus)

PublishFacebook == PublicRequest(categorizeFacebookStatus)

\* The media of a post: what its URL ends in, and the type it was given.
Media ==
    [url  : {Null, "clip", "picture", "page"},
     type : {Null, "image", "video", "link", "document"}]

inferMediaType(media) == IF media.url = "clip" THEN "video" ELSE "image"

\* Instagram's first request creates a container, which nobody sees: a failure
\* of it, or an answer without an id, publishes nothing.
ContainerFailures ==
    {Failed(Retryable(reply), categorizeInstagramStatus(reply), FALSE) :
        reply \in {r \in Reply : ~Success(r)}}
        \cup {Failed(TRUE, "upstream_error", FALSE)}

PublishInstagram == ContainerFailures \cup PublicRequest(categorizeInstagramStatus)

\* The media Instagram is given, and the type it takes it for.
InstagramTakes(media) ==
    /\ media.url # Null
    /\ (IF media.type = Null THEN inferMediaType(media) ELSE media.type)
           \in {"image", "video", "link"}

\* What a publisher refuses before it sends anything.
Refusals(type, token, account, media) ==
    IF ~Configured(type, token, account) THEN {NotConfigured}
    ELSE IF type = "instagram" /\ ~InstagramTakes(media)
         THEN {Failed(FALSE, "validation_error", FALSE)}
    ELSE {}

\* Publish of the publisher buildChannelPublisher makes of a channel.
Publish(type, token, account, media) ==
    IF Refusals(type, token, account, media) # {}
    THEN Refusals(type, token, account, media)
    ELSE CASE type = "linkedin" -> PublishLinkedIn
           [] type = "facebook-page" -> PublishFacebook
           [] type = "instagram" -> PublishInstagram
           [] type = "dry-run" -> {Published}

\* Probe, a GET that says whether the platform takes the credentials.
ProbeLinkedIn(token, account, reply) ==
    /\ Configured("linkedin", token, account)
    /\ account \in Urns
    /\ Success(reply)

ProbeFacebook(token, account, reply) ==
    Configured("facebook-page", token, account) /\ Success(reply)

ProbeInstagram(token, account, reply) ==
    Configured("instagram", token, account) /\ Success(reply)

\* probeChannel: no error.
ProbeSucceeds(type, token, account, reply) ==
    CASE type = "linkedin" -> ProbeLinkedIn(token, account, reply)
      [] type = "facebook-page" -> ProbeFacebook(token, account, reply)
      [] type = "instagram" -> ProbeInstagram(token, account, reply)
      [] type = "dry-run" -> TRUE

\* IsRetryable and ErrorCategory, as attemptChannelPublish uses them.
Outcome(result) ==
    IF result.ok THEN "ok"
    ELSE IF ~result.retryable THEN "permanent"
    ELSE IF result.category = "rate_limited" THEN "rate_limited"
    ELSE IF result.took THEN "lost"
    ELSE "transient"

\* All that the publisher of a channel of this type can answer.
Answers(type, token, account, media) ==
    {Outcome(result) : result \in Publish(type, token, account, media)}
================================================================================
