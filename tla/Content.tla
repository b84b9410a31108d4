-------------------------------- MODULE Content --------------------------------
(***************************************************************************)
(* What the program asks of the text and the media of a post: when it is   *)
(* planned (internal/model, internal/handlers/agent_features.go) and again *)
(* when it is published (internal/scheduler/service.go), each with its own *)
(* copy of the rules, and what of it the row of the post keeps in between  *)
(* (internal/db/store.go).  Of a text only its length, its hashtags and    *)
(* the phrases it contains are kept, whatever their case.                  *)
(***************************************************************************)
EXTENDS Publishers

CONSTANTS
    Phrases,    \* the phrases a rule may require
    Texts,      \* the texts of posts
    RuleInputs  \* the rules that are asked for

\* A phrase of blanks alone.
Blank == "blank"

Limit == (Nat \ {0}) \cup {Null}
Rule == [maxTextLength : Limit, maxHashtags : Limit, requiredPhrase : Phrases \cup {Null}]
RuleInput ==
    [maxTextLength : Limit, maxHashtags : Limit, requiredPhrase : Phrases \cup {Null, Blank}]
Text == [length : Nat \ {0}, hashtags : Nat, phrases : SUBSET Phrases]

ASSUME ContentAssumption ==
    /\ Blank \notin Phrases
    /\ Texts \subseteq Text
    /\ RuleInputs \subseteq RuleInput
ASSUME NullIsNoRule == Null \notin Int \cup Rule

-------------------------------------------------------------------------------
(***************************************************************************)
(* Media.                                                                  *)
(***************************************************************************)
\* InferMediaTypeFromURL, which knows links apart from pictures: inferMediaType of
\* the Instagram publisher does not.
InferMediaTypeFromURL(media) ==
    CASE media.url = Null -> Null
      [] media.url = "picture" -> "image"
      [] media.url = "clip" -> "video"
      [] media.url = "page" -> "link"

\* The media part of ValidateEditableInput.
IsEditableMedia(media) ==
    media.type # Null => media.type \in {"link", "image", "video"} /\ media.url # Null

\* The media of parsePostForm and parsePostPayload.
WithType(media) ==
    IF media.type = Null THEN [media EXCEPT !.type = InferMediaTypeFromURL(media)] ELSE media

\* scanPost: the media of a post as ListDuePosts and GetPost return it.  The query
\* has no column for the type.
Scanned(media) == [media EXCEPT !.type = Null]

ChannelCapabilitiesForType(type) ==
    [mediaTypes |-> CASE type \in {"linkedin", "facebook-page"} -> {"link"}
                      [] type = "instagram" -> {"image", "video"}
                      [] type = "dry-run" -> {"link", "image", "video"},
     requiresMedia |-> type = "instagram"]

\* validatePostAgainstChannelCapabilities, for one channel: no violation.
FitsCapabilities(type, media) ==
    LET capabilities == ChannelCapabilitiesForType(type)
    IN /\ capabilities.requiresMedia => media.url # Null
       /\ media.url # Null => WithType(media).type \in capabilities.mediaTypes

-------------------------------------------------------------------------------
(***************************************************************************)
(* Rules.                                                                  *)
(***************************************************************************)
normalizeChannelRuleInput(input) ==
    [input EXCEPT !.requiredPhrase =
        IF input.requiredPhrase = Blank THEN Null ELSE input.requiredPhrase]

Enabled(rule) ==
    rule.maxTextLength # Null \/ rule.maxHashtags # Null \/ rule.requiredPhrase # Null

\* Mutant: the limits do not belong to what they limit.
KeepsSwappedRule(text, rule) ==
    /\ rule.maxTextLength # Null => text.hashtags <= rule.maxTextLength
    /\ rule.maxHashtags # Null => text.length <= rule.maxHashtags
    /\ rule.requiredPhrase # Null => rule.requiredPhrase \in text.phrases

\* validateTextWithRule, when the post is planned: no violation.
KeepsRule(text, rule) ==
    /\ rule.maxTextLength # Null => text.length <= rule.maxTextLength
    /\ rule.maxHashtags # Null => text.hashtags <= rule.maxHashtags
    /\ rule.requiredPhrase # Null => rule.requiredPhrase \in text.phrases

\* validatePostAgainstRule, when it is published: an error.
ViolatesRule(text, rule) ==
    \/ rule.maxTextLength # Null /\ text.length > rule.maxTextLength
    \/ rule.maxHashtags # Null /\ text.hashtags > rule.maxHashtags
    \/ rule.requiredPhrase # Null /\ rule.requiredPhrase \notin text.phrases
================================================================================
