\* Two overlapping requests on up to two channels, one by one or in bulk.
SPECIFICATION Spec
CONSTANTS
    Null = Null
    ChannelIds <- TwoChannels
    Types = {"instagram"}
    Urns = {a1}
    Phrases = {"ad"}
    Texts <- ShortTexts
    RuleInputs <- OneRule
    Tokens = {t1}
    Accounts = {a1}
    Handlers = {h1, h2}
    MaxRequests = 2
INVARIANTS
    TypeOK
    StatusFitsCredentials
    NothingOutlivesItsChannel
    AcceptedGoesOut
PROPERTIES
    AuditNamesEveryChange
SYMMETRY Alike
CHECK_DEADLOCK FALSE
