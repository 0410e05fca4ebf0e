SPECIFICATION BusFairSpec
CONSTANTS
    source = source
    config = config
    source_sub = source_sub
    config_sub = config_sub
    Word = {source, config}
    Star = Star
    Hash = Hash
    MaxWords = 3
    Sub <- MCSub
    Topic <- MCTopic
    Binding <- MCBinding
    Filtered = {source_sub}
    Reconciler = {config_sub}
    STOP = STOP
    Dispatcher = Dispatcher
    Nobody = Nobody
    MaxEvents = 3
PROPERTY ImplementsMailbox
INVARIANT MatchesAsDefined
INVARIANT NothingLeftBehind
PROPERTY StopCompletes
PROPERTY AcceptedIsHandled
CHECK_DEADLOCK FALSE
