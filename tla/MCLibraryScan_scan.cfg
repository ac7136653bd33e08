SPECIFICATION FairSpec
CONSTANTS
    NPaths = 1
    NScopes = 1
    MaxCrashes = 1
INVARIANT TypeOK
PROPERTY FencedMissingIsGone
PROPERTY CompletedAgrees
PROPERTY StopWins
PROPERTY ControlObeyed
PROPERTY RequestServed
