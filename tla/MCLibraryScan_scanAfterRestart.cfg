SPECIFICATION Spec
CONSTANTS
    NPaths = 1
    NScopes = 1
    MaxCrashes = 1
PROPERTY MissingIsGone
