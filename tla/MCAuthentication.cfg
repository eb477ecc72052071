SPECIFICATION Spec
CONSTANTS
    Chars <- MCChars
    Arns <- MCArns
    Configurations <- MCConfigurations
    None = None
INVARIANTS
    AuthTypeOK
    AcceptedMatches
    RefusedOnlyWhenAmbiguous
