CONSTANTS
    Tokens <- KeywordTestTokens
    MaxTokens = 3
SPECIFICATION Spec
INVARIANTS
    UnterminatedDeclarationReported
