SPECIFICATION Spec
CONSTANTS
    Letters <- Alphabet
    Digits <- Numerals
    Lower <- NoCapitals
    MaxName = 30
    First <- Grafana
    Second <- Alertmanager
    Position <- ZeroBased
    NumPorts = 1
    MaxLBs = 2
    MaxTGs = 2
    PromptCloud = TRUE
    DeleteMissingFails = FALSE
INVARIANT PublishedStays
CHECK_DEADLOCK FALSE
