SPECIFICATION Spec
CONSTANTS
    Letters <- SomeLetters
    Digits <- SomeDigits
    Lower <- SmallOf
    MaxName = 10
    Namespaces <- SomeNamespaces
    Services <- AnyWord
    MaxServices = 2
INVARIANTS TypeOK ValidNames PortsApart ServicesApart
CHECK_DEADLOCK FALSE
