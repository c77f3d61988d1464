SPECIFICATION Spec
CONSTANTS
    Text <- SomeText
    Contents <- SomeContents
    ConfigMaps <- SomeConfigMaps
    MaxChanges = 2
INVARIANTS TypeOK GrantedAsStored UsableGrants NoneWithoutCause
CHECK_DEADLOCK FALSE
