\* Every pair of files, two variables in every order, one edit in between.
SPECIFICATION Spec
CONSTANTS
    Trees <- SomeTrees
    Values <- SomeValues
    Depth <- SomeDepths
    Variables <- SomeVariables
    Toml <- SomeToml
    Lower <- LowerCase
    MaxVariables = 2
    MaxEdits = 1
    MaxPath = 6
INVARIANTS
    TypeOK
    ProjectOverUser
    EnvironmentStaysInPlace
    ReferencesHold
    UncontestedOverridesWin
\* The load has returned.
CHECK_DEADLOCK FALSE
