CONSTANTS
    Configs <- AllConfigs
    Scores <- AllScores
    Unscored = Unscored
    Failed = Failed
    Contents <- SomeContents
    NoTag = NoTag
    Default = 1
    One = 2
SPECIFICATION Spec
INVARIANTS
    EscalationIsRecorded
