SPECIFICATION Spec
CONSTANTS
    MetricKeys <- TwoMetricKeys
    ParamKeys <- BothParamKeys
    RxKey <- NormalKey
    Names <- AllNames
    Reports <- AllReports
    MaxRecords = 3
    MaxQuiet = 3
    Null = Null
    Text = Text
    NotObject = NotObject
    None = None
INVARIANTS
    TypeOK
    ShownPowerIsNearRecord
    RetryAddsNoRecord
    PlainPowerIsTracked
PROPERTY ParametersStay
\* With MaxRecords history rows no report is taken: after a crash the row may stay away.
CHECK_DEADLOCK FALSE
