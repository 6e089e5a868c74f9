SPECIFICATION Spec
CONSTANTS
    Documents <- Informs
    MaxRounds = 5
    None = None
    Unread = Unread
INVARIANTS
    AcceptedExactly
    PowersAreLastReadable
    AddressOutranksUrl
    DecimalIsRead
    ReceiverScalesAgree
    PowerIsRecordable
\* A document is parsed once.
CHECK_DEADLOCK FALSE
