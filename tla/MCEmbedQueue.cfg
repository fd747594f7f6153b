SPECIFICATION Spec
CONSTANTS
    Embeds <- MCEmbeds
    Length <- MCLength
    MaxEmbeds = 2
    MaxLength = 8
    NoTimer = NoTimer
INVARIANTS
    IInv
    HeldOnceUntilPosted
    BatchesBounded
    QueuedMeansTimerPending
    OnlyOversizeEmbedsRefused
PROPERTIES
    EventuallyPosted
    ImplementsLogDelivery
CHECK_DEADLOCK FALSE
