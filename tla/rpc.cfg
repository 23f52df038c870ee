SPECIFICATION FairSpec
CONSTANTS
    Messages <- AllMessages
    MaxMessages = 3
CHECK_DEADLOCK FALSE
INVARIANTS TypeOK BodyCanEnd InitializeAnsweredFirst AnsweredOnce CleanStop
PROPERTIES DeliverySpec EventuallyTakenUp InterruptStops
