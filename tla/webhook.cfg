SPECIFICATION FairSpec
CONSTANTS
    Deliveries = {w1, w2}
    MaxPushes = 2
    None = None
INVARIANTS
    CommentsMatchTheirDelivery
    OneCommentPerDelivery
PROPERTIES
    DeliveriesEnd
CHECK_DEADLOCK FALSE
