\* Two routes, two threads that arm them, and two seeds with two details.
SPECIFICATION Spec

CONSTANTS
    gold = gold
    other = other
    t1 = t1
    t2 = t2
    buy = buy
    sell = sell
    buyDetails = buyDetails
    sellReply = sellReply
    album = album
    None = None
    Routes = {gold, other}
    Startable = {gold}
    Threads = {t1, t2}
    Messages = {buy, sell, buyDetails, sellReply}
    Route <- RouteOf
    IsSeed <- Seed
    Text <- TextOf
    Header <- HeaderOf
    Group <- GroupOf
    ReplyTo <- ReplyOf

SYMMETRY Same

INVARIANTS
    OnePublishPerCommand
    OneArmedRoute
    NewestSeedOnly
PROPERTIES
    SpentNeedsDisarm
