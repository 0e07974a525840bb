\* One user at the login and the administration routes, with an unreliable
\* Redis.
CONSTANTS
    Groups = {"auth", "admin"}
    Limit = 2
    Window = 2
    TTL = 2
    Delay = 1
    Hours = 1
SPECIFICATION GatewaySpec
INVARIANT SlidingWindowHolds
INVARIANT QuietKeysReopen
INVARIANT StaleAdminExpires
