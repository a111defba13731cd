------------------------------ MODULE MCServices ------------------------------
(***************************************************************************)
(* Small instances, for TLC, of the services around the sessions and runs. *)
(* They share no state in these models, so that a behaviour takes the      *)
(* steps of one of them, chosen at its start, and the others stay as they  *)
(* began: what one run checks of all is what a run of each would.          *)
(***************************************************************************)
EXTENDS Subscription, TokenBucket, SignIn, LoginGuard, DeviceLogin,
        KeyCache, Catalogue, Erasure, ZoomGrant, MeetingBot, LiveAudio,
        LogFeed, ExtractJobs, ChatThread, AccountLink

VARIABLE service    \* whose behaviour this is

Takes(s, next, its) == IF service = s THEN next ELSE UNCHANGED its

ServicesInit ==
    /\ service \in {"subscription", "tokens", "signing in", "lockout",
                     "device", "keys", "catalogue", "erasure", "zoom", "bot",
                     "audio", "log", "extract", "chat", "account"}
    /\ SubscriptionInit /\ BucketInit /\ SignInInit /\ GuardInit
    /\ DeviceInit /\ CacheInit /\ CatalogueInit /\ ErasureInit
    /\ ZoomInit /\ BotInit /\ AudioInit /\ FeedInit
    /\ ExtractInit /\ ChatInit /\ AccountInit
    /\ service # "signing in" => spent = {}
    /\ service # "account" => provider = "github"

ServicesNext ==
    /\ UNCHANGED service
    /\ Takes("subscription", SubscriptionNext, subscriptionVars)
    /\ Takes("tokens", BucketNext, bucketVars)
    /\ Takes("signing in", SignInNext, signInVars)
    /\ Takes("lockout", GuardNext, guardVars)
    /\ Takes("device", DeviceNext, deviceVars)
    /\ Takes("keys", CacheNext, cacheVars)
    /\ Takes("catalogue", CatalogueNext, catalogueVars)
    /\ Takes("erasure", ErasureNext, erasureVars)
    /\ Takes("zoom", ZoomNext, zoomVars)
    /\ Takes("bot", BotNext, botVars)
    /\ Takes("audio", AudioNext, audioVars)
    /\ Takes("log", FeedNext, feedVars)
    /\ Takes("extract", ExtractNext, extractVars)
    /\ Takes("chat", ChatNext, chatVars)
    /\ Takes("account", AccountNext, accountVars)

ServicesSpec == ServicesInit /\ [][ServicesNext]_<<service, subscriptionVars, bucketVars,
        signInVars, guardVars, deviceVars, cacheVars, catalogueVars, erasureVars,
        zoomVars, botVars, audioVars, feedVars, extractVars, chatVars, accountVars>>

\* The budgets of TIERS, in tokens of the instance.
Budgets == [t \in Tiers |-> IF t = "free" THEN 1 ELSE 2]

===============================================================================
