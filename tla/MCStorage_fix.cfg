SPECIFICATION StorageSpec
CONSTANTS
  Addrs <- MCAddrs
  Translations <- MCTranslations
INVARIANTS StorageTypeOK FollowedFoundWhole FixIdempotent OrderKept
PROPERTY JumpsFollow
