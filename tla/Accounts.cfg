SPECIFICATION Spec
CONSTANTS
  Names <- MCNames
  Passwords = {p, q}
  Addresses <- MCAddresses
  Jids = {"j"}
  Locales = {"en", "es"}
  Clients <- MCClients
  World = "world"
  AddressOf <- MCAddressOf
  Casts <- MCCasts
  None = None
  KeyRank <- MCKeyRank
  FreeFailures = 2
  MaxDelay = 2
  MaxKeys = 2
  TokenLife = 2
  MaxId = 2
  MaxBirths = 3
  MaxTokens = 2
  MaxClock = 3
  MaxRestarts = 1
SYMMETRY PasswordsAlike
CHECK_DEADLOCK FALSE
INVARIANTS
  TypeOK
  CredentialsAreOwn
  
PROPERTIES
  LastAdminStays
