SPECIFICATION Spec
CONSTANTS
  groq = groq
  gemini = gemini
  sarvam = sarvam
  unknown = unknown
  Calls = {1, 2}
  Names <- MCNames
  Registered <- MCRegistered
  Keyed <- MCKeyed
  MaxAttempts = 2
  RetryAfters = {3}
  DefaultCooldown = 1
  MaxBackoff = 2
  LeastDelay = 1
  MostDelay = 3
INVARIANT TypeOK
PROPERTIES
  HonoursOwnDelay
  OnlyAStaleGateSends
  EveryCallEnds
  ImplementsBoundedRetry
