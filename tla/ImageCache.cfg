SPECIFICATION CacheSpec
CONSTANTS
  Image = {1, 2}
  Chats = {private, room}
  Ttl = 1
  CacheAge = 2
  MaxNow = 3
  MaxPops = 2
INVARIANTS
  EveryPictureOnce
