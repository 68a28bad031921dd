\* Two tasks that insert and two workers: both can be held.
CONSTANTS
  chat = chat  file = file  log = log
  s1 = s1  s2 = s2
  left = left  right = right
  opener = opener  callback = callback
  Labels = {chat, file, log}
  Shards = {left, right}
  ShardOf <- OneShardShared
  Senders = {s1, s2}
  Openers = {opener}
  Callback = callback
  Workers = 2
  MaxChannels = 3
  MaxSends = 3
SPECIFICATION FairSpec
INVARIANTS
  AnnouncedOrAtHand
PROPERTIES
  ChannelsAreFiled
