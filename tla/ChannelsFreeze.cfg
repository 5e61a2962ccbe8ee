SPECIFICATION ChannelsSpec
CONSTANTS
  ChannelSize = 4
  MaxReplies = 2
  Background = TRUE
INVARIANT Unstuck
