SPECIFICATION FairSpec
CONSTANTS
  Wall = 1
  Idle = 1
  Lines <- TheLines
  MaxTurns = 2
  HttpRetries = 1
  Replies <- TheReplies
  Clis = {"claude", "codex", "droid", "goaly-code"}
  MaxAsks = 2
  MaxWork = 2
  CliRetries = 1
INVARIANTS
  OwnConversationOnly
  ProgressIsNotReaped
  SpendAccounted
  EveryCallAnswered
PROPERTIES
  CapEndsTheCall
