\* Prompts that share beginnings, one after another, cut, cancelled and
\* evicted in every way.
SPECIFICATION Spec
CONSTANTS
  MaxTokens = 4
  Prompts <- SharedPrompts
  Generated <- Answers
INVARIANTS TypeOK LiveTrue SnapshotsTrue PathLive
PROPERTIES ItemsWhole ResumesDeepest
