SPECIFICATION RunsSpec
CONSTANTS
  Kinds = {"any", "llm", "tool", "slim", "model", "providers"}
  MaxRuns = 2
  MaxYields = 3
  MaxTokens = 3
  MaxMessages = 3
  PipeSize = 1
  MaxWrites = 3
  MaxChunks = 3
  Actions = {"invoke_llm streamed", "invoke_llm collected", "invoke_tts", "get_ai_model_schemas"}
  Threads = {"t1", "t2"}
  Bindings <- TwoBindings
  MaxLookups = 2
  MaxCrashes = 1
INVARIANTS NodeRunInv AnswersAreShown ProvidersOK
PROPERTY SlimCallEnds
CHECK_DEADLOCK FALSE
