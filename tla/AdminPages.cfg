SPECIFICATION FairAdminSpec
CONSTANTS
  Providers = {"deepseek", "openai", "qwen"}
  Keys = {"k"}
  Prompts = {"p", "q", "r"}
  MaxLines = 3
  Window = 2
  Probes = {"test"}
INVARIANTS
  ScreenMatchesStore
PROPERTIES
  BusyEnds
  LogsSettle
