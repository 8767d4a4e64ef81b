SPECIFICATION Spec
CONSTANTS
  Repo <- Main
  Linked <- TwoLinked
  Projects <- FourProjects
  ExtraMounts <- ExtrasApart
  AccountFacts <- SomeAccountFacts
INVARIANTS AppliedIsPrefix LaunchedIsComplete NoPromptTwice PromptNeverSplitsMigration HiddenWorktreesProtected
