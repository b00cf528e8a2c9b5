SPECIFICATION Spec
INVARIANTS AnswerIsRight FailureIsSignalledOnce
PROPERTIES CallIsAnswered CallIsFreed
