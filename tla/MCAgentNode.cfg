SPECIFICATION FairSpec

CONSTANTS
  Writer = {w1, w2}
  MaxContinuations = 1
  MaxStarts = 3
  MaxQuestions = 3
  MaxAnswers = 2

CHECK_DEADLOCK FALSE

INVARIANTS
  OneQuestionOneAnswer
  AnswerFitsQuestion
  CompletedWorkIsChecked

PROPERTY AttemptSettles
