SPECIFICATION Spec
CONSTANTS
  a = a  b = b  e = e
  Tokens = {a, b, e}
  Eog = {e}
  Predict <- MCPredict
  Prompts <- MCPrompts
  MaxTokens = 4  MaxDepth = 3
  Context = 8
INVARIANTS SharedIsTarget VerificationSound IdleReturned CancelPrompt
PROPERTIES ImplementsGreedy StreamEnds
