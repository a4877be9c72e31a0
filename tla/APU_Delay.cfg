CONSTANTS
  Channels = {pulse1, triangle}
  UninitHalted = {triangle}
  Lengths = {1, 2}
  SEQ_STEP_1 = 1
  SEQ_STEP_2 = 2
  SEQ_STEP_3 = 3
  SEQ_STEP_4 = 4
  SEQ_STEP_5 = 6
  pulse1 = pulse1
  triangle = triangle
SPECIFICATION Spec
PROPERTY WriteDelayed
