SPECIFICATION MCSpec
INVARIANTS  SoundExact     
CONSTRAINT Bounded
CHECK_DEADLOCK FALSE
