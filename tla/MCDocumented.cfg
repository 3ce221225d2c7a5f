\* One case for each comment.
SPECIFICATION Spec
INVARIANT SomeCommentHolds
CHECK_DEADLOCK FALSE
