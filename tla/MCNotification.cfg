SPECIFICATION Spec
INVARIANT CenterSafe
INVARIANT PagesExact
PROPERTY DropsOldest
CHECK_DEADLOCK FALSE
