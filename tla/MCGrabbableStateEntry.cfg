SPECIFICATION Spec
INVARIANT EntryAgreesWithSpec46
INVARIANT ModifierFlagsMatchHeld
