\* Nine records through a ring of three overwrite every slot twice while a copy
\* is under way, for both kinds of reader.
CONSTANTS
  Capacity = 3
  Sizes = {1, 2, 3, 4}
  MaxRecords = 9
SPECIFICATION Spec
INVARIANTS TypeOK NeverOlderThanAsked ExactWhenQuiet NoRecordTwice
  OldestFirstUnlessOvertaken
