SPECIFICATION Spec
CONSTANT MaxCommits = 5
INVARIANTS OwnedApart CommitRetriesOnce
PROPERTIES ImplementsLatestValue
