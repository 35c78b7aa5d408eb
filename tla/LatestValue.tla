---------------------------- MODULE LatestValue ----------------------------
(***************************************************************************)
(* What a reader of AsyncBuffer may rely on, with no buffers in sight: a    *)
(* cell holding the value committed last.  A commit overwrites the cell and *)
(* marks it fresh; a fetch copies the cell to the consumer, tells whether    *)
(* it was fresh, and clears the mark.  AsyncBuffer implements this           *)
(* specification (property ImplementsLatestValue there).                    *)
(***************************************************************************)
EXTENDS Naturals

CONSTANT MaxCommits   \* bound on the number of commits

VARIABLES published,   \* the value committed last, 0 before the first commit
          fresh,       \* published has not been fetched since it was committed
          fetched,     \* the value the consumer got from its last fetch
          wasFresh     \* what the last fetch returned

lvVars == <<published, fresh, fetched, wasFresh>>

Init == /\ published = 0
        /\ fresh = FALSE
        /\ fetched = 0
        /\ wasFresh = FALSE

\* The committed values are numbered in the order of the commits.
Commit == /\ published < MaxCommits
          /\ published' = published + 1
          /\ fresh' = TRUE
          /\ UNCHANGED <<fetched, wasFresh>>

Fetch == /\ fetched' = published
         /\ wasFresh' = fresh
         /\ fresh' = FALSE
         /\ UNCHANGED published

Next == Commit \/ Fetch

Spec == Init /\ [][Next]_lvVars
=============================================================================
