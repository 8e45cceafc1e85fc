----------------------------- MODULE BoardMonitor -----------------------------
(***************************************************************************)
(* The scheduler's POLL_GITHUB_PROJECT step: fetch the project board, tell *)
(* Discord what differs from the state file, overwrite the file.  The      *)
(* daemon and the cron script may do so at the same time; they share the   *)
(* file and lock nothing.                                                  *)
(***************************************************************************)
EXTENDS Naturals, FiniteSets

CONSTANTS
  Issues,        \* numbers of issues and pull requests, in the board's order
  Columns,       \* values of the Status field
  Off,           \* an issue that is not on the board
  Checkers,      \* scheduler processes
  PageSize,      \* items that one query returns
  MessageLines,  \* changes that fit into one Discord message
  MaxMoves,      \* bound: changes of the board
  MaxMishaps     \* bound: messages and processes that are lost

ASSUME BoardAssumption ==
  /\ Issues \subseteq Nat
  /\ Off \notin Columns
  /\ {PageSize, MessageLines, MaxMoves, MaxMishaps} \subseteq Nat

VARIABLES
  board,     \* external: the column of each issue
  file,      \* the state file
  told,      \* external: where a reader of the channel believes each issue to be
  checker,   \* what each process has read
  moves,     \* changes of the board so far
  mishaps,   \* messages and processes lost so far
  missed,    \* history: issues of which a change went untold or was told too early
  atOnce     \* history: two processes have been at work at once

boardVars == <<board, file, told, checker, moves, mishaps, missed, atOnce>>

Layout == [Issues -> Columns \cup {Off}]

\* The file does not exist, or was being written when its writer died or
\* somebody read it: either way nothing is compared.
NoState == [i \in Issues |-> "none"]

Checker == [at: {"idle", "fetched", "compared", "told", "saving"},
            seen: Layout, changed: SUBSET Issues]

IdleChecker == [at |-> "idle", seen |-> [i \in Issues |-> Off], changed |-> {}]

BoardInit ==
  /\ board \in Layout
  /\ file = NoState
  /\ told = [i \in Issues |-> Off]
  /\ checker = [c \in Checkers |-> IdleChecker]
  /\ moves = 0
  /\ mishaps = 0
  /\ missed = {}
  /\ atOnce = FALSE

Moves(i, column) ==
  /\ moves < MaxMoves
  /\ board[i] # column
  /\ board' = [board EXCEPT ![i] = column]
  /\ moves' = moves + 1
  /\ UNCHANGED <<file, told, checker, mishaps, missed, atOnce>>

-----------------------------------------------------------------------------
\* One page is asked for; what lies beyond it is not seen.
FirstPage(b) ==
  [i \in Issues |->
     IF Cardinality({j \in Issues : j < i /\ b[j] # Off}) < PageSize THEN b[i] ELSE Off]

FetchBoard(c) ==
  /\ checker[c].at = "idle"
  /\ checker' = [checker EXCEPT ![c].at = "fetched", ![c].seen = FirstPage(board)]
  /\ atOnce' = (atOnce \/ \E d \in Checkers : checker[d].at # "idle")
  /\ UNCHANGED <<board, file, told, moves, mishaps, missed>>

\* Mutant: removed issues are not compared.
ChangedPresent(previous, current) ==
  IF previous = NoState THEN {} ELSE {i \in Issues : current[i] \notin {previous[i], Off}}

Changed(previous, current) ==
  IF previous = NoState THEN {} ELSE {i \in Issues : previous[i] # current[i]}

\* Without a readable file the board is taken as known, whatever a reader was
\* told before.
Compare(c) ==
  LET seen == checker[c].seen IN
  /\ checker[c].at = "fetched"
  /\ checker' = [checker EXCEPT ![c].at = "compared", ![c].changed = Changed(file, seen)]
  /\ missed' = IF file = NoState THEN missed \cup {i \in Issues : told[i] # seen[i]} ELSE missed
  /\ UNCHANGED <<board, file, told, moves, mishaps, atOnce>>

\* What a reader believes of `covered` is now what this process has seen; the
\* rest of its changes went untold.
Told(c, covered) ==
  LET v == checker[c] IN
  /\ v.at = "compared"
  /\ told' = [i \in Issues |-> IF i \in covered THEN v.seen[i] ELSE told[i]]
  /\ checker' = [checker EXCEPT ![c].at = "told"]
  /\ missed' = (missed \ covered) \cup (v.changed \ covered)

\* A long message is cut off.
SendMessage(c, covered) ==
  /\ covered \subseteq checker[c].changed
  /\ Cardinality(covered) = MessageLines \/ covered = checker[c].changed
  /\ Cardinality(covered) <= MessageLines
  /\ Told(c, covered)
  /\ UNCHANGED <<board, file, moves, mishaps, atOnce>>

\* The webhook is not configured or fails: send() returns FALSE, which nobody
\* looks at.
MessageLost(c) ==
  /\ mishaps < MaxMishaps
  /\ mishaps' = mishaps + 1
  /\ checker[c].changed # {}
  /\ Told(c, {})
  /\ UNCHANGED <<board, file, moves, atOnce>>

\* write_text truncates the file, then writes it.
BeginSave(c) ==
  /\ checker[c].at = "told"
  /\ file' = NoState
  /\ checker' = [checker EXCEPT ![c].at = "saving"]
  /\ UNCHANGED <<board, told, moves, mishaps, missed, atOnce>>

EndSave(c) ==
  /\ checker[c].at = "saving"
  /\ file' = checker[c].seen
  /\ checker' = [checker EXCEPT ![c] = IdleChecker]
  /\ UNCHANGED <<board, told, moves, mishaps, missed, atOnce>>

\* A process dies.  What it has told is not in the file.
CheckerDies(c) ==
  /\ checker[c].at # "idle"
  /\ mishaps < MaxMishaps
  /\ mishaps' = mishaps + 1
  /\ missed' = IF checker[c].at \in {"told", "saving"} THEN missed \cup checker[c].changed ELSE missed
  /\ checker' = [checker EXCEPT ![c] = IdleChecker]
  /\ UNCHANGED <<board, file, told, moves, atOnce>>

\* The request or its answer fails: nothing happens.
BoardNext ==
  \/ \E i \in Issues, column \in Columns \cup {Off} : Moves(i, column)
  \/ \E c \in Checkers :
       \/ FetchBoard(c)
       \/ Compare(c)
       \/ \E covered \in SUBSET checker[c].changed : SendMessage(c, covered)
       \/ MessageLost(c)
       \/ BeginSave(c)
       \/ EndSave(c)
       \/ CheckerDies(c)

BoardSpec == BoardInit /\ [][BoardNext]_boardVars

-----------------------------------------------------------------------------
\* The board, the file and the processes have their types.
BoardTypeOK ==
  /\ board \in Layout
  /\ file \in Layout \cup {NoState}
  /\ told \in Layout
  /\ checker \in [Checkers -> Checker]
  /\ moves \in 0..MaxMoves
  /\ mishaps \in 0..MaxMishaps
  /\ missed \subseteq Issues
  /\ atOnce \in BOOLEAN

\* While the processes take turns, whoever follows the channel knows what the
\* state file says of every issue (github_monitor_service.py:71, 77), except of
\* those whose last change fell to a lost or cut message, an unreadable file or
\* a death between telling and saving; the next message about one mends it.
ReadersAreUpToDate ==
  ~atOnce /\ (\A c \in Checkers : checker[c].at # "told") /\ file # NoState
    => \A i \in Issues \ missed : told[i] = file[i]

=============================================================================
