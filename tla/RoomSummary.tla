---------------------------- MODULE RoomSummary ----------------------------
(***************************************************************************)
(* The summaries of one room.                                              *)
(*                                                                         *)
(* The room's transcript is a file to which the fan-out appends a line per *)
(* entry; a full file is renamed to a chunk and a new one is started.  The *)
(* summariser cuts the active file into blocks of lines, has a model       *)
(* summarise each (a row of level 1) and consolidates every so many of     *)
(* them (a row of level 2).  A block is next when it follows the highest   *)
(* line any level-1 row ends at.                                           *)
(*                                                                         *)
(* Two promises do that, each cached while it is in flight: the "tick",    *)
(* started by an append, does one block; the "fill", started by an agent   *)
(* connecting or by the opt-in, does all blocks there were when it began.  *)
(* They suspend only while the model answers; what runs between two        *)
(* answers is atomic.  Several rooms do not interact.                      *)
(***************************************************************************)
EXTENDS Naturals, FiniteSets

CONSTANTS
    Block,          \* linesPerBlock
    Batch,          \* rollupBatchSize
    Threshold,      \* FAILURE_THRESHOLD
    RotateAt,       \* ROTATION_LINES
    Replies,        \* what the model may do: "bullets", "empty" or "fails"
    MaxLines,       \* bound of the model: lines ever appended
    MaxClears,      \* bound of the model: how often the transcript is cleared
    MaxCrashes      \* bound of the model: how often the hub crashes

ASSUME SummaryAssumption ==
    /\ {Block, Batch, Threshold, RotateAt} \subseteq Nat \ {0}
    /\ {MaxLines, MaxClears, MaxCrashes} \subseteq Nat
    /\ Replies \subseteq {"bullets", "empty", "fails"}

VARIABLES
    enabled,    \* room_summary_enabled
    written,    \* lines ever appended to the transcript
    base,       \* how many of them are in renamed chunks
    rows,       \* the room_summary table
    failures,   \* roomFailures
    run,        \* the promises in flight
    clears,     \* clears so far
    crashes     \* crashes so far

fileVars == <<written, base, clears>>
vars == <<enabled, fileVars, rows, failures, run, crashes>>

Drivers == {"tick", "fill"}

\* `id` is the rowid, `of` the rowids a level-2 row consolidates, `lines` the
\* lines a summary is about, counted over all chunks; rolled 0 is NULL.
Row == [id : Nat \ {0}, level : {1, 2}, start : Nat, end : Nat,
        lines : SUBSET (1..MaxLines), of : SUBSET Nat, rolled : Nat]

Idle == [at |-> "idle", cursor |-> 0, total |-> 0, slice |-> {}, batch |-> {}]

SummaryTypeOK ==
    /\ enabled \in BOOLEAN
    /\ written \in 0..MaxLines
    /\ base \in 0..written
    /\ rows \subseteq Row
    /\ failures \in Nat
    /\ run \in [Drivers -> [at : {"idle", "block", "rollup"}, cursor : Nat, total : Nat,
                            slice : SUBSET (1..MaxLines), batch : SUBSET Row]]
    /\ clears \in 0..MaxClears
    /\ crashes \in 0..MaxCrashes

SummaryInit ==
    /\ enabled \in BOOLEAN
    /\ written = 0
    /\ base = 0
    /\ rows = {}
    /\ failures = 0
    /\ run = [d \in Drivers |-> Idle]
    /\ clears = 0
    /\ crashes = 0

-----------------------------------------------------------------------------
(* Queries. *)

Active == written - base

L1(table) == {r \in table : r.level = 1}
L2(table) == {r \in table : r.level = 2}
Unrolled(table) == {r \in L1(table) : r.rolled = 0}

\* Mutant: rolled-up rows are left out of the maximum.
LastLineUnrolled(table) ==
    LET ends == {0} \cup {r.end : r \in Unrolled(table)}
    IN  CHOOSE e \in ends : \A f \in ends : f <= e

\* lastSummarisedLine
LastLine(table) ==
    LET ends == {0} \cup {r.end : r \in L1(table)}
    IN  CHOOSE e \in ends : \A f \in ends : f <= e

\* A new row gets the number after the highest one.
NextId(table) ==
    LET ids == {0} \cup {r.id : r \in table}
    IN  1 + CHOOSE i \in ids : \A j \in ids : j <= i

\* Mutant: the end of the file is not looked at.
SliceUnclipped(c, n) == {base + i : i \in (c + 1)..(c + Block)}

\* readLineRange: what a file of n lines has of the block after line c.
Slice(c, n) == {base + i : i \in {j \in (c + 1)..(c + Block) : j <= n}}

\* The batch of a rollup: the first unrolled rows.
FirstUnrolled(table) ==
    {r \in Unrolled(table) :
        Cardinality({q \in Unrolled(table) : q.start < r.start}) < Batch}

(* Control between two answers of the model.  `now` is what the promise finds  *)
(* when it goes on: the failures, the table and the lines of the active file.  *)

RollupDue(table) == Cardinality(Unrolled(table)) >= Batch

Rolling(c, total, table) ==
    [at |-> "rollup", cursor |-> c, total |-> total, slice |-> {},
     batch |-> FirstUnrolled(table)]

Blocked(c, total, now) ==
    [at |-> "block", cursor |-> c, total |-> total, slice |-> Slice(c, now.lines), batch |-> {}]

\* Mutant: the failure threshold is not looked at.
BeginStubborn(c, total, now) ==
    IF total < c + Block THEN Idle
    ELSE IF Slice(c, now.lines) # {} THEN Blocked(c, total, now)
    ELSE IF RollupDue(now.table) THEN Rolling(c, total, now.table)
    ELSE Idle

\* The block after line c, unless the end is reached.  When it bails out, because
\* of the failures or of lines that are gone, so do all blocks after it; only
\* a rollup that is due still suspends the promise.
Begin(c, total, now) ==
    IF total < c + Block THEN Idle
    ELSE IF now.fails < Threshold /\ Slice(c, now.lines) # {} THEN Blocked(c, total, now)
    ELSE IF RollupDue(now.table) THEN Rolling(c, total, now.table)
    ELSE Idle

\* generateL1 is done: the rollup, or the next block.
AfterBlock(c, total, now) ==
    IF RollupDue(now.table) THEN Rolling(c, total, now.table) ELSE Begin(c + Block, total, now)

\* Mutant: whether there is a block is only looked at inside the promise, which then
\* settles before it is cached and stays in the cache.
TriggerPoisoned(d, on, lines) ==
    LET c == LastLine(rows)
        total == IF d = "tick" THEN c + Block ELSE lines
        now == [fails |-> failures, table |-> rows, lines |-> lines]
        settled == [Idle EXCEPT !.cursor = c, !.total = c + 1]
    IN  IF on /\ run[d] = Idle
        THEN run' = [run EXCEPT ![d] = IF lines < c + Block THEN settled ELSE Begin(c, total, now)]
        ELSE run' = run

\* maybeSummarise and maybeBackfill, when the active file has `lines` lines: the
\* tick ends after one block, the fill at the end the file has now.
Trigger(d, on, lines) ==
    LET c == LastLine(rows)
        total == IF d = "tick" THEN c + Block ELSE lines
        now == [fails |-> failures, table |-> rows, lines |-> lines]
    IN  IF on /\ lines >= c + Block /\ run[d] = Idle
        THEN run' = [run EXCEPT ![d] = Begin(c, total, now)]
        ELSE run' = run

-----------------------------------------------------------------------------
(* Actions. *)

\* appendEntry: the line, the rotation, then the append hook.
Append ==
    LET full == Active + 1 >= RotateAt
    IN  /\ written < MaxLines
        /\ written' = written + 1
        /\ base' = IF full THEN written + 1 ELSE base
        /\ Trigger("tick", enabled, written' - base')
        /\ UNCHANGED <<enabled, rows, failures, clears, crashes>>

\* An agent opens its stream in the room.
AgentConnects ==
    /\ Trigger("fill", enabled, Active)
    /\ UNCHANGED <<enabled, fileVars, rows, failures, crashes>>

\* PUT /rooms/:room/settings
PutSettings(on) ==
    /\ enabled' = on
    /\ Trigger("fill", on, Active)
    /\ UNCHANGED <<fileVars, rows, failures, crashes>>

\* POST /rooms/:room/clear-transcript: rotateActive.
Clear ==
    /\ clears < MaxClears
    /\ Active > 0
    /\ base' = written
    /\ clears' = clears + 1
    /\ UNCHANGED <<enabled, written, rows, failures, run, crashes>>

\* Mutant: the block starts at the last line of the one before.
BlockRowOverlapping(r, table) ==
    [id |-> NextId(table), level |-> 1, start |-> r.cursor, end |-> r.cursor + Block,
     lines |-> r.slice, of |-> {}, rolled |-> 0]

\* The row of a summarised block.
BlockRow(r, table) ==
    [id |-> NextId(table), level |-> 1, start |-> r.cursor + 1, end |-> r.cursor + Block,
     lines |-> r.slice, of |-> {}, rolled |-> 0]

\* INSERT OR REPLACE: the primary key is room, level and start_line.
Upsert(row, table) == {q \in table : q.level # row.level \/ q.start # row.start} \cup {row}

Now(fails, table) == [fails |-> fails, table |-> table, lines |-> Active]

\* The model answers generateL1: the call fails, has no bullets, or is stored.
BlockAnswered(d) ==
    LET r == run[d]
        Resume == run' = [run EXCEPT ![d] = AfterBlock(r.cursor, r.total, Now(failures', rows'))]
    IN  /\ r.at = "block"
        /\ \/ /\ "fails" \in Replies
              /\ failures' = failures + 1
              /\ rows' = rows
           \/ /\ "empty" \in Replies
              /\ UNCHANGED <<failures, rows>>
           \/ /\ "bullets" \in Replies
              /\ rows' = Upsert(BlockRow(r, rows), rows)
              /\ failures' = 0
        /\ Resume
        /\ UNCHANGED <<enabled, fileVars, crashes>>

\* Mutant: the rollup ends where its first block ends.
RollupRowShort(batch, table) ==
    LET first == CHOOSE b \in batch : \A q \in batch : b.start <= q.start
    IN  [id |-> NextId(table), level |-> 2, start |-> first.start, end |-> first.end,
         lines |-> UNION {b.lines : b \in batch}, of |-> {b.id : b \in batch}, rolled |-> 0]

\* The row of a rollup: from its first block to its last.
RollupRow(batch, table) ==
    LET first == CHOOSE b \in batch : \A q \in batch : b.start <= q.start
        last == CHOOSE b \in batch : \A q \in batch : q.start <= b.start
    IN  [id |-> NextId(table), level |-> 2, start |-> first.start, end |-> last.end,
         lines |-> UNION {b.lines : b \in batch}, of |-> {b.id : b \in batch}, rolled |-> 0]

\* Mutant: the blocks to mark are found by their lines.
ConsolidateByLine(row, table) ==
    {IF q.level = 1 /\ row.start <= q.start /\ q.end <= row.end
     THEN [q EXCEPT !.rolled = row.id] ELSE q : q \in table} \cup {row}

\* The transaction of a rollup; the blocks are marked by rowid.
Consolidate(row, table) ==
    {IF q.id \in row.of THEN [q EXCEPT !.rolled = row.id] ELSE q : q \in table} \cup {row}

\* The model answers maybeRollup.  No bullets and a failure are the same; a
\* rollup whose start_line is taken violates the primary key: the transaction
\* is rolled back and the promise rejected, blocks left or not.
RollupAnswered(d) ==
    LET r == run[d]
        row == RollupRow(r.batch, rows)
        Resume == run' = [run EXCEPT ![d] = Begin(r.cursor + Block, r.total, Now(failures, rows'))]
    IN  /\ r.at = "rollup"
        /\ \/ /\ Replies \cap {"empty", "fails"} # {}
              /\ rows' = rows
              /\ Resume
           \/ /\ "bullets" \in Replies
              /\ \A q \in L2(rows) : q.start # row.start
              /\ rows' = Consolidate(row, rows)
              /\ Resume
           \/ /\ "bullets" \in Replies
              /\ \E q \in L2(rows) : q.start = row.start
              /\ rows' = rows
              /\ run' = [run EXCEPT ![d] = Idle]
        /\ UNCHANGED <<enabled, fileVars, failures, crashes>>

\* The hub dies and is started again: files and database survive.
Crash ==
    /\ crashes < MaxCrashes
    /\ crashes' = crashes + 1
    /\ run' = [d \in Drivers |-> Idle]
    /\ failures' = 0
    /\ UNCHANGED <<enabled, fileVars, rows>>

Next ==
    \/ Append
    \/ AgentConnects
    \/ \E on \in BOOLEAN : PutSettings(on)
    \/ Clear
    \/ \E d \in Drivers : BlockAnswered(d) \/ RollupAnswered(d)
    \/ Crash

Spec == SummaryInit /\ [][Next]_vars

\* Every call of the model ends: the adapters give up after a timeout.
FairSpec == Spec /\ \A d \in Drivers : WF_vars(BlockAnswered(d)) /\ WF_vars(RollupAnswered(d))

-----------------------------------------------------------------------------
(* Properties. *)

\* What the briefing shows: the rollups and the blocks no rollup has taken up.
Shown(table) == L2(table) \cup Unrolled(table)
ShownLines(table) == UNION {r.start..r.end : r \in Shown(table)}

\* The blocks tile: whichever promise stored a block, at whatever time, and
\* whatever was rotated away in between, no two overlap.
BlocksTile ==
    \A r, q \in L1(rows) :
        /\ r.end - r.start + 1 = Block
        /\ r # q => r.end < q.start \/ q.end < r.start

\* A block that is marked as rolled up was consolidated: the rollup it names
\* exists, was made from that very row and covers its lines.
RolledIntoItsRollup ==
    \A r \in L1(rows) : r.rolled # 0 =>
        \E q \in L2(rows) :
            q.id = r.rolled /\ r.id \in q.of /\ q.start <= r.start /\ r.end <= q.end

\* What the briefing covered once it always covers.
StaysShown == [][ShownLines(rows) \subseteq ShownLines(rows')]_vars

\* No block is done twice in a row of runs: the cursor only advances.
CursorOnlyAdvances == [][LastLine(rows) <= LastLine(rows')]_vars

\* After Threshold failures in a row the room is given up, but for the one call
\* of the other promise that may have been under way.
GivesUp == failures <= Threshold + 1

\* Every promise is settled: the caches are never poisoned.
EveryRunEnds == \A d \in Drivers : run[d] # Idle ~> run[d] = Idle

\* room-summariser.ts on maybeBackfill: "Generates L1 entries for any line ranges
\* in the active transcript that don't have an L1 yet."  So the lines before
\* the next block all have one.
NoGap ==
    \A i \in 1..LastLine(rows) : i <= Active => \E r \in L1(rows) : base + i \in r.lines

=============================================================================
