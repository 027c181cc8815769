------------------------------ MODULE Collector ------------------------------
(***************************************************************************)
(* The incremental log collector (internal/collect/scan.go and state.go).  *)
(* A pass visits the log files in order; for each one, scanFile compares   *)
(* the size with the committed offset, parses the new complete lines, hands*)
(* the events to the sink in chunks and commits the offset.  Every change  *)
(* of the state file is one atomic save (temporary file and rename) whose  *)
(* failure restores the memory copy, so one set of variables stands for    *)
(* both copies.  What is volatile is how far the running pass has come.    *)
(*                                                                         *)
(* Log lines carry a time stamp, unique here, which is also the id of the  *)
(* event on the line; a file's stamps increase, so a set of events stands  *)
(* for the sequence of them the parser returns.  A complete line is two    *)
(* bytes, an unfinished last line is one.                                  *)
(***************************************************************************)
EXTENDS Integers, Sequences, FiniteSets, FiniteSetsExt

CONSTANTS
    FileOrder,   \* the log files, in the order listJSONL sorts them
    Reparsed,    \* those of a FullReparse source (Codex, dsh)
    ChunkSize,   \* sinkBatch
    MaxLines,    \* bound: lines written in a behaviour
    KeptLines,   \* lines a truncation leaves at least
    Worlds       \* where a collector runs: the faults that can happen there,
                 \* and the first stamp inside its collection window

ASSUME CollectorConstants ==
    /\ FileOrder \in Seq(Range(FileOrder))
    /\ Reparsed \subseteq Range(FileOrder)
    /\ ChunkSize \in Nat \ {0}
    /\ MaxLines \in Nat
    /\ KeptLines \in Nat
    /\ \A w \in Worlds :
        /\ w.notBefore \in Nat
        /\ w.faults \subseteq {"crash", "save", "sink", "open", "truncate",
                               "corrupt", "rescan"}

VARIABLES
    world,      \* the one of Worlds this collector is in, for ever
    log,        \* per file: its complete lines
    partial,    \* per file: is its last line still being written?
    clock,      \* the last stamp given to a line
    unseen,     \* files truncated below a mark since a pass last looked
    offset,     \* State.Files
    turnStart,  \* State.TurnStart
    inFlight,   \* State.InFlight
    chunks,     \* State.Chunks (a key contains its ordinal)
    scan,       \* the scanFile call of the running pass
    delivered,  \* events the sink has accepted
    quotas      \* stamps of the limit hits the quota sink has accepted

logVars == <<world, log, partial, clock, unseen>>
stateVars == <<offset, turnStart, inFlight, chunks>>
sinkVars == <<delivered, quotas>>
vars == <<logVars, stateVars, scan, sinkVars>>

Faults == world.faults

Paths == Range(FileOrder)
Kinds == {"turn", "event", "limit"}
NoScan == [start |-> -1, end |-> 0, turn |-> 0, done |-> {}]
Idle == [pc |-> "idle"]

Size(f) == 2 * Len(log[f]) + IF partial[f] THEN 1 ELSE 0

-----------------------------------------------------------------------------
(* Parsing.                                                                *)

\* Mutant: the turn start of the previous piece of the file is not carried over.
TurnBeforeUncarried(lines, i, carry) ==
    LET T == {j \in 1..i : lines[j].kind = "turn"}
    IN  IF T = {} THEN 0 ELSE lines[Max(T)].ts

\* The stamp of the turn record that measures line i: the last one up to it
\* (claudecode: the user line that began the turn, or the one carried over),
\* or the first one after it (codex closeTurn, once the turn is closed).
TurnBefore(lines, i, carry) ==
    LET T == {j \in 1..i : lines[j].kind = "turn"}
    IN  IF T = {} THEN carry ELSE lines[Max(T)].ts

TurnAfter(lines, i) ==
    LET T == {j \in i..Len(lines) : lines[j].kind = "turn"}
    IN  IF T = {} THEN 0 ELSE lines[Min(T)].ts

\* The event on line i and the turn record its gen_ms is measured against.
EventAt(f, lines, i, carry) ==
    LET turn == IF f \in Reparsed THEN TurnAfter(lines, i)
                                  ELSE TurnBefore(lines, i, carry)
    IN  [ts |-> lines[i].ts,
         span |-> IF f \notin Reparsed /\ lines[i].ts <= turn THEN 0 ELSE turn]

\* The complete lines of f between two offsets, as they are now.
LinesBetween(f, start, end) ==
    SubSeq(log[f], start \div 2 + 1, Min({end \div 2, Len(log[f])}))

IsEvent(line) == line.kind = "event"
IsLimit(line) == line.kind = "limit"

\* Only complete lines are consumed.
Consumed(lines, start, end) == 2 * Len(lines)

\* ParseFunc: events, quota snapshots, bytes consumed and the turn in flight.
Parse(f, start, end, carry) ==
    LET lines == LinesBetween(f, start, end)
        at == {i \in 1..Len(lines) : IsEvent(lines[i])}
        hits == {i \in 1..Len(lines) : IsLimit(lines[i])}
    IN  [events   |-> {EventAt(f, lines, i, carry) : i \in at},
         quotas   |-> {lines[i].ts : i \in hits},
         consumed |-> Consumed(lines, start, end),
         turn     |-> IF f \in Reparsed THEN 0
                      ELSE TurnBefore(lines, Len(lines), carry)]

InWindow(e) == e.ts >= world.notBefore

\* logicalDeliveryKey: kind, ordinal and the content itself.
ChunkKeys(events) ==
    LET Ordinal(e) == Cardinality({d \in events : d.ts < e.ts}) \div ChunkSize
    IN  {[kind |-> "events", ordinal |-> n,
          payload |-> {e \in events : Ordinal(e) = n}] : n \in {Ordinal(e) : e \in events}}

QuotaKeys(hits) ==
    {[kind |-> "quotas", ordinal |-> 0, payload |-> h] : h \in {hits} \ {{}}}

\* The deliveries a scan makes of what it parsed, with the window applied.
Keys(res) == ChunkKeys({e \in res.events : InWindow(e)}) \cup QuotaKeys(res.quotas)

\* The chunks in order, then the quotas.
Precedes(j, k) ==
    \/ j.kind = "events" /\ k.kind = "quotas"
    \/ j.kind = k.kind /\ j.ordinal < k.ordinal

-----------------------------------------------------------------------------
(* The log files.                                                          *)

Init ==
    /\ world \in Worlds
    /\ log = [f \in Paths |-> <<>>]
    /\ partial = [f \in Paths |-> FALSE]
    /\ clock = 0
    /\ unseen = {}
    /\ offset = [f \in Paths |-> 0]
    /\ turnStart = [f \in Paths |-> 0]
    /\ inFlight = [f \in Paths |-> NoScan]
    /\ chunks = [f \in Paths |-> {}]
    /\ scan = Idle
    /\ delivered = {}
    /\ quotas = {}

\* The sizes scanFile compares the file with: how far it was read, and how far
\* it is being read.
Marks(f) == {offset[f], inFlight[f].end}

\* A tool writes part of a line, or completes one.  A truncated file does not
\* grow back over a mark it was cut below before a pass has seen it shorter:
\* scanFile compares sizes only and could not tell otherwise.
Write(f) ==
    /\ clock < MaxLines
    /\ f \in unseen => \A n \in Marks(f) : Size(f) < n => Size(f) + 2 < n
    /\ \/ /\ ~partial[f]
          /\ partial' = [partial EXCEPT ![f] = TRUE]
          /\ UNCHANGED <<log, clock>>
       \/ /\ clock' = clock + 1
          /\ partial' = [partial EXCEPT ![f] = FALSE]
          /\ \E k \in Kinds :
                log' = [log EXCEPT ![f] = Append(@, [kind |-> k, ts |-> clock + 1])]
    /\ UNCHANGED <<world, unseen, stateVars, scan, sinkVars>>

\* The file is rewritten shorter (rsync of a rotated log).
Truncate(f) ==
    /\ "truncate" \in Faults
    /\ \E k \in KeptLines..(Len(log[f]) - 1) :
        /\ log' = [log EXCEPT ![f] = SubSeq(@, 1, k)]
        /\ unseen' = IF \E n \in Marks(f) : 2 * k < n THEN unseen \cup {f} ELSE unseen
    /\ partial' = [partial EXCEPT ![f] = FALSE]
    /\ UNCHANGED <<world, clock, stateVars, scan, sinkVars>>

-----------------------------------------------------------------------------
(* A pass.                                                                 *)

\* Mutant: the pass ends with its first file.
NoNextFile(n) == IF n = 0 THEN [pc |-> "stat", n |-> 1] ELSE Idle

NextFile(n) == IF n < Len(FileOrder) THEN [pc |-> "stat", n |-> n + 1] ELSE Idle

\* ScanSources starts over with the first file.
StartPass ==
    /\ scan = Idle
    /\ scan' = NextFile(0)
    /\ UNCHANGED <<logVars, stateVars, sinkVars>>

\* What scanFile takes for a truncation: the file ends before its offset, or
\* before the boundary of its unfinished scan.
Shrunk(f) == Size(f) < offset[f] \/ Size(f) < inFlight[f].end

\* Mutant: a truncated file is read on from its old offset.
ReadOn(f) == offset[f]

\* Where this call of scanFile reads from, if it is not resuming.
ReadFrom(f) == IF Size(f) < offset[f] THEN 0 ELSE offset[f]

\* scanFile up to the choice of the byte range.  A file shorter than its
\* offset is read again from the start, one shorter than its in-flight end
\* from its offset; both lose ledger and chunk keys (DiscardScan).  Only this
\* call's offset is reset, not the stored one.
Stat ==
    /\ scan.pc = "stat"
    /\ LET f == FileOrder[scan.n]
           size == Size(f)
           pending == inFlight[f] # NoScan
           resuming == pending /\ ~Shrunk(f)
           from == ReadFrom(f)
       IN  /\ inFlight' = IF Shrunk(f) THEN [inFlight EXCEPT ![f] = NoScan] ELSE inFlight
           /\ chunks' = IF Shrunk(f) THEN [chunks EXCEPT ![f] = {}] ELSE chunks
           /\ unseen' = unseen \ {f}
           /\ scan' = IF ~resuming /\ size = from THEN NextFile(scan.n)
                ELSE [pc |-> "parse", n |-> scan.n, resuming |-> resuming,
                      start |-> IF resuming THEN inFlight[f].start
                                ELSE IF f \in Reparsed THEN 0 ELSE from,
                      end |-> IF resuming THEN inFlight[f].end ELSE size]
    /\ UNCHANGED <<world, log, partial, clock, offset, turnStart, sinkVars>>

\* The file has gone or cannot be opened: scanFile reports nothing.
Unreadable ==
    /\ "open" \in Faults
    /\ scan.pc \in {"stat", "parse"}
    /\ scan' = NextFile(scan.n)
    /\ UNCHANGED <<logVars, stateVars, sinkVars>>

\* Parse the range and, on a new scan, fix its boundary in the state file
\* (BeginScan).  A resumed scan must find the same boundary or fail.
ParseFile ==
    /\ scan.pc = "parse"
    /\ LET f == FileOrder[scan.n]
           res == Parse(f, scan.start, scan.end, turnStart[f])
           end == scan.start + res.consumed
       IN  IF scan.resuming /\ end # scan.end
           THEN scan' = Idle /\ UNCHANGED inFlight
           ELSE /\ inFlight' = IF scan.resuming THEN inFlight
                    ELSE [inFlight EXCEPT ![f] = [start |-> scan.start, end |-> end,
                                                  turn |-> res.turn, done |-> {}]]
                /\ scan' = [pc |-> "deliver", n |-> scan.n, resuming |-> scan.resuming,
                            keys |-> Keys(res)]
    /\ UNCHANGED <<logVars, offset, turnStart, chunks, sinkVars>>

\* Only a new scan of a FullReparse file consults the cross-scan keys.
CrossScan == FileOrder[scan.n] \in Reparsed /\ ~scan.resuming

\* Mutant: the ledger of the unfinished scan is not consulted.
OwedAgain ==
    LET f == FileOrder[scan.n]
    IN  {key \in scan.keys : ~(CrossScan /\ key \in chunks[f])}

\* The deliveries still owed.
Owed ==
    LET f == FileOrder[scan.n]
    IN  {key \in scan.keys \ inFlight[f].done : ~(CrossScan /\ key \in chunks[f])}

\* The sink accepts the next delivery...
Deliver ==
    /\ scan.pc = "deliver"
    /\ \E key \in Owed :
        /\ \A k \in Owed : ~Precedes(k, key)
        /\ delivered' = IF key.kind = "events" THEN delivered \cup key.payload ELSE delivered
        /\ quotas' = IF key.kind = "quotas" THEN quotas \cup key.payload ELSE quotas
        /\ scan' = [pc |-> "mark", n |-> scan.n, resuming |-> scan.resuming,
                    keys |-> scan.keys, key |-> key]
    /\ UNCHANGED <<logVars, stateVars>>

\* ... and MarkDeliveryDone enters it in the ledger.
Mark ==
    /\ scan.pc = "mark"
    /\ inFlight' = [inFlight EXCEPT ![FileOrder[scan.n]].done = @ \cup {scan.key}]
    /\ scan' = [pc |-> "deliver", n |-> scan.n, resuming |-> scan.resuming,
                keys |-> scan.keys]
    /\ UNCHANGED <<logVars, offset, turnStart, chunks, sinkVars>>

\* Offset, turn start and cross-scan keys advance in one save, which also
\* closes the ledger.
Commit ==
    /\ scan.pc = "deliver"
    /\ Owed = {}
    /\ LET f == FileOrder[scan.n]
           turn == inFlight[f].turn
       IN  /\ offset' = [offset EXCEPT ![f] = inFlight[f].end]
           /\ turnStart' = IF turn > 0 THEN [turnStart EXCEPT ![f] = turn] ELSE turnStart
           /\ inFlight' = [inFlight EXCEPT ![f] = NoScan]
           /\ chunks' = IF CrossScan THEN [chunks EXCEPT ![f] =
                                            {key \in scan.keys : key.kind = "events"}]
                        ELSE chunks
           /\ scan' = NextFile(scan.n)
    /\ UNCHANGED <<logVars, sinkVars>>

\* Is the next thing the pass does a save of the state file (DiscardScan,
\* BeginScan, MarkDeliveryDone, Commit)?
Saving ==
    \/ /\ scan.pc = "stat"
       /\ LET f == FileOrder[scan.n]
          IN  Shrunk(f) /\ (inFlight[f] # NoScan \/ chunks[f] # {})
    \/ scan.pc = "parse" /\ ~scan.resuming
    \/ scan.pc = "mark"
    \/ scan.pc = "deliver" /\ Owed = {}

\* The pass ends where it is: the process dies, a save fails, or the sink
\* answers with an error; ScanSources returns at the first error and the
\* remaining files wait for the next pass.
Interrupt ==
    /\ scan # Idle
    /\ \/ "crash" \in Faults
       \/ "sink" \in Faults /\ scan.pc = "deliver" /\ Owed # {}
       \/ "save" \in Faults /\ Saving
    /\ scan' = Idle
    /\ UNCHANGED <<logVars, stateVars, sinkVars>>

\* LoadState finds the file unreadable as JSON, or ResetOffsets is asked for
\* (-rescan), between passes.
Forget ==
    /\ scan = Idle
    /\ Faults \cap {"corrupt", "rescan"} # {}
    /\ offset' = [f \in Paths |-> 0]
    /\ turnStart' = [f \in Paths |-> 0]
    /\ inFlight' = [f \in Paths |-> NoScan]
    /\ chunks' = [f \in Paths |-> {}]
    /\ unseen' = {}
    /\ UNCHANGED <<world, log, partial, clock, scan, sinkVars>>

PassStep == Stat \/ ParseFile \/ Deliver \/ Mark \/ Commit

Next ==
    \/ \E f \in Paths : Write(f) \/ Truncate(f)
    \/ StartPass
    \/ PassStep
    \/ Unreadable
    \/ Interrupt
    \/ Forget

Spec == Init /\ [][Next]_vars

(***************************************************************************)
(* Fairness: Run and runCollectors start passes for ever; a process that   *)
(* is killed or refused again and again is assumed to get past each point  *)
(* of each file eventually.                                                *)
(***************************************************************************)
At(f) == scan # Idle /\ FileOrder[scan.n] = f

FairSpec ==
    /\ Spec
    /\ WF_vars(StartPass)
    /\ \A f \in Paths :
        /\ SF_vars(At(f) /\ Stat) /\ SF_vars(At(f) /\ ParseFile)
        /\ SF_vars(At(f) /\ Deliver) /\ SF_vars(At(f) /\ Mark)
        /\ SF_vars(At(f) /\ Commit)

-----------------------------------------------------------------------------
(* Properties.                                                             *)

\* No pass is in the middle of f and no truncation of it has gone unnoticed.
Settled(f) ==
    /\ ~At(f)
    /\ inFlight[f] = NoScan
    /\ f \notin unseen
    /\ Size(f) >= offset[f]

\* "A crash can only cause re-parsing, never loss" (State): every line before
\* the committed offset has reached its sink, whatever failed, died, was
\* skipped, resumed or forgotten on the way.
CommittedIsDelivered ==
    \A f \in Paths : Settled(f) =>
        \A line \in Range(LinesBetween(f, 0, offset[f])) :
            /\ (IsEvent(line) /\ InWindow(line)) =>
                    \E e \in delivered : e.ts = line.ts
            /\ IsLimit(line) => line.ts \in quotas

\* Reading a file piece by piece gives what one parse of the whole prefix
\* gives: each event is delivered with the generation interval a full parse
\* measures.  For a FullReparse file this includes intervals that a later
\* line closed over an event delivered before (ADR-0032); for the others it
\* rests on the turn start carried with the offset (comment on Commit).
CommittedMatchesFullParse ==
    \A f \in Paths : Settled(f) =>
        \A e \in Parse(f, 0, offset[f], 0).events :
            InWindow(e) => e \in delivered

\* The same for files that only grow.
GrowingMatchesFullParse == "truncate" \notin Faults => CommittedMatchesFullParse

\* The ledger's purpose (comment on InFlight): however often the sink refuses
\* a later batch, a batch it accepted is not handed over again, as long as
\* nothing but the sink fails.
SinkErrorsNeverRedeliver ==
    [][(Faults \subseteq {"sink"} /\ scan.pc = "deliver" /\ scan'.pc = "mark"
            /\ FileOrder[scan.n] \notin Reparsed /\ scan'.key.kind = "events")
        => scan'.key.payload \cap delivered = {}]_vars

\* Every complete event line in the window is delivered in the end, in every
\* file, although passes are interrupted for ever.
EveryEventDelivered ==
    \A f \in Paths, n \in 1..MaxLines :
        (\E line \in Range(log[f]) : line.ts = n /\ IsEvent(line) /\ InWindow(line))
            ~> \E e \in delivered : e.ts = n
=============================================================================
