-------------------------- MODULE CollectorProofs --------------------------
(***************************************************************************)
(* Proofs about the incremental collector, for any files, chunk size and   *)
(* number of lines.                                                        *)
(***************************************************************************)
EXTENDS Collector, OrderLemmas, SequenceTheorems

-----------------------------------------------------------------------------
(* The inductive invariant.                                                *)

Line == [kind : Kinds, ts : Nat \ {0}]

IsScan(s) ==
    /\ s = [start |-> s.start, end |-> s.end, turn |-> s.turn, done |-> s.done]
    /\ s.start \in Nat /\ s.end \in Nat /\ s.turn \in Nat

\* Where the running pass can be, and its hold on the ledger.
ScanOK ==
    \/ scan = Idle
    \/ /\ scan.n \in 1..Len(FileOrder)
       /\ scan.pc \in {"stat", "parse", "deliver", "mark"}
       /\ scan.pc # "stat" => scan.resuming \in BOOLEAN
       /\ scan.pc = "parse" =>
            /\ scan.start \in Nat /\ scan.end \in Nat
            /\ scan.resuming <=> inFlight[FileOrder[scan.n]] # NoScan
            /\ scan.resuming => /\ scan.start = inFlight[FileOrder[scan.n]].start
                                /\ scan.end = inFlight[FileOrder[scan.n]].end
       /\ scan.pc \in {"deliver", "mark"} => inFlight[FileOrder[scan.n]] # NoScan

\* The shape of the state, in every world.
TypeInv ==
    /\ world \in Worlds
    /\ log \in [Paths -> Seq(Line)]
    /\ partial \in [Paths -> BOOLEAN]
    /\ clock \in Nat
    /\ unseen \subseteq Paths
    /\ offset \in [Paths -> Nat]
    /\ turnStart \in [Paths -> Nat]
    /\ inFlight = [f \in Paths |-> inFlight[f]]
    /\ \A f \in Paths : inFlight[f] = NoScan \/ IsScan(inFlight[f])
    /\ chunks = [f \in Paths |-> chunks[f]]
    /\ ScanOK

\* The complete lines of a file with these lines, between two offsets.
Piece(L, start, end) == SubSeq(L, start \div 2 + 1, Min({end \div 2, Len(L)}))

\* The events and the limit hits on these lines, and what a parse of them
\* returns.
EventsOf(f, lines, carry) ==
    {EventAt(f, lines, i, carry) : i \in {j \in 1..Len(lines) : IsEvent(lines[j])}}
HitsOf(lines) == {lines[i].ts : i \in {j \in 1..Len(lines) : IsLimit(lines[j])}}
ParseOf(f, lines, carry) ==
    [events   |-> EventsOf(f, lines, carry),
     quotas   |-> HitsOf(lines),
     consumed |-> 2 * Len(lines),
     turn     |-> IF f \in Reparsed THEN 0 ELSE TurnBefore(lines, Len(lines), carry)]

\* The deliveries of what a parse returns, in a world.
KeysIn(w, res) ==
    ChunkKeys({e \in res.events : e.ts >= w.notBefore}) \cup QuotaKeys(res.quotas)

Even(n) == n = 2 * (n \div 2)

\* n is the end of a complete line of f, or 0.
Boundary(f, n) == Even(n) /\ n <= 2 * Len(log[f])

\* The sinks have accepted what a parse of these lines gives.
Told(f, lines, carry) ==
    /\ \A e \in EventsOf(f, lines, carry) : InWindow(e) => e \in delivered
    /\ HitsOf(lines) \subseteq quotas

Handed(key) ==
    /\ key.kind = "events" => key.payload \subseteq delivered
    /\ key.kind = "quotas" => key.payload \subseteq quotas

\* What the unfinished scan of f is a parse of.
InFlightParse(f) ==
    ParseOf(f, Piece(log[f], inFlight[f].start, inFlight[f].end), turnStart[f])

\* A file that only grows: the committed offset, the turn start that goes with
\* it and the keys the collector skips by.
CommittedOK(f) ==
    /\ Boundary(f, offset[f])
    /\ Told(f, Piece(log[f], 0, offset[f]), 0)
    /\ f \notin Reparsed =>
        turnStart[f] = TurnBefore(Piece(log[f], 0, offset[f]), offset[f] \div 2, 0)
    /\ \A key \in chunks[f] : Handed(key)

\* Its unfinished scan: where it starts and ends, and its ledger.
LedgerOK(f) ==
    inFlight[f] # NoScan =>
        /\ Boundary(f, inFlight[f].end)
        /\ offset[f] <= inFlight[f].end
        /\ inFlight[f].start = IF f \in Reparsed THEN 0 ELSE offset[f]
        /\ inFlight[f].turn = InFlightParse(f).turn
        /\ \A key \in inFlight[f].done : Handed(key)

\* The pass that is in the middle of a file.
PassOK ==
    LET f == FileOrder[scan.n]
    IN  /\ scan.pc = "parse" =>
            scan.resuming \/ /\ scan.start = IF f \in Reparsed THEN 0 ELSE offset[f]
                             /\ offset[f] <= scan.end /\ scan.end <= Size(f)
        /\ scan.pc \in {"deliver", "mark"} => scan.keys = KeysIn(world, InFlightParse(f))
        /\ scan.pc = "mark" => scan.key \in scan.keys /\ Handed(scan.key)

GrowInv == (\A f \in Paths : CommittedOK(f) /\ LedgerOK(f)) /\ PassOK
Growing == "truncate" \notin Faults
CollectorInv == TypeInv /\ (Growing => GrowInv)

-----------------------------------------------------------------------------
(* Who accepted what, where only the sink fails.                           *)

\* Stamps are unique.
StampsOK ==
    /\ \A f \in Paths : \A i \in 1..Len(log[f]) : log[f][i].ts <= clock
    /\ \A f, g \in Paths : \A i \in 1..Len(log[f]), j \in 1..Len(log[g]) :
        log[f][i].ts = log[g][j].ts => f = g /\ i = j

\* The keys of f that the sink has accepted in its unfinished scan.
Accepted(f) ==
    inFlight[f].done \cup IF scan.pc = "mark" /\ FileOrder[scan.n] = f THEN {scan.key} ELSE {}

\* A delivered event is on a line that is committed, or in a chunk the ledger
\* has, or is about to have.
AccountedAt(e, f, i) ==
    /\ e.ts = log[f][i].ts
    /\ \/ f \in Reparsed
       \/ 2 * i <= offset[f]
       \/ /\ inFlight[f] # NoScan
          /\ \E key \in Accepted(f) : key.kind = "events" /\ e \in key.payload
Accounted(e) == \E f \in Paths : \E i \in 1..Len(log[f]) : AccountedAt(e, f, i)

SinkOnlyInv ==
    /\ StampsOK
    /\ \A e \in delivered : Accounted(e)
    /\ \A f \in Paths : inFlight[f] # NoScan => inFlight[f].done \subseteq KeysIn(world, InFlightParse(f))

SinkOnly == Faults \subseteq {"sink"}
LedgerInv == CollectorInv /\ (SinkOnly => SinkOnlyInv)

-----------------------------------------------------------------------------
(* Files that are rewritten shorter, under a sink that may fail.            *)

\* The line has reached its sink.
LineTold(line) ==
    /\ (IsEvent(line) /\ InWindow(line)) => \E e \in delivered : e.ts = line.ts
    /\ IsLimit(line) => line.ts \in quotas

\* So have all complete lines before n.
Reached(f, n) == \A i \in 1..Len(log[f]) : 2 * i <= n => LineTold(log[f][i])

\* Either the next pass sees that the file was cut below its offset, or the
\* offset is good.
Sound(f) ==
    \/ Size(f) < offset[f] /\ f \in unseen
    \/ offset[f] <= Size(f) /\ Reached(f, offset[f])

\* A pass has read the size of f and is about to parse it anew.
Looking(f) == scan.pc = "parse" /\ FileOrder[scan.n] = f /\ ~scan.resuming

\* A file that was cut below its offset is read from its start, up to an end
\* below that offset; the offset is stale until the scan is committed.
CutOK(f) ==
    /\ Len(log[f]) = 0 => offset[f] = 0 /\ inFlight[f].end = 0
    /\ Even(offset[f])
    /\ \A key \in chunks[f] : Handed(key)
    /\ (inFlight[f] = NoScan /\ ~Looking(f)) => Sound(f)
    /\ inFlight[f] # NoScan =>
        /\ Even(inFlight[f].end)
        /\ inFlight[f].start = 0 \/ inFlight[f].start = offset[f]
        /\ inFlight[f].start <= inFlight[f].end
        /\ inFlight[f].end < offset[f] \/ Sound(f)
        /\ Size(f) < inFlight[f].end => f \in unseen
        /\ \A key \in inFlight[f].done : Handed(key)

CutPassOK ==
    LET f == FileOrder[scan.n]
    IN  /\ scan.pc = "parse" =>
            \/ scan.resuming
            \/ scan.start = 0 /\ scan.end < offset[f]
            \/ Sound(f) /\ scan.start = 0
            \/ Sound(f) /\ scan.start = offset[f] /\ offset[f] <= scan.end
        /\ (scan.pc \in {"deliver", "mark"} /\ inFlight[f].end <= Size(f)) =>
            scan.keys = KeysIn(world, InFlightParse(f))
        /\ scan.pc = "mark" => Handed(scan.key)

CutInv == (\A f \in Paths : CutOK(f)) /\ CutPassOK
Cutting == KeptLines > 0 /\ Faults \subseteq {"truncate", "sink"}

-----------------------------------------------------------------------------
(* Pieces of a file.                                                        *)

LEMMA MinOfTwo ==
    ASSUME NEW a \in Int, NEW b \in Int
    PROVE  Min({a, b}) = IF a <= b THEN a ELSE b
  <1> DEFINE m == IF a <= b THEN a ELSE b
  <1>1. m \in {a, b} /\ \A y \in {a, b} : m <= y
    OBVIOUS
  <1>2. \A x \in {a, b} : (\A y \in {a, b} : x <= y) => x = m
    OBVIOUS
  <1> QED BY <1>1, <1>2 DEF Min

\* A bounded set of naturals has a maximum.
LEMMA MaxOfBounded ==
    ASSUME NEW n \in Nat, NEW S \in SUBSET (1..n), S # {}
    PROVE  Max(S) \in S /\ \A y \in S : y <= Max(S)
  <1> DEFINE leq == {pair \in S \X S : pair[1] <= pair[2]}
  <1>1. IsFiniteSet(S)
    <2>1. 1 \in Int /\ n \in Int
      OBVIOUS
    <2>2. IsFiniteSet(1..n)
      BY <2>1, FS_Interval
    <2> QED BY <2>2, FS_Subset
  <1>2. \A x \in S : x \in Nat
    <2> SUFFICES ASSUME NEW x \in S PROVE x \in Nat
      OBVIOUS
    <2>1. x \in 1..n
      OBVIOUS
    <2> QED BY <2>1
  <1>3. \A x, y \in S : <<x, y>> \in leq <=> x <= y
    OBVIOUS
  <1> HIDE DEF leq
  <1>4. \A x, y \in S : <<x, y>> \in leq \/ <<y, x>> \in leq
    <2>1. \A x, y \in S : x <= y \/ y <= x
      BY <1>2
    <2> QED BY <1>3, <2>1
  <1>5. \A x, y, z \in S : <<x, y>> \in leq /\ <<y, z>> \in leq => <<x, z>> \in leq
    BY <1>2, <1>3
  <1>6. \E m \in S : \A x \in S : <<x, m>> \in leq
    BY <1>1, <1>4, <1>5, FiniteMaximum
  <1>7. \E m \in S : \A x \in S : m >= x
    BY <1>2, <1>3, <1>6
  <1>8. Max(S) \in S /\ \A x \in S : Max(S) >= x
    BY <1>7 DEF Max
  <1> QED BY <1>2, <1>8

\* What a piece is, between two boundaries.
LEMMA PieceIs ==
    ASSUME NEW L \in Seq(Line), NEW s \in Nat, NEW e \in Nat,
           Even(s), Even(e), s <= e, e <= 2 * Len(L)
    PROVE  /\ Piece(L, s, e) \in Seq(Line)
           /\ Len(Piece(L, s, e)) = e \div 2 - s \div 2
           /\ \A i \in 1..(e \div 2 - s \div 2) : Piece(L, s, e)[i] = L[s \div 2 + i]
  <1>1. Len(L) \in Nat /\ \A i \in 1..Len(L) : L[i] \in Line
    OBVIOUS
  <1>2. PICK a \in Nat : a = s \div 2 /\ s = 2 * a
    BY DEF Even
  <1>3. PICK b \in Nat : b = e \div 2 /\ e = 2 * b
    BY DEF Even
  <1>4. a <= b /\ b <= Len(L)
    BY <1>1, <1>2, <1>3
  <1>5. Min({b, Len(L)}) = b
    BY <1>1, <1>4, MinOfTwo
  <1>6. Piece(L, s, e) = SubSeq(L, a + 1, b)
    BY <1>2, <1>3, <1>5 DEF Piece
  <1>7. \A i \in (a + 1)..b : L[i] \in Line
    BY <1>1, <1>4
  <1>8. /\ SubSeq(L, a + 1, b) \in Seq(Line)
        /\ Len(SubSeq(L, a + 1, b)) = b - a
        /\ \A i \in 1..(b - a) : SubSeq(L, a + 1, b)[i] = L[a + i]
    <2>1. a + 1 \in Int /\ b \in Int
      OBVIOUS
    <2>2. /\ SubSeq(L, a + 1, b) \in Seq(Line)
          /\ Len(SubSeq(L, a + 1, b)) = IF a + 1 <= b THEN b - (a + 1) + 1 ELSE 0
          /\ \A i \in 1 .. b - (a + 1) + 1 : SubSeq(L, a + 1, b)[i] = L[a + 1 + i - 1]
      BY <1>7, <2>1, SubSeqProperties
    <2>3. \A i \in 1..(b - a) : i \in 1 .. b - (a + 1) + 1 /\ a + 1 + i - 1 = a + i
      OBVIOUS
    <2>4. \A i \in 1..(b - a) : SubSeq(L, a + 1, b)[i] = L[a + i]
      BY <2>2, <2>3
    <2> QED BY <1>4, <2>2, <2>4
  <1> QED BY <1>2, <1>3, <1>6, <1>8

\* A piece is the same in two files that agree up to its end.
LEMMA SamePiece ==
    ASSUME NEW L \in Seq(Line), NEW M \in Seq(Line), NEW s \in Nat, NEW e \in Nat,
           Even(s), Even(e), s <= e, e <= 2 * Len(L), e <= 2 * Len(M),
           \A i \in 1..(e \div 2) : L[i] = M[i]
    PROVE  Piece(L, s, e) = Piece(M, s, e)
  <1> DEFINE P == Piece(L, s, e)
             Q == Piece(M, s, e)
             n == e \div 2 - s \div 2
  <1>1. P \in Seq(Line) /\ Len(P) = n /\ \A i \in 1..n : P[i] = L[s \div 2 + i]
    BY PieceIs
  <1>2. Q \in Seq(Line) /\ Len(Q) = n /\ \A i \in 1..n : Q[i] = M[s \div 2 + i]
    BY PieceIs
  <1>3. \A i \in 1..n : s \div 2 + i \in 1..(e \div 2)
    OBVIOUS
  <1>4. \A i \in 1..Len(P) : P[i] = Q[i]
    BY <1>1, <1>2, <1>3
  <1> HIDE DEF P, Q
  <1>5. P = Q
    BY <1>1, <1>2, <1>4, SeqEqual
  <1> QED BY <1>5 DEF P, Q

\* A turn record is a line with a stamp that is not 0.
LEMMA TurnBeforeType ==
    ASSUME NEW L \in Seq(Line), NEW i \in 0..Len(L), NEW carry \in Nat
    PROVE  /\ TurnBefore(L, i, carry) \in Nat
           /\ TurnBefore(L, i, carry) = 0 => carry = 0
  <1> DEFINE T == {j \in 1..i : L[j].kind = "turn"}
  <1>1. CASE T = {}
    BY <1>1 DEF TurnBefore
  <1>2. CASE T # {}
    <2>1. i \in Nat /\ T \in SUBSET (1..i)
      OBVIOUS
    <2>2. Max(T) \in T
      <3> HIDE DEF T
      <3> QED BY <1>2, <2>1, MaxOfBounded
    <2>3. Max(T) \in 1..Len(L)
      BY <2>2
    <2>4. L[Max(T)] \in Line
      BY <2>3
    <2>5. TurnBefore(L, i, carry) = L[Max(T)].ts
      BY <1>2 DEF TurnBefore
    <2> HIDE DEF T
    <2> QED BY <2>4, <2>5 DEF Line
  <1> QED BY <1>1, <1>2

\* Only the lines up to i matter.
LEMMA TurnBeforePrefix ==
    ASSUME NEW L \in Seq(Line), NEW M \in Seq(Line), NEW i \in Nat, NEW carry,
           \A j \in 1..i : L[j] = M[j]
    PROVE  TurnBefore(L, i, carry) = TurnBefore(M, i, carry)
  <1> DEFINE T == {j \in 1..i : L[j].kind = "turn"}
             U == {j \in 1..i : M[j].kind = "turn"}
  <1>1. T = U
    OBVIOUS
  <1>2. CASE T = {}
    BY <1>1, <1>2 DEF TurnBefore
  <1>3. CASE T # {}
    <2>1. T \in SUBSET (1..i)
      OBVIOUS
    <2>2. Max(T) \in T
      <3> HIDE DEF T
      <3> QED BY <1>3, <2>1, MaxOfBounded
    <2>3. L[Max(T)] = M[Max(T)]
      BY <2>2
    <2>4. TurnBefore(L, i, carry) = L[Max(T)].ts
      BY <1>3 DEF TurnBefore
    <2>5. TurnBefore(M, i, carry) = M[Max(U)].ts
      BY <1>1, <1>3 DEF TurnBefore
    <2> HIDE DEF T, U
    <2> QED BY <1>1, <2>3, <2>4, <2>5
  <1> QED BY <1>2, <1>3

\* The turn start carried over is the one a parse from the start would find:
\* R is P followed by Q.
LEMMA TurnCarried ==
    ASSUME NEW P \in Seq(Line), NEW Q \in Seq(Line), NEW R \in Seq(Line),
           Len(R) = Len(P) + Len(Q),
           \A j \in 1..Len(P) : R[j] = P[j],
           \A j \in 1..Len(Q) : R[Len(P) + j] = Q[j],
           NEW i \in 0..Len(Q)
    PROVE  TurnBefore(R, Len(P) + i, 0) = TurnBefore(Q, i, TurnBefore(P, Len(P), 0))
  <1> DEFINE a == Len(P)
             T == {j \in 1..i : Q[j].kind = "turn"}
             U == {j \in 1..(a + i) : R[j].kind = "turn"}
             V == {j \in 1..a : P[j].kind = "turn"}
  <1>0. a \in Nat /\ i \in Nat /\ i <= Len(Q) /\ Len(Q) \in Nat
    OBVIOUS
  <1>1. CASE T = {}
    <2>1. \A j \in U : j \in 1..a
      <3> SUFFICES ASSUME NEW j \in 1..(a + i), R[j].kind = "turn", j > a PROVE FALSE
        BY <1>0
      <3>1. j - a \in 1..i /\ j - a \in 1..Len(Q) /\ a + (j - a) = j
        BY <1>0
      <3>2. R[j] = Q[j - a]
        BY <3>1
      <3> QED BY <1>1, <3>1, <3>2
    <2>2. U = V
      <3>1. \A j \in V : j \in U
        BY <1>0
      <3>2. \A j \in U : j \in V
        BY <2>1
      <3> QED BY <3>1, <3>2
    <2>3. TurnBefore(Q, i, TurnBefore(P, a, 0)) = TurnBefore(P, a, 0)
      BY <1>1 DEF TurnBefore
    <2>4. TurnBefore(R, a + i, 0) = IF U = {} THEN 0 ELSE R[Max(U)].ts
      BY DEF TurnBefore
    <2>5. TurnBefore(P, a, 0) = IF V = {} THEN 0 ELSE P[Max(V)].ts
      BY DEF TurnBefore
    <2>6. V # {} => Max(V) \in V
      <3>1. V \in SUBSET (1..a)
        OBVIOUS
      <3> HIDE DEF V
      <3> QED BY <1>0, <3>1, MaxOfBounded
    <2>7. V # {} => R[Max(V)] = P[Max(V)]
      BY <2>6
    <2> HIDE DEF T, U, V
    <2> QED BY <2>2, <2>3, <2>4, <2>5, <2>7
  <1>2. CASE T # {}
    <2>1. T \in SUBSET (1..i) /\ U \in SUBSET (1..(a + i))
      OBVIOUS
    <2>2. Max(T) \in T /\ \A j \in T : j <= Max(T)
      <3> HIDE DEF T
      <3> QED BY <1>0, <1>2, <2>1, MaxOfBounded
    <2>3. Max(T) \in 1..i /\ Q[Max(T)].kind = "turn"
      BY <2>2
    <2>4. a + Max(T) \in U
      BY <1>0, <2>3
    <2>5. Max(U) \in U /\ \A j \in U : j <= Max(U)
      <3>1. a + i \in Nat
        BY <1>0
      <3> HIDE DEF U
      <3> QED BY <2>1, <2>4, <3>1, MaxOfBounded
    <2>6. Max(U) \in 1..(a + i) /\ a + Max(T) <= Max(U)
      BY <2>4, <2>5
    <2>7. Max(U) - a \in 1..i /\ Max(U) - a \in 1..Len(Q) /\ a + (Max(U) - a) = Max(U)
      BY <1>0, <2>3, <2>6
    <2>8. Max(U) - a \in T
      <3>1. R[Max(U)] = Q[Max(U) - a]
        BY <2>7
      <3> QED BY <2>5, <2>7, <3>1
    <2>9. Max(U) - a <= Max(T)
      BY <2>2, <2>8
    <2>10. Max(U) = a + Max(T)
      <3>1. a \in Int /\ Max(T) \in Int /\ Max(U) \in Int
        BY <1>0, <2>3, <2>6
      <3>2. a + Max(T) <= Max(U) /\ Max(U) - a <= Max(T)
        BY <2>6, <2>9
      <3>3. \A x, y, w \in Int : x + y <= w /\ w - x <= y => w = x + y
        OBVIOUS
      <3> HIDE DEF a, T, U
      <3> QED BY <3>1, <3>2, <3>3
    <2>11. R[Max(U)] = Q[Max(T)]
      BY <1>0, <2>3, <2>10
    <2>12. TurnBefore(R, a + i, 0) = R[Max(U)].ts
      BY <2>4 DEF TurnBefore
    <2>13. TurnBefore(Q, i, TurnBefore(P, a, 0)) = Q[Max(T)].ts
      BY <1>2 DEF TurnBefore
    <2> HIDE DEF T, U, V
    <2> QED BY <2>11, <2>12, <2>13
  <1> QED BY <1>1, <1>2

\* An incremental file parsed in two pieces gives what one parse gives.
LEMMA TwoPieces ==
    ASSUME NEW P \in Seq(Line), NEW Q \in Seq(Line), NEW R \in Seq(Line),
           Len(R) = Len(P) + Len(Q),
           \A j \in 1..Len(P) : R[j] = P[j],
           \A j \in 1..Len(Q) : R[Len(P) + j] = Q[j],
           NEW f, f \notin Reparsed
    PROVE  EventsOf(f, R, 0) \subseteq
               EventsOf(f, P, 0) \cup EventsOf(f, Q, TurnBefore(P, Len(P), 0))
  <1> DEFINE a == Len(P)
             c == TurnBefore(P, a, 0)
  <1>0. a \in Nat /\ Len(Q) \in Nat
    OBVIOUS
  <1>1. SUFFICES ASSUME NEW i \in 1..Len(R), IsEvent(R[i])
                 PROVE  EventAt(f, R, i, 0) \in EventsOf(f, P, 0) \cup EventsOf(f, Q, c)
    BY DEF EventsOf
  <1>2. CASE i <= a
    <2>1. i \in 1..a /\ R[i] = P[i] /\ i \in Nat
      BY <1>0, <1>2
    <2>2. TurnBefore(R, i, 0) = TurnBefore(P, i, 0)
      <3>1. \A j \in 1..i : R[j] = P[j]
        BY <1>0, <1>2
      <3> QED BY <2>1, <3>1, TurnBeforePrefix
    <2>3. EventAt(f, R, i, 0) = EventAt(f, P, i, 0)
      BY <2>1, <2>2 DEF EventAt
    <2> QED BY <1>1, <2>1, <2>3 DEF EventsOf
  <1>3. CASE i > a
    <2>1. i - a \in 1..Len(Q) /\ i - a \in 0..Len(Q) /\ a + (i - a) = i
      BY <1>0, <1>3
    <2>2. R[i] = Q[i - a]
      BY <2>1
    <2>3. TurnBefore(R, i, 0) = TurnBefore(Q, i - a, c)
      <3>1. TurnBefore(R, a + (i - a), 0) = TurnBefore(Q, i - a, c)
        BY <2>1, TurnCarried
      <3> HIDE DEF a, c
      <3> QED BY <2>1, <3>1
    <2>4. EventAt(f, R, i, 0) = EventAt(f, Q, i - a, c)
      BY <2>2, <2>3 DEF EventAt
    <2> QED BY <1>1, <2>1, <2>2, <2>4 DEF EventsOf
  <1> QED BY <1>0, <1>2, <1>3

LEMMA TwoPiecesHits ==
    ASSUME NEW P \in Seq(Line), NEW Q \in Seq(Line), NEW R \in Seq(Line),
           Len(R) = Len(P) + Len(Q),
           \A j \in 1..Len(P) : R[j] = P[j],
           \A j \in 1..Len(Q) : R[Len(P) + j] = Q[j]
    PROVE  HitsOf(R) \subseteq HitsOf(P) \cup HitsOf(Q)
  <1>0. Len(P) \in Nat /\ Len(Q) \in Nat
    OBVIOUS
  <1>1. SUFFICES ASSUME NEW i \in 1..Len(R), IsLimit(R[i])
                 PROVE  R[i].ts \in HitsOf(P) \cup HitsOf(Q)
    BY DEF HitsOf
  <1>2. CASE i <= Len(P)
    <2>1. i \in 1..Len(P)
      BY <1>0, <1>2
    <2>2. R[i] = P[i]
      BY <2>1
    <2> QED BY <1>1, <2>1, <2>2 DEF HitsOf
  <1>3. CASE i > Len(P)
    <2>0. i \in Nat /\ i <= Len(P) + Len(Q)
      BY <1>0
    <2>1. i - Len(P) \in 1..Len(Q) /\ Len(P) + (i - Len(P)) = i
      BY <1>0, <1>3, <2>0
    <2>2. R[i] = Q[i - Len(P)]
      BY <2>1
    <2> QED BY <1>1, <2>1, <2>2 DEF HitsOf
  <1> QED BY <1>0, <1>2, <1>3

\* The deliveries of a scan leave nothing of what it parsed out.
LEMMA KeysCover ==
    ASSUME NEW f, NEW lines, NEW carry, NEW res,
           res.events = EventsOf(f, lines, carry), res.quotas = HitsOf(lines),
           \A key \in KeysIn(world, res) : Handed(key)
    PROVE  Told(f, lines, carry)
  <1>1. ASSUME NEW e \in res.events, InWindow(e) PROVE e \in delivered
    <2> DEFINE events == {d \in res.events : d.ts >= world.notBefore}
               Ordinal(x) == Cardinality({d \in events : d.ts < x.ts}) \div ChunkSize
               key == [kind |-> "events", ordinal |-> Ordinal(e),
                       payload |-> {d \in events : Ordinal(d) = Ordinal(e)}]
    <2>1. e \in events
      BY <1>1 DEF InWindow
    <2>2. key \in ChunkKeys(events)
      BY <2>1 DEF ChunkKeys
    <2>3. Handed(key)
      BY <2>2 DEF KeysIn
    <2>4. e \in key.payload /\ key.kind = "events"
      BY <2>1
    <2> HIDE DEF key
    <2> QED BY <2>3, <2>4 DEF Handed
  <1>2. res.quotas \subseteq quotas
    <2>1. CASE res.quotas = {}
      BY <2>1
    <2>2. CASE res.quotas # {}
      <3> DEFINE key == [kind |-> "quotas", ordinal |-> 0, payload |-> res.quotas]
      <3>1. key \in QuotaKeys(res.quotas)
        BY <2>2 DEF QuotaKeys
      <3>2. Handed(key)
        BY <3>1 DEF KeysIn
      <3> QED BY <3>2 DEF Handed
    <2> QED BY <2>1, <2>2
  <1> QED BY <1>1, <1>2 DEF Told

\* A scan has two kinds of deliveries.
LEMMA KeyKinds ==
    ASSUME NEW w, NEW res, NEW key \in KeysIn(w, res)
    PROVE  \/ key.kind = "events" /\ key.payload \subseteq res.events
           \/ key.kind = "quotas"
  <1> DEFINE events == {d \in res.events : d.ts >= w.notBefore}
  <1>1. key \in ChunkKeys(events) \/ key \in QuotaKeys(res.quotas)
    BY DEF KeysIn
  <1>2. CASE key \in ChunkKeys(events)
    <2>1. key.kind = "events" /\ key.payload \subseteq events
      <3> DEFINE Ordinal(x) == Cardinality({d \in events : d.ts < x.ts}) \div ChunkSize
      <3>1. \E n : key = [kind |-> "events", ordinal |-> n,
                          payload |-> {d \in events : Ordinal(d) = n}]
        <4> HIDE DEF events
        <4> QED BY <1>2 DEF ChunkKeys
      <3> HIDE DEF events, Ordinal
      <3> QED BY <3>1
    <2> QED BY <2>1
  <1>3. CASE key \in QuotaKeys(res.quotas)
    BY <1>3 DEF QuotaKeys
  <1> QED BY <1>1, <1>2, <1>3

\* No event is in two of them.
LEMMA KeysDisjoint ==
    ASSUME NEW w, NEW res, NEW j \in KeysIn(w, res), NEW k \in KeysIn(w, res),
           j.kind = "events", k.kind = "events", NEW e \in j.payload, e \in k.payload
    PROVE  j = k
  <1> DEFINE events == {d \in res.events : d.ts >= w.notBefore}
             Ordinal(x) == Cardinality({d \in events : d.ts < x.ts}) \div ChunkSize
             KeyOf(n) == [kind |-> "events", ordinal |-> n,
                          payload |-> {d \in events : Ordinal(d) = n}]
  <1>1. ASSUME NEW key \in KeysIn(w, res), key.kind = "events"
        PROVE  \E n \in {Ordinal(d) : d \in events} : key = KeyOf(n)
    <2>1. key \notin QuotaKeys(res.quotas)
      BY <1>1 DEF QuotaKeys
    <2>2. key \in ChunkKeys(events)
      BY <1>1, <2>1 DEF KeysIn
    <2> QED BY <2>2 DEF ChunkKeys
  <1> HIDE DEF Ordinal, events
  <1>2. PICK m : j = KeyOf(m)
    BY <1>1
  <1>3. PICK n : k = KeyOf(n)
    BY <1>1
  <1>4. Ordinal(e) = m /\ Ordinal(e) = n
    BY <1>2, <1>3
  <1> QED BY <1>2, <1>3, <1>4

-----------------------------------------------------------------------------
(* The shape of the state.                                                  *)

LEMMA FileIsPath ==
    ASSUME NEW n \in 1..Len(FileOrder)
    PROVE  FileOrder[n] \in Paths
  BY CollectorConstants DEF Paths, Range

LEMMA PieceType ==
    ASSUME NEW L \in Seq(Line), NEW s \in Nat, NEW e \in Nat
    PROVE  Piece(L, s, e) \in Seq(Line)
  <1> DEFINE m == s \div 2 + 1
             n == Min({e \div 2, Len(L)})
  <1>1. Len(L) \in Nat /\ e \div 2 \in Nat /\ m \in Nat /\ m >= 1
    OBVIOUS
  <1>2. n \in Nat /\ n <= Len(L)
    <2>1. n = IF e \div 2 <= Len(L) THEN e \div 2 ELSE Len(L)
      BY <1>1, MinOfTwo
    <2> QED BY <1>1, <2>1
  <1> HIDE DEF m, n
  <1>3. \A i \in m..n : L[i] \in Line
    BY <1>1, <1>2
  <1>4. SubSeq(L, m, n) \in Seq(Line)
    BY <1>1, <1>2, <1>3, SubSeqProperties
  <1> QED BY <1>4 DEF Piece, m, n

\* What the model's operators are in terms of the lines of a file.
LEMMA ParseIs ==
    ASSUME NEW f, NEW s, NEW e, NEW carry
    PROVE  /\ LinesBetween(f, s, e) = Piece(log[f], s, e)
           /\ Parse(f, s, e, carry) = ParseOf(f, Piece(log[f], s, e), carry)
  BY DEF Parse, ParseOf, Consumed, EventsOf, HitsOf, LinesBetween, Piece

LEMMA KeysAre ==
    ASSUME NEW res
    PROVE  Keys(res) = KeysIn(world, res)
  BY DEF Keys, KeysIn, InWindow

LEMMA ParseType ==
    ASSUME TypeInv, NEW f \in Paths, NEW s \in Nat, NEW e \in Nat
    PROVE  /\ Piece(log[f], s, e) \in Seq(Line)
           /\ Parse(f, s, e, turnStart[f]).turn \in Nat
           /\ s + Parse(f, s, e, turnStart[f]).consumed \in Nat
  <1> DEFINE lines == Piece(log[f], s, e)
  <1>1. lines \in Seq(Line)
    <2>1. log[f] \in Seq(Line)
      BY DEF TypeInv
    <2> QED BY <2>1, PieceType
  <1>2. Len(lines) \in Nat /\ turnStart[f] \in Nat
    BY <1>1 DEF TypeInv
  <1> HIDE DEF lines
  <1>3. TurnBefore(lines, Len(lines), turnStart[f]) \in Nat
    <2>1. Len(lines) \in 0..Len(lines)
      BY <1>2
    <2> QED BY <1>1, <1>2, <2>1, TurnBeforeType
  <1>4. Parse(f, s, e, turnStart[f]) = ParseOf(f, lines, turnStart[f])
    BY ParseIs DEF lines
  <1>5. Parse(f, s, e, turnStart[f]).turn \in Nat
    BY <1>3, <1>4 DEF ParseOf
  <1>6. s + Parse(f, s, e, turnStart[f]).consumed \in Nat
    BY <1>2, <1>4 DEF ParseOf
  <1> QED BY <1>1, <1>5, <1>6 DEF lines

LEMMA SizeType ==
    ASSUME TypeInv, NEW f \in Paths
    PROVE  Len(log[f]) \in Nat /\ Size(f) \in Nat
             /\ 2 * Len(log[f]) <= Size(f) /\ Size(f) <= 2 * Len(log[f]) + 1
  <1>1. log[f] \in Seq(Line)
    BY DEF TypeInv
  <1>2. Len(log[f]) \in Nat
    BY <1>1
  <1>3. Size(f) = 2 * Len(log[f]) \/ Size(f) = 2 * Len(log[f]) + 1
    <2>1. CASE partial[f]
      BY <1>2, <2>1 DEF Size
    <2>2. CASE ~partial[f]
      BY <1>2, <2>2 DEF Size
    <2> QED BY <2>1, <2>2
  <1> QED BY <1>2, <1>3

LEMMA SizeTypeNext ==
    ASSUME TypeInv', NEW f \in Paths
    PROVE  /\ Len(log'[f]) \in Nat /\ Size(f)' \in Nat
           /\ 2 * Len(log'[f]) <= Size(f)' /\ Size(f)' <= 2 * Len(log'[f]) + 1
  <1>1. log'[f] \in Seq(Line)
    BY DEF TypeInv
  <1>2. Len(log'[f]) \in Nat
    BY <1>1
  <1>3. CASE partial'[f]
    BY <1>2, <1>3 DEF Size
  <1>4. CASE ~partial'[f]
    BY <1>2, <1>4 DEF Size
  <1> QED BY <1>3, <1>4

LEMMA NextFileIs ==
    ASSUME NEW n \in 0..Len(FileOrder)
    PROVE  \/ NextFile(n) = Idle
           \/ /\ NextFile(n) = [pc |-> "stat", n |-> n + 1]
              /\ n + 1 \in 1..Len(FileOrder)
  <1>1. Len(FileOrder) \in Nat
    BY CollectorConstants
  <1> QED BY <1>1 DEF NextFile

\* The pass goes on to the next file.
LEMMA NextFileOK ==
    ASSUME NEW n \in 0..Len(FileOrder), scan' = NextFile(n)
    PROVE  ScanOK' /\ scan'.pc \in {"idle", "stat"}
  <1>1. CASE NextFile(n) = Idle
    BY <1>1 DEF ScanOK, Idle
  <1>2. CASE NextFile(n) # Idle
    <2>1. scan' = [pc |-> "stat", n |-> n + 1] /\ n + 1 \in 1..Len(FileOrder)
      BY <1>2, NextFileIs
    <2>2. scan'.pc = "stat" /\ scan'.n = n + 1
      BY <2>1
    <2> QED BY <2>1, <2>2 DEF ScanOK
  <1> QED BY <1>1, <1>2

LEMMA TypeInit == Init => TypeInv
  <1> SUFFICES ASSUME Init PROVE TypeInv
    OBVIOUS
  <1>1. log \in [Paths -> Seq(Line)]
    <2>1. <<>> \in Seq(Line)
      OBVIOUS
    <2> QED BY <2>1 DEF Init
  <1>2. inFlight = [f \in Paths |-> inFlight[f]] /\ \A f \in Paths : inFlight[f] = NoScan
    BY DEF Init
  <1>3. chunks = [f \in Paths |-> chunks[f]]
    BY DEF Init
  <1>4. ScanOK
    BY DEF Init, ScanOK
  <1> QED BY <1>1, <1>2, <1>3, <1>4 DEF Init, TypeInv

LEMMA TypeStep == TypeInv /\ [Next]_vars => TypeInv'
  <1> SUFFICES ASSUME TypeInv, [Next]_vars PROVE TypeInv'
    OBVIOUS
  <1> USE DEF TypeInv
  <1>1. ASSUME NEW f \in Paths, Write(f) PROVE TypeInv'
    <2>1. partial' \in [Paths -> BOOLEAN] /\ clock' \in Nat
      <3>1. /\ clock' = clock \/ clock' = clock + 1
            /\ partial' = [partial EXCEPT ![f] = TRUE] \/ partial' = [partial EXCEPT ![f] = FALSE]
        BY <1>1 DEF Write
      <3>2. clock' \in Nat
        BY <3>1
      <3> QED BY <3>1, <3>2
    <2>2. log' \in [Paths -> Seq(Line)]
      <3>1. CASE log' = log
        BY <3>1
      <3>2. CASE log' # log
        <4>1. PICK k \in Kinds : log' = [log EXCEPT ![f] =
                                            Append(@, [kind |-> k, ts |-> clock + 1])]
          BY <1>1, <3>2 DEF Write
        <4>2. [kind |-> k, ts |-> clock + 1] \in Line
          BY DEF Line
        <4>3. Append(log[f], [kind |-> k, ts |-> clock + 1]) \in Seq(Line)
          BY <4>2, AppendProperties
        <4> QED BY <4>1, <4>3
      <3> QED BY <3>1, <3>2
    <2> QED BY <1>1, <2>1, <2>2 DEF Write, stateVars, sinkVars, ScanOK
  <1>2. ASSUME NEW f \in Paths, Truncate(f) PROVE TypeInv'
    <2>1. PICK k \in KeptLines..(Len(log[f]) - 1) :
            /\ log' = [log EXCEPT ![f] = SubSeq(@, 1, k)]
            /\ unseen' = unseen \/ unseen' = unseen \cup {f}
      BY <1>2 DEF Truncate
    <2>2. SubSeq(log[f], 1, k) \in Seq(Line)
      <3>1. log[f] \in Seq(Line) /\ Len(log[f]) \in Nat /\ KeptLines \in Nat
        BY CollectorConstants
      <3>2. k \in Nat /\ k <= Len(log[f])
        BY <3>1
      <3>3. \A i \in 1..k : log[f][i] \in Line
        BY <3>1, <3>2
      <3> QED BY <3>2, <3>3, SubSeqProperties
    <2>3. partial' \in [Paths -> BOOLEAN]
      BY <1>2 DEF Truncate
    <2> QED BY <1>2, <2>1, <2>2, <2>3 DEF Truncate, stateVars, sinkVars, ScanOK
  <1>3. CASE StartPass
    <2>1. 0 \in 0..Len(FileOrder)
      BY CollectorConstants
    <2>2. ScanOK'
      BY <1>3, <2>1, NextFileOK DEF StartPass
    <2> QED BY <1>3, <2>2 DEF StartPass, logVars, stateVars
  <1>4. CASE Stat
    <2> DEFINE f == FileOrder[scan.n]
    <2>0. scan.n \in 1..Len(FileOrder)
      BY <1>4 DEF Stat, ScanOK, Idle
    <2>1. f \in Paths
      BY <2>0, FileIsPath
    <2>2. /\ inFlight' = [g \in Paths |-> inFlight'[g]]
          /\ \A g \in Paths : inFlight'[g] = NoScan \/ inFlight'[g] = inFlight[g]
          /\ chunks' = [g \in Paths |-> chunks'[g]]
          /\ unseen' \subseteq Paths
      <3>1. inFlight' = inFlight \/ inFlight' = [inFlight EXCEPT ![f] = NoScan]
        BY <1>4 DEF Stat
      <3>2. chunks' = chunks \/ chunks' = [chunks EXCEPT ![f] = {}]
        BY <1>4 DEF Stat
      <3>3. unseen' \subseteq Paths
        BY <1>4 DEF Stat
      <3> HIDE DEF f
      <3> QED BY <3>1, <3>2, <3>3
    <2>3. ScanOK'
      <3> DEFINE r == inFlight[f] # NoScan /\ ~Shrunk(f)
                 st == IF r THEN inFlight[f].start ELSE IF f \in Reparsed THEN 0 ELSE ReadFrom(f)
                 en == IF r THEN inFlight[f].end ELSE Size(f)
      <3>1. \/ scan' = NextFile(scan.n)
            \/ scan' = [pc |-> "parse", n |-> scan.n, resuming |-> r, start |-> st, end |-> en]
        BY <1>4 DEF Stat
      <3>2. CASE scan' = NextFile(scan.n)
        <4>1. scan.n \in 0..Len(FileOrder)
          BY <2>0, CollectorConstants
        <4> QED BY <3>2, <4>1, NextFileOK
      <3>3. CASE scan' # NextFile(scan.n)
        <4>1. ReadFrom(f) \in Nat /\ Size(f) \in Nat
          BY <2>1, SizeType DEF ReadFrom
        <4>2. inFlight[f] # NoScan => inFlight[f].start \in Nat /\ inFlight[f].end \in Nat
          BY <2>1 DEF IsScan
        <4>3. r \in BOOLEAN /\ st \in Nat /\ en \in Nat
          BY <4>1, <4>2
        <4>4. /\ r => st = inFlight[f].start /\ en = inFlight[f].end
              /\ r => inFlight' = inFlight
              /\ ~r => inFlight'[f] = NoScan
              /\ r => inFlight[f] # NoScan
          BY <1>4, <2>1 DEF Stat
        <4> HIDE DEF r, st, en
        <4>5. /\ scan'.n = scan.n /\ scan'.pc = "parse" /\ scan'.resuming = r
              /\ scan'.start = st /\ scan'.end = en
          BY <3>1, <3>3
        <4> QED BY <2>0, <4>3, <4>4, <4>5 DEF ScanOK
      <3> QED BY <3>2, <3>3
    <2> QED BY <1>4, <2>2, <2>3 DEF Stat, sinkVars
  <1>5. CASE ParseFile
    <2> DEFINE f == FileOrder[scan.n]
               res == Parse(f, scan.start, scan.end, turnStart[f])
               new == [start |-> scan.start, end |-> scan.start + res.consumed,
                       turn |-> res.turn, done |-> {}]
    <2>0. /\ scan.n \in 1..Len(FileOrder) /\ scan.start \in Nat /\ scan.end \in Nat
          /\ scan.resuming \in BOOLEAN
      BY <1>5 DEF ParseFile, ScanOK, Idle
    <2>1. f \in Paths
      BY <2>0, FileIsPath
    <2>2. IsScan(new)
      <3>1. res.turn \in Nat /\ scan.start + res.consumed \in Nat
        BY <2>0, <2>1, ParseType
      <3> HIDE DEF res
      <3> QED BY <2>0, <3>1 DEF IsScan
    <2>3. /\ inFlight' = [g \in Paths |-> inFlight'[g]]
          /\ \A g \in Paths : inFlight'[g] = NoScan \/ IsScan(inFlight'[g])
      <3>1. inFlight' = inFlight \/ inFlight' = [inFlight EXCEPT ![f] = new]
        BY <1>5 DEF ParseFile
      <3> HIDE DEF f, new
      <3> QED BY <2>2, <3>1
    <2>4a. new # NoScan
      BY <2>2 DEF IsScan, NoScan
    <2>4. ScanOK'
      <3>1. \/ scan' = Idle
            \/ scan' = [pc |-> "deliver", n |-> scan.n, resuming |-> scan.resuming,
                        keys |-> Keys(res)]
        BY <1>5 DEF ParseFile
      <3>2. scan' # Idle => inFlight'[f] # NoScan
        <4>1. scan' # Idle => inFlight' = IF scan.resuming THEN inFlight
                                          ELSE [inFlight EXCEPT ![f] = new]
          BY <1>5 DEF ParseFile
        <4>2. scan.resuming => inFlight[f] # NoScan
          BY <1>5 DEF ParseFile, ScanOK, Idle
        <4> HIDE DEF new
        <4> QED BY <2>1, <2>4a, <4>1, <4>2
      <3> HIDE DEF res
      <3> QED BY <2>0, <3>1, <3>2 DEF ScanOK
    <2> QED BY <1>5, <2>3, <2>4 DEF ParseFile, logVars, sinkVars
  <1>6. CASE Deliver
    <2>1. scan.n \in 1..Len(FileOrder) /\ scan.resuming \in BOOLEAN
      BY <1>6 DEF Deliver, ScanOK, Idle
    <2>2. \E key : scan' = [pc |-> "mark", n |-> scan.n, resuming |-> scan.resuming,
                            keys |-> scan.keys, key |-> key]
      BY <1>6 DEF Deliver
    <2>3. inFlight' = inFlight /\ inFlight[FileOrder[scan.n]] # NoScan
      BY <1>6 DEF Deliver, stateVars, ScanOK, Idle
    <2>4. ScanOK'
      BY <2>1, <2>2, <2>3 DEF ScanOK
    <2> QED BY <1>6, <2>4 DEF Deliver, logVars, stateVars
  <1>7. CASE Mark
    <2> DEFINE f == FileOrder[scan.n]
               marked == [inFlight[f] EXCEPT !.done = @ \cup {scan.key}]
    <2>0. scan.n \in 1..Len(FileOrder) /\ scan.resuming \in BOOLEAN
      BY <1>7 DEF Mark, ScanOK, Idle
    <2>1. f \in Paths
      BY <2>0, FileIsPath
    <2>2. inFlight' = [inFlight EXCEPT ![f] = marked]
      BY <1>7 DEF Mark
    <2>3. inFlight' = [g \in Paths |-> inFlight'[g]]
      <3> HIDE DEF f
      <3> QED BY <2>2
    <2>4. inFlight'[f] # NoScan /\ IsScan(inFlight'[f])
      <3>1. inFlight[f] # NoScan
        BY <1>7 DEF Mark, ScanOK, Idle
      <3>2. IsScan(inFlight[f])
        BY <2>1, <3>1
      <3>3. inFlight'[f] = marked
        <4> HIDE DEF f, marked
        <4> QED BY <2>1, <2>2
      <3>4. /\ inFlight'[f].start = inFlight[f].start /\ inFlight'[f].end = inFlight[f].end
            /\ inFlight'[f].turn = inFlight[f].turn
            /\ inFlight'[f] = [start |-> inFlight'[f].start, end |-> inFlight'[f].end,
                               turn |-> inFlight'[f].turn, done |-> inFlight'[f].done]
        BY <3>2, <3>3 DEF IsScan
      <3>5. inFlight'[f].start # -1
        BY <3>2, <3>4 DEF IsScan
      <3>6. inFlight'[f] # NoScan
        BY <3>5 DEF NoScan
      <3> HIDE DEF f, marked
      <3> QED BY <3>2, <3>4, <3>6 DEF IsScan
    <2>5. \A g \in Paths : inFlight'[g] = NoScan \/ IsScan(inFlight'[g])
      BY <2>2, <2>4
    <2>6. ScanOK'
      BY <1>7, <2>0, <2>4 DEF Mark, ScanOK
    <2> QED BY <1>7, <2>3, <2>5, <2>6 DEF Mark, logVars, sinkVars
  <1>8. CASE Commit
    <2> DEFINE f == FileOrder[scan.n]
               turn == inFlight[f].turn
    <2>0. scan.n \in 1..Len(FileOrder) /\ scan.n \in 0..Len(FileOrder) /\ inFlight[f] # NoScan
      BY <1>8, CollectorConstants DEF Commit, ScanOK, Idle
    <2>1. f \in Paths
      BY <2>0, FileIsPath
    <2>2. turn \in Nat /\ inFlight[f].end \in Nat
      BY <2>0, <2>1 DEF IsScan
    <2>3. /\ offset' = [offset EXCEPT ![f] = inFlight[f].end]
          /\ turnStart' = turnStart \/ turnStart' = [turnStart EXCEPT ![f] = turn]
          /\ inFlight' = [inFlight EXCEPT ![f] = NoScan]
          /\ \/ chunks' = chunks
             \/ \E S : chunks' = [chunks EXCEPT ![f] = S]
      BY <1>8 DEF Commit
    <2>4. offset' \in [Paths -> Nat] /\ turnStart' \in [Paths -> Nat]
      <3> HIDE DEF f, turn
      <3> QED BY <2>1, <2>2, <2>3
    <2>5. /\ inFlight' = [g \in Paths |-> inFlight'[g]]
          /\ \A g \in Paths : inFlight'[g] = NoScan \/ IsScan(inFlight'[g])
          /\ chunks' = [g \in Paths |-> chunks'[g]]
      <3> HIDE DEF f
      <3> QED BY <2>3
    <2>6. ScanOK'
      BY <1>8, <2>0, NextFileOK DEF Commit
    <2> QED BY <1>8, <2>4, <2>5, <2>6 DEF Commit, logVars, sinkVars
  <1>9. CASE Unreadable
    <2>1. scan.n \in 0..Len(FileOrder)
      BY <1>9, CollectorConstants DEF Unreadable, ScanOK, Idle
    <2>2. ScanOK'
      BY <1>9, <2>1, NextFileOK DEF Unreadable
    <2> QED BY <1>9, <2>2 DEF Unreadable, logVars, stateVars
  <1>10. CASE Interrupt
    BY <1>10 DEF Interrupt, logVars, stateVars, ScanOK
  <1>11. CASE Forget
    <2>1. /\ offset' \in [Paths -> Nat] /\ turnStart' \in [Paths -> Nat]
          /\ inFlight' = [g \in Paths |-> inFlight'[g]]
          /\ \A g \in Paths : inFlight'[g] = NoScan
          /\ chunks' = [g \in Paths |-> chunks'[g]]
      BY <1>11 DEF Forget
    <2> QED BY <1>11, <2>1 DEF Forget, ScanOK
  <1>12. CASE UNCHANGED vars
    BY <1>12 DEF vars, logVars, stateVars, ScanOK
  <1> QED
    BY <1>1, <1>2, <1>3, <1>4, <1>5, <1>6, <1>7, <1>8, <1>9, <1>10, <1>11, <1>12
       DEF Next, PassStep

\* The state file, the log and the running pass always have their shape, and a
\* pass that delivers has its boundary in the state file (BeginScan).
THEOREM CollectorTypes == Spec => []TypeInv
  <1>1. Init => TypeInv
    BY TypeInit
  <1>2. TypeInv /\ [Next]_vars => TypeInv'
    BY TypeStep
  <1> QED BY <1>1, <1>2, PTL DEF Spec

-----------------------------------------------------------------------------
(* Files that only grow.                                                    *)

\* A step keeps the lines of g, and may add some.
Extends(g) ==
    /\ Len(log[g]) <= Len(log'[g])
    /\ \A i \in 1..Len(log[g]) : log'[g][i] = log[g][i]

\* A step keeps what has been accepted.
SinksGrow == world' = world /\ delivered \subseteq delivered' /\ quotas \subseteq quotas'

LEMMA KeptPiece ==
    ASSUME TypeInv, TypeInv', NEW g \in Paths, Extends(g), NEW s \in Nat, NEW e \in Nat,
           Even(s), Even(e), s <= e, e <= 2 * Len(log[g])
    PROVE  Piece(log'[g], s, e) = Piece(log[g], s, e)
  <1>1. log[g] \in Seq(Line) /\ log'[g] \in Seq(Line)
    BY DEF TypeInv
  <1>2. Len(log[g]) \in Nat /\ Len(log'[g]) \in Nat
    BY <1>1
  <1>3. e \div 2 <= Len(log[g]) /\ e \div 2 \in Nat /\ e <= 2 * Len(log'[g])
    BY <1>2 DEF Extends
  <1>4. \A i \in 1..(e \div 2) : log'[g][i] = log[g][i]
    BY <1>2, <1>3 DEF Extends
  <1> HIDE DEF Even
  <1> QED BY <1>1, <1>3, <1>4, SamePiece

LEMMA EvenZero == Even(0)
  BY DEF Even

\* A file whose committed state the step leaves alone keeps its invariant.
LEMMA KeptFile ==
    ASSUME TypeInv, TypeInv', NEW g \in Paths, CommittedOK(g), LedgerOK(g),
           Extends(g), SinksGrow,
           offset'[g] = offset[g], turnStart'[g] = turnStart[g],
           chunks'[g] \subseteq chunks[g],
           \/ inFlight'[g] = NoScan
           \/ /\ inFlight[g] # NoScan
              /\ inFlight'[g].start = inFlight[g].start
              /\ inFlight'[g].end = inFlight[g].end
              /\ inFlight'[g].turn = inFlight[g].turn
              /\ \A key \in inFlight'[g].done : Handed(key)
    PROVE  /\ CommittedOK(g)' /\ LedgerOK(g)'
           /\ inFlight'[g] # NoScan => InFlightParse(g)' = InFlightParse(g)
  <1>1. offset[g] \in Nat /\ Even(offset[g]) /\ offset[g] <= 2 * Len(log[g])
    BY DEF TypeInv, CommittedOK, Boundary
  <1>2. Len(log[g]) \in Nat /\ Len(log'[g]) \in Nat /\ Len(log[g]) <= Len(log'[g])
    <2>1. log[g] \in Seq(Line) /\ log'[g] \in Seq(Line)
      BY DEF TypeInv
    <2> QED BY <2>1 DEF Extends
  <1>3. Piece(log'[g], 0, offset[g]) = Piece(log[g], 0, offset[g])
    BY <1>1, EvenZero, KeptPiece
  <1>4. \A key : Handed(key) => Handed(key)'
    BY DEF Handed, SinksGrow
  <1>5. Boundary(g, offset[g])'
    BY <1>1, <1>2 DEF Boundary
  <1>6. Told(g, Piece(log[g], 0, offset[g]), 0)'
    <2>1. Told(g, Piece(log[g], 0, offset[g]), 0)
      BY DEF CommittedOK
    <2> QED BY <1>3, <2>1 DEF Told, SinksGrow, InWindow
  <1>7. CommittedOK(g)'
    <2>1. g \notin Reparsed =>
            turnStart'[g] = TurnBefore(Piece(log'[g], 0, offset'[g]), offset'[g] \div 2, 0)
      BY <1>3 DEF CommittedOK
    <2>2. \A key \in chunks'[g] : Handed(key)'
      BY <1>4 DEF CommittedOK
    <2> QED BY <1>5, <1>6, <2>1, <2>2 DEF CommittedOK
  <1>8. ASSUME inFlight'[g] # NoScan
        PROVE  LedgerOK(g)' /\ InFlightParse(g)' = InFlightParse(g)
    <2> DEFINE s == inFlight[g].start
               e == inFlight[g].end
    <2>1. inFlight[g] # NoScan /\ inFlight'[g].start = s /\ inFlight'[g].end = e
      BY <1>8
    <2>2. s \in Nat /\ e \in Nat
      BY <2>1 DEF TypeInv, IsScan
    <2>3. /\ Even(e) /\ e <= 2 * Len(log[g]) /\ offset[g] <= e
          /\ s = IF g \in Reparsed THEN 0 ELSE offset[g]
          /\ inFlight[g].turn = InFlightParse(g).turn
      BY <2>1 DEF LedgerOK, Boundary
    <2>4. Even(s) /\ s <= e
      BY <1>1, <2>2, <2>3, EvenZero
    <2>5. Piece(log'[g], s, e) = Piece(log[g], s, e)
      <3> HIDE DEF s, e
      <3> QED BY <2>2, <2>3, <2>4, KeptPiece
    <2>6. InFlightParse(g)' = InFlightParse(g)
      BY <2>1, <2>5 DEF InFlightParse
    <2>7. \A key \in inFlight'[g].done : Handed(key)'
      BY <1>4, <1>8
    <2>8. Even(e) /\ e <= 2 * Len(log'[g])
      BY <1>2, <2>2, <2>3
    <2>9. inFlight'[g].turn = (InFlightParse(g)').turn
      BY <1>8, <2>3, <2>6
    <2>10. /\ Boundary(g, inFlight[g].end)' /\ offset'[g] <= inFlight'[g].end
           /\ inFlight'[g].start = IF g \in Reparsed THEN 0 ELSE offset'[g]
      BY <2>1, <2>3, <2>8 DEF Boundary
    <2> QED BY <2>6, <2>7, <2>9, <2>10 DEF LedgerOK
  <1> QED BY <1>7, <1>8 DEF LedgerOK

LEMMA WriteExtends ==
    ASSUME TypeInv, NEW f \in Paths, Write(f), NEW g \in Paths
    PROVE  Extends(g)
  <1>1. log[g] \in Seq(Line) /\ Len(log[g]) \in Nat
    BY DEF TypeInv
  <1>2. CASE log'[g] = log[g]
    BY <1>1, <1>2 DEF Extends
  <1>3. CASE log'[g] # log[g]
    <2>1. PICK k \in Kinds : log' = [log EXCEPT ![f] =
                                        Append(@, [kind |-> k, ts |-> clock + 1])]
      BY <1>3 DEF Write
    <2>2. [kind |-> k, ts |-> clock + 1] \in Line
      BY DEF Line, TypeInv
    <2>3. g = f /\ log'[g] = Append(log[g], [kind |-> k, ts |-> clock + 1])
      BY <1>3, <2>1 DEF TypeInv
    <2> QED BY <1>1, <2>2, <2>3, AppendProperties DEF Extends
  <1> QED BY <1>2, <1>3

LEMMA SameLogExtends ==
    ASSUME TypeInv, log' = log, NEW g \in Paths
    PROVE  Extends(g)
  <1>1. log[g] \in Seq(Line) /\ Len(log[g]) \in Nat
    BY DEF TypeInv
  <1> QED BY <1>1 DEF Extends

LEMMA KeptFiles ==
    ASSUME TypeInv, TypeInv', GrowInv, \A g \in Paths : Extends(g), SinksGrow,
           UNCHANGED stateVars
    PROVE  \A g \in Paths :
            /\ CommittedOK(g)' /\ LedgerOK(g)'
            /\ inFlight[g] # NoScan => InFlightParse(g)' = InFlightParse(g)
  <1> SUFFICES ASSUME NEW g \in Paths
               PROVE  /\ CommittedOK(g)' /\ LedgerOK(g)'
                      /\ inFlight[g] # NoScan => InFlightParse(g)' = InFlightParse(g)
    OBVIOUS
  <1>1. CommittedOK(g) /\ LedgerOK(g)
    BY DEF GrowInv
  <1>2. /\ offset'[g] = offset[g] /\ turnStart'[g] = turnStart[g]
        /\ chunks'[g] = chunks[g] /\ inFlight'[g] = inFlight[g]
    BY DEF stateVars
  <1>3. inFlight[g] # NoScan => \A key \in inFlight[g].done : Handed(key)
    BY <1>1 DEF LedgerOK
  <1> QED BY <1>1, <1>2, <1>3, KeptFile

LEMMA WriteSize ==
    ASSUME TypeInv, TypeInv', NEW f \in Paths, Write(f), NEW g \in Paths
    PROVE  Size(g) <= Size(g)' /\ Size(g)' <= Size(g) + 2
  <1>1. /\ Len(log[g]) \in Nat /\ Size(g) \in Nat
        /\ 2 * Len(log[g]) <= Size(g) /\ Size(g) <= 2 * Len(log[g]) + 1
    BY SizeType
  <1>2. log'[g] \in Seq(Line) /\ Len(log'[g]) \in Nat
    BY DEF TypeInv
  <1>3. CASE ~partial[f] /\ partial' = [partial EXCEPT ![f] = TRUE] /\ log' = log
    <2>1. partial[g] => partial'[g]
      BY <1>3 DEF TypeInv
    <2>2. Size(g)' = 2 * Len(log[g]) + IF partial'[g] THEN 1 ELSE 0
      BY <1>3 DEF Size
    <2>3. Size(g) = 2 * Len(log[g]) + IF partial[g] THEN 1 ELSE 0
      BY DEF Size
    <2>4. partial[g] \in BOOLEAN /\ partial'[g] \in BOOLEAN
      BY DEF TypeInv
    <2>5. PICK a \in Nat, b \in Nat : /\ a = (IF partial[g] THEN 1 ELSE 0)
                                      /\ b = (IF partial'[g] THEN 1 ELSE 0)
      OBVIOUS
    <2>6. a <= b /\ b <= a + 1
      BY <2>1, <2>4, <2>5
    <2>7. Size(g)' = 2 * Len(log[g]) + b /\ Size(g) = 2 * Len(log[g]) + a
      BY <2>2, <2>3, <2>5
    <2> QED BY <1>1, <2>6, <2>7
  <1>4. ASSUME NEW k \in Kinds,
               log' = [log EXCEPT ![f] = Append(@, [kind |-> k, ts |-> clock + 1])],
               partial' = [partial EXCEPT ![f] = FALSE]
        PROVE  Size(g) <= Size(g)' /\ Size(g)' <= Size(g) + 2
    <2>1. CASE g # f
      <3>1. log'[g] = log[g] /\ partial'[g] = partial[g]
        BY <1>4, <2>1 DEF TypeInv
      <3>2. Size(g)' = Size(g)
        BY <3>1 DEF Size
      <3> QED BY <1>1, <3>2
    <2>2. CASE g = f
      <3>0. log[g] \in Seq(Line) /\ clock + 1 \in Nat \ {0}
        BY DEF TypeInv
      <3>1. log[g] \in Seq(Line) /\ [kind |-> k, ts |-> clock + 1] \in Line
        BY <3>0 DEF Line
      <3>2. log'[g] = Append(log[g], [kind |-> k, ts |-> clock + 1]) /\ ~partial'[g]
        BY <1>4, <2>2 DEF TypeInv
      <3>3. Len(log'[g]) = Len(log[g]) + 1
        BY <3>1, <3>2, AppendProperties
      <3>4. Size(g)' = 2 * Len(log'[g]) + 0
        BY <3>2 DEF Size
      <3> QED BY <1>1, <3>3, <3>4
    <2> QED BY <2>1, <2>2
  <1> QED BY <1>3, <1>4 DEF Write

LEMMA EmptyPiece ==
    ASSUME NEW L \in Seq(Line), NEW f, NEW carry
    PROVE  /\ EventsOf(f, Piece(L, 0, 0), carry) = {}
           /\ HitsOf(Piece(L, 0, 0)) = {}
           /\ TurnBefore(Piece(L, 0, 0), 0, carry) = carry
  <1> DEFINE P == Piece(L, 0, 0)
  <1>1. Len(P) = 0
    <2>1. Len(L) \in Nat /\ 0 \div 2 = 0
      OBVIOUS
    <2>2. 0 <= 2 * Len(L)
      BY <2>1
    <2>3. Len(P) = 0 \div 2 - 0 \div 2
      BY <2>2, EvenZero, PieceIs
    <2> QED BY <2>1, <2>3
  <1> HIDE DEF P
  <1>2. EventsOf(f, P, carry) = {} /\ HitsOf(P) = {} /\ TurnBefore(P, 0, carry) = carry
    BY <1>1 DEF EventsOf, HitsOf, TurnBefore
  <1> QED BY <1>2 DEF P

\* A file of which nothing is committed.
LEMMA NothingCommitted ==
    ASSUME TypeInv, NEW f \in Paths, offset[f] = 0, turnStart[f] = 0, chunks[f] = {}
    PROVE  CommittedOK(f)
  <1>1. log[f] \in Seq(Line) /\ Len(log[f]) \in Nat
    BY DEF TypeInv
  <1>2. /\ EventsOf(f, Piece(log[f], 0, 0), 0) = {} /\ HitsOf(Piece(log[f], 0, 0)) = {}
        /\ TurnBefore(Piece(log[f], 0, 0), 0, 0) = 0
    BY <1>1, EmptyPiece
  <1>3. Told(f, Piece(log[f], 0, offset[f]), 0)
    BY <1>2 DEF Told
  <1>4. Boundary(f, offset[f])
    BY <1>1 DEF Boundary, Even
  <1>5. 0 \div 2 = 0
    OBVIOUS
  <1> QED BY <1>2, <1>3, <1>4, <1>5 DEF CommittedOK

LEMMA GrowInit ==
    ASSUME Init
    PROVE  GrowInv
  <1>1. TypeInv
    BY TypeInit
  <1>2. ASSUME NEW f \in Paths PROVE CommittedOK(f) /\ LedgerOK(f)
    <2>1. offset[f] = 0 /\ turnStart[f] = 0 /\ chunks[f] = {} /\ inFlight[f] = NoScan
      BY DEF Init
    <2> QED BY <1>1, <2>1, NothingCommitted DEF LedgerOK
  <1>3. PassOK
    BY DEF Init, Idle, PassOK
  <1> QED BY <1>2, <1>3 DEF GrowInv

\* Everything the pass parsed has been handed over when it commits.
LEMMA AllHanded ==
    ASSUME GrowInv, ScanOK, scan.pc = "deliver", Owed = {}, FileOrder[scan.n] \in Paths
    PROVE  \A key \in scan.keys : Handed(key)
  <1> DEFINE f == FileOrder[scan.n]
  <1>1. inFlight[f] # NoScan
    BY DEF ScanOK, Idle
  <1>2. \A key \in inFlight[f].done : Handed(key)
    BY <1>1 DEF GrowInv, LedgerOK
  <1>3. \A key \in chunks[f] : Handed(key)
    BY DEF GrowInv, CommittedOK
  <1>4. \A key \in scan.keys : key \in inFlight[f].done \/ key \in chunks[f]
    BY DEF Owed
  <1> QED BY <1>2, <1>3, <1>4

\* Offset, turn start and keys of the committed scan.
LEMMA CommitGrows ==
    ASSUME TypeInv, TypeInv', GrowInv, Commit, NEW f, f = FileOrder[scan.n], f \in Paths
    PROVE  CommittedOK(f)' /\ LedgerOK(f)'
  <1> DEFINE s == inFlight[f].start
             e == inFlight[f].end
             o == offset[f]
             L == log[f]
             P == Piece(L, 0, o)
             Q == Piece(L, s, e)
             R == Piece(L, 0, e)
             c == turnStart[f]
  <1>1. scan.pc = "deliver" /\ Owed = {} /\ ScanOK
    BY DEF Commit, TypeInv
  <1>2. inFlight[f] # NoScan
    BY <1>1 DEF ScanOK, Idle
  <1>3. \A key \in scan.keys : Handed(key)
    BY <1>1, AllHanded
  <1>4. scan.keys = KeysIn(world, InFlightParse(f))
    BY <1>1 DEF GrowInv, PassOK
  <1>5. /\ s \in Nat /\ e \in Nat /\ o \in Nat /\ c \in Nat /\ L \in Seq(Line)
        /\ Len(L) \in Nat
    BY <1>2 DEF TypeInv, IsScan
  <1>6. /\ Even(e) /\ e <= 2 * Len(L) /\ o <= e /\ Even(o) /\ o <= 2 * Len(L)
        /\ s = IF f \in Reparsed THEN 0 ELSE o
        /\ inFlight[f].turn = InFlightParse(f).turn
        /\ Told(f, P, 0)
        /\ f \notin Reparsed => c = TurnBefore(P, o \div 2, 0)
    BY <1>2 DEF GrowInv, LedgerOK, CommittedOK, Boundary
  <1>7. Told(f, Q, c)
    <2>1. /\ InFlightParse(f).events = EventsOf(f, Q, c)
          /\ InFlightParse(f).quotas = HitsOf(Q)
      BY DEF InFlightParse, ParseOf
    <2> HIDE DEF Q, c
    <2> QED BY <1>3, <1>4, <2>1, KeysCover
  <1>8. /\ offset'[f] = e /\ inFlight'[f] = NoScan /\ log' = log /\ world' = world
        /\ delivered' = delivered /\ quotas' = quotas
        /\ turnStart'[f] = IF inFlight[f].turn > 0 THEN inFlight[f].turn ELSE c
        /\ chunks'[f] = chunks[f] \/ chunks'[f] \subseteq scan.keys
    BY DEF Commit, logVars, sinkVars, TypeInv
  <1>9. \A key \in chunks'[f] : Handed(key)'
    <2>1. \A key \in chunks[f] : Handed(key)
      BY DEF GrowInv, CommittedOK
    <2>2. \A key : Handed(key) => Handed(key)'
      BY <1>8 DEF Handed
    <2> QED BY <1>3, <1>8, <2>1, <2>2
  <1>10. Boundary(f, offset[f])'
    BY <1>6, <1>8 DEF Boundary
  <1>11. LedgerOK(f)'
    BY <1>8 DEF LedgerOK
  <1>12. CASE f \in Reparsed
    <2>1. Q = R
      BY <1>6, <1>12
    <2>2. EventsOf(f, R, c) = EventsOf(f, R, 0)
      BY <1>12 DEF EventsOf, EventAt
    <2>3. Told(f, R, 0)
      <3> HIDE DEF Q, R, c
      <3> QED BY <1>7, <2>1, <2>2 DEF Told
    <2>4. Told(f, Piece(log[f], 0, offset[f]), 0)'
      BY <1>8, <2>3 DEF Told, InWindow
    <2> QED BY <1>9, <1>10, <1>11, <1>12, <2>4 DEF CommittedOK
  <1>13. CASE f \notin Reparsed
    <2>1. s = o
      BY <1>6, <1>13
    <2>2. 0 \div 2 = 0 /\ o \div 2 \in Nat /\ e \div 2 \in Nat /\ o \div 2 <= e \div 2
      BY <1>5, <1>6
    <2>3. /\ P \in Seq(Line) /\ Len(P) = o \div 2
          /\ \A i \in 1..(o \div 2) : P[i] = L[i]
      <3>1. /\ P \in Seq(Line) /\ Len(P) = o \div 2 - 0 \div 2
            /\ \A i \in 1..(o \div 2 - 0 \div 2) : P[i] = L[0 \div 2 + i]
        <4> HIDE DEF L, o
        <4> QED BY <1>5, <1>6, EvenZero, PieceIs
      <3> HIDE DEF P
      <3> QED BY <2>2, <3>1
    <2>4. /\ R \in Seq(Line) /\ Len(R) = e \div 2
          /\ \A i \in 1..(e \div 2) : R[i] = L[i]
      <3>1. /\ R \in Seq(Line) /\ Len(R) = e \div 2 - 0 \div 2
            /\ \A i \in 1..(e \div 2 - 0 \div 2) : R[i] = L[0 \div 2 + i]
        <4> HIDE DEF L, e
        <4> QED BY <1>5, <1>6, EvenZero, PieceIs
      <3> HIDE DEF R
      <3> QED BY <2>2, <3>1
    <2>5. /\ Q \in Seq(Line) /\ Len(Q) = e \div 2 - o \div 2
          /\ \A i \in 1..(e \div 2 - o \div 2) : Q[i] = L[o \div 2 + i]
      <3>1. Q = Piece(L, o, e)
        BY <2>1
      <3> HIDE DEF Q, L, e, o
      <3>2. /\ Piece(L, o, e) \in Seq(Line) /\ Len(Piece(L, o, e)) = e \div 2 - o \div 2
            /\ \A i \in 1..(e \div 2 - o \div 2) : Piece(L, o, e)[i] = L[o \div 2 + i]
        <4>1. L \in Seq(Line) /\ o \in Nat /\ e \in Nat
          BY <1>5
        <4>2. Even(o) /\ Even(e) /\ o <= e /\ e <= 2 * Len(L)
          BY <1>6
        <4> QED BY <4>1, <4>2, PieceIs
      <3> QED BY <3>1, <3>2
    <2> HIDE DEF P, Q, R, L, c, s, e, o
    <2>6. Len(R) = Len(P) + Len(Q) /\ Len(P) \in Nat /\ Len(Q) \in Nat
      BY <2>2, <2>3, <2>4, <2>5
    <2>7. \A j \in 1..Len(P) : R[j] = P[j]
      BY <2>2, <2>3, <2>4
    <2>8. \A j \in 1..Len(Q) : R[Len(P) + j] = Q[j]
      <3> SUFFICES ASSUME NEW j \in 1..Len(Q) PROVE R[Len(P) + j] = Q[j]
        OBVIOUS
      <3>1. j \in 1..(e \div 2 - o \div 2) /\ o \div 2 + j \in 1..(e \div 2)
        BY <2>2, <2>5
      <3> QED BY <2>3, <2>4, <2>5, <3>1
    <2>9. c = TurnBefore(P, Len(P), 0)
      BY <1>6, <1>13, <2>3
    <2>10. Told(f, R, 0)
      <3>1. EventsOf(f, R, 0) \subseteq EventsOf(f, P, 0) \cup EventsOf(f, Q, c)
        BY <1>13, <2>3, <2>4, <2>5, <2>6, <2>7, <2>8, <2>9, TwoPieces
      <3>2. HitsOf(R) \subseteq HitsOf(P) \cup HitsOf(Q)
        BY <2>3, <2>4, <2>5, <2>6, <2>7, <2>8, TwoPiecesHits
      <3> QED BY <1>6, <1>7, <3>1, <3>2 DEF Told
    <2>11. Told(f, Piece(log[f], 0, offset[f]), 0)'
      BY <1>8, <2>10 DEF Told, InWindow, R, L
    <2>12. inFlight[f].turn = TurnBefore(Q, Len(Q), c)
      BY <1>6, <1>13 DEF InFlightParse, ParseOf, Q, c, L, s, e
    <2>13. TurnBefore(R, Len(R), 0) = TurnBefore(Q, Len(Q), c)
      <3>1. Len(Q) \in 0..Len(Q)
        BY <2>6
      <3>2. P \in Seq(Line) /\ Q \in Seq(Line) /\ R \in Seq(Line)
        BY <2>3, <2>4, <2>5
      <3>3. TurnBefore(R, Len(P) + Len(Q), 0) = TurnBefore(Q, Len(Q), TurnBefore(P, Len(P), 0))
        BY <2>6, <2>7, <2>8, <3>1, <3>2, TurnCarried
      <3> QED BY <2>6, <2>9, <3>3
    <2>14. /\ TurnBefore(Q, Len(Q), c) \in Nat
           /\ TurnBefore(Q, Len(Q), c) = 0 => c = 0
      <3>1. Len(Q) \in 0..Len(Q)
        BY <2>6
      <3> QED BY <1>5, <2>5, <3>1, TurnBeforeType
    <2>15. turnStart'[f] = TurnBefore(R, e \div 2, 0)
      BY <1>5, <1>8, <2>4, <2>12, <2>13, <2>14
    <2>16. turnStart'[f] = TurnBefore(Piece(log'[f], 0, offset'[f]), offset'[f] \div 2, 0)
      BY <1>8, <2>15 DEF R, L
    <2> QED BY <1>9, <1>10, <1>11, <2>11, <2>16 DEF CommittedOK
  <1> QED BY <1>12, <1>13

\* A scan that begins takes the complete lines up to the size it saw.
LEMMA BeginGrows ==
    ASSUME TypeInv, TypeInv', GrowInv, ParseFile, ~scan.resuming,
           NEW f, f = FileOrder[scan.n], f \in Paths
    PROVE  /\ CommittedOK(f)' /\ LedgerOK(f)'
           /\ scan' # Idle => scan'.keys = KeysIn(world', InFlightParse(f)')
  <1> DEFINE s == scan.start
             z == scan.end
             e == 2 * (z \div 2)
             o == offset[f]
             L == log[f]
             Q == Piece(L, s, z)
             res == Parse(f, s, z, turnStart[f])
  <1>1. scan.pc = "parse" /\ s \in Nat /\ z \in Nat /\ o \in Nat
    BY DEF ParseFile, TypeInv, ScanOK, Idle
  <1>2. L \in Seq(Line) /\ Len(L) \in Nat /\ Size(f) \in Nat /\ Size(f) <= 2 * Len(L) + 1
    BY SizeType DEF TypeInv
  <1>3. s = (IF f \in Reparsed THEN 0 ELSE o) /\ o <= z /\ z <= Size(f)
    BY <1>1 DEF GrowInv, PassOK
  <1>4. CommittedOK(f) /\ Even(o) /\ o <= 2 * Len(L)
    BY DEF GrowInv, CommittedOK, Boundary
  <1>5. e \in Nat /\ Even(e) /\ e <= 2 * Len(L) /\ o <= e /\ e \div 2 = z \div 2
    <2>1. PICK h \in Nat : o = 2 * h
      BY <1>1, <1>4 DEF Even
    <2>2. PICK q \in Nat : q = z \div 2 /\ 2 * q <= z /\ z <= 2 * q + 1
      BY <1>1
    <2>3. PICK n \in Nat : n = Len(L) /\ z <= 2 * n + 1
      BY <1>1, <1>2, <1>3
    <2>4. e = 2 * q
      BY <2>2
    <2>5. h <= q /\ q <= n
      BY <1>1, <1>3, <2>1, <2>2, <2>3
    <2> HIDE DEF e, o, z, L
    <2>6. e \in Nat /\ e \div 2 = q /\ Even(e)
      BY <2>4 DEF Even
    <2> QED BY <2>1, <2>2, <2>3, <2>4, <2>5, <2>6
  <1>6. Even(s) /\ s <= e
    BY <1>1, <1>3, <1>4, <1>5, EvenZero
  <1>7. Q = Piece(L, s, e)
    <2> HIDE DEF e
    <2> QED BY <1>5 DEF Piece
  <1>8. Len(Q) = e \div 2 - s \div 2
    <2> HIDE DEF e, s, L, Q
    <2> QED BY <1>1, <1>2, <1>5, <1>6, <1>7, PieceIs
  <1>9. res = ParseOf(f, Q, turnStart[f]) /\ s + res.consumed = e
    <2>1. res = ParseOf(f, Q, turnStart[f])
      BY ParseIs
    <2>2. res.consumed = 2 * Len(Q)
      BY <2>1 DEF ParseOf
    <2>3. e = 2 * (e \div 2) /\ s = 2 * (s \div 2) /\ e \div 2 \in Nat /\ s \div 2 \in Nat
      BY <1>1, <1>5, <1>6 DEF Even
    <2> HIDE DEF e, s, Q, res
    <2> QED BY <1>8, <2>1, <2>2, <2>3
  <1> DEFINE new == [start |-> s, end |-> e, turn |-> res.turn, done |-> {}]
  <1>10. /\ inFlight' = [inFlight EXCEPT ![f] = new]
         /\ scan' = [pc |-> "deliver", n |-> scan.n, resuming |-> scan.resuming,
                     keys |-> Keys(res)]
    BY <1>9 DEF ParseFile
  <1>11. /\ log' = log /\ world' = world /\ delivered' = delivered /\ quotas' = quotas
         /\ offset' = offset /\ turnStart' = turnStart /\ chunks' = chunks
    BY DEF ParseFile, logVars, sinkVars
  <1>12. inFlight'[f] = new
    <2> HIDE DEF new
    <2> QED BY <1>10 DEF TypeInv
  <1>13. /\ inFlight'[f].start = s /\ inFlight'[f].end = e /\ inFlight'[f].turn = res.turn
         /\ inFlight'[f].done = {}
    <2> HIDE DEF s, e, res
    <2> QED BY <1>12
  <1>14. InFlightParse(f)' = res
    <2> HIDE DEF s, e, res
    <2> QED BY <1>7, <1>9, <1>11, <1>13 DEF InFlightParse
  <1>15. CommittedOK(f)'
    BY <1>4, <1>11 DEF CommittedOK, Boundary, Told, InWindow, Handed
  <1>16. LedgerOK(f)'
    <2>1. Boundary(f, inFlight[f].end)'
      <3> HIDE DEF e
      <3> QED BY <1>5, <1>11, <1>13 DEF Boundary
    <2> HIDE DEF e, s, res
    <2> QED BY <1>3, <1>5, <1>11, <1>13, <1>14, <2>1 DEF LedgerOK
  <1>17. scan'.keys = KeysIn(world', InFlightParse(f)')
    <2>1. scan'.keys = Keys(res)
      <3> HIDE DEF res
      <3> QED BY <1>10
    <2>2. Keys(res) = KeysIn(world, res)
      BY KeysAre
    <2> HIDE DEF res
    <2> QED BY <1>11, <1>14, <2>1, <2>2
  <1> QED BY <1>15, <1>16, <1>17

\* The pass stays where it is in its file, or is between files.
LEMMA QuietPass ==
    ASSUME scan'.pc \in {"idle", "stat"}
    PROVE  PassOK'
  BY DEF PassOK

\* scanFile never takes a growing file for a truncated one.
LEMMA NeverShrunk ==
    ASSUME TypeInv, NEW f \in Paths, CommittedOK(f), LedgerOK(f)
    PROVE  ~Shrunk(f)
  <1>1. /\ offset[f] \in Nat /\ offset[f] <= 2 * Len(log[f])
        /\ Len(log[f]) \in Nat /\ Size(f) \in Nat /\ 2 * Len(log[f]) <= Size(f)
    BY SizeType DEF TypeInv, CommittedOK, Boundary
  <1>2. inFlight[f].end \in Nat /\ inFlight[f].end <= 2 * Len(log[f])
    <2>1. CASE inFlight[f] = NoScan
      BY <1>1, <2>1 DEF NoScan
    <2>2. CASE inFlight[f] # NoScan
      BY <2>2 DEF TypeInv, IsScan, LedgerOK, Boundary
    <2> QED BY <2>1, <2>2
  <1> QED BY <1>1, <1>2 DEF Shrunk

\* MarkDeliveryDone adds one key to the ledger of the file.
LEMMA MarkAdds ==
    ASSUME TypeInv, Mark, NEW f \in Paths, f = FileOrder[scan.n], inFlight[f] # NoScan
    PROVE  /\ inFlight'[f].start = inFlight[f].start
           /\ inFlight'[f].end = inFlight[f].end
           /\ inFlight'[f].turn = inFlight[f].turn
           /\ inFlight'[f].done = inFlight[f].done \cup {scan.key}
           /\ inFlight'[f] # NoScan
           /\ \A g \in Paths : g # f => inFlight'[g] = inFlight[g]
  <1> DEFINE marked == [inFlight[f] EXCEPT !.done = @ \cup {scan.key}]
  <1>1. inFlight' = [inFlight EXCEPT ![f] = marked]
    BY DEF Mark
  <1>2. inFlight'[f] = marked /\ \A g \in Paths : g # f => inFlight'[g] = inFlight[g]
    <2> HIDE DEF marked
    <2> QED BY <1>1 DEF TypeInv
  <1>3. IsScan(inFlight[f])
    BY DEF TypeInv
  <1>4. /\ inFlight'[f].start = inFlight[f].start /\ inFlight'[f].end = inFlight[f].end
        /\ inFlight'[f].turn = inFlight[f].turn
        /\ inFlight'[f].done = inFlight[f].done \cup {scan.key}
    BY <1>2, <1>3 DEF IsScan
  <1>5. inFlight'[f].start \in Nat /\ ~(NoScan.start \in Nat)
    BY <1>3, <1>4 DEF IsScan, NoScan
  <1>6. inFlight'[f] # NoScan
    BY <1>5
  <1> QED BY <1>2, <1>4, <1>6

LEMMA GrowStep ==
    ASSUME TypeInv, TypeInv', Growing, GrowInv, [Next]_vars
    PROVE  GrowInv'
  <1>0. ScanOK /\ PassOK /\ \A g \in Paths : CommittedOK(g) /\ LedgerOK(g)
    BY DEF TypeInv, GrowInv
  <1>1. ASSUME NEW f \in Paths, Write(f) PROVE GrowInv'
    <2>1. UNCHANGED stateVars /\ SinksGrow /\ scan' = scan
      BY <1>1 DEF Write, sinkVars, SinksGrow
    <2>2. \A g \in Paths :
            /\ CommittedOK(g)' /\ LedgerOK(g)'
            /\ inFlight[g] # NoScan => InFlightParse(g)' = InFlightParse(g)
      <3>1. \A g \in Paths : Extends(g)
        BY <1>1, WriteExtends
      <3> QED BY <2>1, <3>1, KeptFiles
    <2>3. PassOK'
      <3>1. CASE scan = Idle
        BY <2>1, <3>1, QuietPass DEF Idle
      <3>2. CASE scan # Idle
        <4>1. PICK g \in Paths : g = FileOrder[scan.n]
          BY <1>0, <3>2, FileIsPath DEF ScanOK
        <4>2. Size(g) <= Size(g)' /\ Size(g) \in Nat /\ Size(g)' \in Nat
          <5>1. Size(g) \in Nat
            BY <4>1, SizeType
          <5>3. Size(g)' \in Nat
            BY SizeTypeNext
          <5> QED BY <1>1, <4>1, <5>1, <5>3, WriteSize
        <4>3. /\ offset'[g] = offset[g] /\ inFlight'[g] = inFlight[g] /\ world' = world
              /\ delivered' = delivered /\ quotas' = quotas
          BY <1>1 DEF Write, stateVars, sinkVars
        <4>4. (scan.pc = "parse" /\ ~scan.resuming) => scan.end <= Size(g)'
          <5>1. (scan.pc = "parse" /\ ~scan.resuming) =>
                    scan.end \in Nat /\ scan.end <= Size(g)
            BY <1>0, <4>1 DEF ScanOK, PassOK, Idle
          <5> QED BY <4>2, <5>1
        <4>5. scan.pc \in {"deliver", "mark"} => InFlightParse(g)' = InFlightParse(g)
          BY <1>0, <2>2, <4>1 DEF ScanOK, Idle
        <4>6. Handed(scan.key) => Handed(scan.key)'
          BY <2>1, <4>3 DEF Handed
        <4>7. g = FileOrder[scan'.n]
          BY <2>1, <4>1
        <4>8. scan.pc = "parse" =>
                scan.resuming \/ /\ scan.start = IF g \in Reparsed THEN 0 ELSE offset[g]
                                 /\ offset[g] <= scan.end /\ scan.end <= Size(g)
          BY <1>0, <4>1 DEF PassOK
        <4>9. /\ scan.pc \in {"deliver", "mark"} => scan.keys = KeysIn(world, InFlightParse(g))
              /\ scan.pc = "mark" => scan.key \in scan.keys /\ Handed(scan.key)
          BY <1>0, <4>1 DEF PassOK
        <4> QED BY <2>1, <4>3, <4>4, <4>5, <4>6, <4>7, <4>8, <4>9 DEF PassOK
      <3> QED BY <3>1, <3>2
    <2> QED BY <2>2, <2>3 DEF GrowInv
  <1>2. ASSUME NEW f \in Paths, Truncate(f) PROVE FALSE
    BY <1>2 DEF Truncate, Growing
  <1>3. ASSUME UNCHANGED stateVars, log' = log, SinksGrow
        PROVE  \A g \in Paths :
                 /\ CommittedOK(g)' /\ LedgerOK(g)'
                 /\ inFlight[g] # NoScan => InFlightParse(g)' = InFlightParse(g)
    <2>1. \A g \in Paths : Extends(g)
      BY <1>3, SameLogExtends
    <2> QED BY <1>3, <2>1, KeptFiles
  <1>4. ASSUME StartPass \/ Unreadable \/ Interrupt PROVE GrowInv'
    <2>1. UNCHANGED stateVars /\ log' = log /\ SinksGrow
      BY <1>4 DEF StartPass, Unreadable, Interrupt, logVars, sinkVars, SinksGrow
    <2>2. scan'.pc \in {"idle", "stat"}
      <3>1. CASE StartPass
        <4>1. 0 \in 0..Len(FileOrder)
          BY CollectorConstants
        <4> QED BY <3>1, <4>1, NextFileOK DEF StartPass
      <3>2. CASE Unreadable
        <4>1. scan.n \in 0..Len(FileOrder)
          BY <1>0, <3>2, CollectorConstants DEF Unreadable, ScanOK, Idle
        <4> QED BY <3>2, <4>1, NextFileOK DEF Unreadable
      <3>3. CASE Interrupt
        BY <3>3 DEF Interrupt, Idle
      <3> QED BY <1>4, <3>1, <3>2, <3>3
    <2> QED BY <1>3, <2>1, <2>2, QuietPass DEF GrowInv
  <1>5. CASE Stat
    <2>0. scan.n \in 1..Len(FileOrder) /\ scan.n \in 0..Len(FileOrder)
      BY <1>0, <1>5, CollectorConstants DEF Stat, ScanOK, Idle
    <2>1. PICK f \in Paths : f = FileOrder[scan.n]
      BY <2>0, FileIsPath
    <2>2. /\ offset[f] \in Nat /\ offset[f] <= 2 * Len(log[f])
          /\ Len(log[f]) \in Nat /\ Size(f) \in Nat /\ 2 * Len(log[f]) <= Size(f)
      BY <1>0, <2>1, SizeType DEF TypeInv, CommittedOK, Boundary
    <2>3. ~Shrunk(f)
      BY <1>0, NeverShrunk
    <2>4. ReadFrom(f) = offset[f]
      BY <2>2 DEF ReadFrom
    <2>5. UNCHANGED stateVars /\ log' = log /\ SinksGrow /\ partial' = partial
      BY <1>5, <2>1, <2>3 DEF Stat, stateVars, sinkVars, SinksGrow
    <2>6. \/ scan' = NextFile(scan.n)
          \/ scan' = [pc |-> "parse", n |-> scan.n, resuming |-> inFlight[f] # NoScan,
                      start |-> IF inFlight[f] # NoScan THEN inFlight[f].start
                                ELSE IF f \in Reparsed THEN 0 ELSE offset[f],
                      end |-> IF inFlight[f] # NoScan THEN inFlight[f].end ELSE Size(f)]
      BY <1>5, <2>1, <2>3, <2>4 DEF Stat
    <2>7. PassOK'
      <3>1. CASE scan' = NextFile(scan.n)
        BY <2>0, <3>1, NextFileOK, QuietPass
      <3>2. CASE scan' # NextFile(scan.n)
        <4> DEFINE p == inFlight[f] # NoScan
                   st == IF p THEN inFlight[f].start ELSE IF f \in Reparsed THEN 0 ELSE offset[f]
                   en == IF p THEN inFlight[f].end ELSE Size(f)
        <4>1. scan' = [pc |-> "parse", n |-> scan.n, resuming |-> p, start |-> st, end |-> en]
          BY <2>6, <3>2
        <4>2. ~p => /\ st = IF f \in Reparsed THEN 0 ELSE offset[f]
                    /\ offset[f] <= en /\ en <= Size(f)
          BY <2>2
        <4>3. Size(f)' = Size(f) /\ offset' = offset
          BY <2>5 DEF Size, stateVars
        <4> HIDE DEF p, st, en
        <4>4. /\ scan'.pc = "parse" /\ scan'.n = scan.n /\ scan'.resuming = p
              /\ scan'.start = st /\ scan'.end = en
          BY <4>1
        <4>5. FileOrder[scan'.n] = f
          BY <2>1, <4>4
        <4>6. p => scan'.resuming
          BY <4>4
        <4> QED BY <4>2, <4>3, <4>4, <4>5, <4>6 DEF PassOK, Size
      <3> QED BY <3>1, <3>2
    <2> QED BY <1>3, <2>5, <2>7 DEF GrowInv
  <1>6. CASE ParseFile
    <2>0. scan.n \in 1..Len(FileOrder) /\ scan.pc = "parse"
      BY <1>0, <1>6 DEF ParseFile, ScanOK, Idle
    <2>1. PICK f \in Paths : f = FileOrder[scan.n]
      BY <2>0, FileIsPath
    <2>2. log' = log /\ SinksGrow /\ offset' = offset /\ turnStart' = turnStart /\ chunks' = chunks
      BY <1>6 DEF ParseFile, logVars, sinkVars, SinksGrow
    <2>3. CASE scan.resuming
      <3>1. inFlight' = inFlight
        BY <1>6, <2>3 DEF ParseFile
      <3>2. UNCHANGED stateVars
        BY <2>2, <3>1 DEF stateVars
      <3>3. PassOK'
        <4>1. CASE scan' = Idle
          BY <4>1, QuietPass DEF Idle
        <4>2. CASE scan' # Idle
          <5> DEFINE res == Parse(f, scan.start, scan.end, turnStart[f])
          <5>1. scan' = [pc |-> "deliver", n |-> scan.n, resuming |-> scan.resuming,
                         keys |-> Keys(res)]
            BY <1>6, <2>1, <4>2 DEF ParseFile
          <5>2. scan.start = inFlight[f].start /\ scan.end = inFlight[f].end
            BY <1>0, <2>0, <2>1, <2>3 DEF ScanOK, Idle
          <5>3. res = InFlightParse(f)
            BY <5>2, ParseIs DEF InFlightParse
          <5>4. Keys(res) = KeysIn(world, InFlightParse(f))
            BY <5>3, KeysAre
          <5>5. InFlightParse(f)' = InFlightParse(f) /\ world' = world
            BY <2>2, <3>1 DEF InFlightParse, SinksGrow
          <5> HIDE DEF res
          <5>6. scan'.pc = "deliver" /\ scan'.n = scan.n /\ scan'.keys = Keys(res)
            BY <5>1
          <5> QED BY <2>1, <5>4, <5>5, <5>6 DEF PassOK
        <4> QED BY <4>1, <4>2
      <3> QED BY <1>3, <2>2, <3>2, <3>3 DEF GrowInv
    <2>4. CASE ~scan.resuming
      <3>1. /\ CommittedOK(f)' /\ LedgerOK(f)'
            /\ scan' # Idle => scan'.keys = KeysIn(world', InFlightParse(f)')
        BY <1>6, <2>1, <2>4, BeginGrows
      <3>2. ASSUME NEW g \in Paths, g # f PROVE CommittedOK(g)' /\ LedgerOK(g)'
        <4>1. inFlight'[g] = inFlight[g]
          BY <1>6, <2>1, <3>2 DEF ParseFile, TypeInv
        <4>2. inFlight[g] # NoScan => \A key \in inFlight[g].done : Handed(key)
          BY <1>0 DEF LedgerOK
        <4>3. Extends(g)
          BY <2>2, SameLogExtends
        <4> QED BY <1>0, <2>2, <4>1, <4>2, <4>3, KeptFile
      <3>3. PassOK'
        <4>1. scan' = Idle \/ (scan'.pc = "deliver" /\ scan'.n = scan.n)
          BY <1>6 DEF ParseFile
        <4>2. CASE scan' = Idle
          BY <4>2, QuietPass DEF Idle
        <4>3. CASE scan' # Idle
          BY <2>1, <3>1, <4>1, <4>3 DEF PassOK
        <4> QED BY <4>2, <4>3
      <3> QED BY <3>1, <3>2, <3>3 DEF GrowInv
    <2> QED BY <1>0, <2>0, <2>3, <2>4 DEF ScanOK, Idle
  <1>7. CASE Deliver
    <2>0. scan.n \in 1..Len(FileOrder) /\ scan.pc = "deliver"
      BY <1>0, <1>7 DEF Deliver, ScanOK, Idle
    <2>1. PICK f \in Paths : f = FileOrder[scan.n]
      BY <2>0, FileIsPath
    <2>2. PICK key \in Owed :
            /\ delivered' = IF key.kind = "events" THEN delivered \cup key.payload ELSE delivered
            /\ quotas' = IF key.kind = "quotas" THEN quotas \cup key.payload ELSE quotas
            /\ scan' = [pc |-> "mark", n |-> scan.n, resuming |-> scan.resuming,
                        keys |-> scan.keys, key |-> key]
      BY <1>7 DEF Deliver
    <2>3. UNCHANGED stateVars /\ log' = log /\ SinksGrow
      BY <1>7, <2>2 DEF Deliver, logVars, SinksGrow
    <2>4. inFlight[f] # NoScan /\ scan.keys = KeysIn(world, InFlightParse(f))
      BY <1>0, <2>0, <2>1 DEF ScanOK, PassOK, Idle
    <2>5. InFlightParse(f)' = InFlightParse(f) /\ world' = world
      BY <2>3 DEF InFlightParse, stateVars, SinksGrow
    <2>6. Handed(key)' /\ key \in scan.keys
      BY <2>2 DEF Handed, Owed
    <2>7. /\ scan'.pc = "mark" /\ scan'.n = scan.n /\ scan'.keys = scan.keys
          /\ scan'.key = key
      BY <2>2
    <2>8. PassOK'
      BY <2>1, <2>4, <2>5, <2>6, <2>7 DEF PassOK, Handed
    <2> QED BY <1>3, <2>3, <2>8 DEF GrowInv
  <1>8. CASE Mark
    <2>0. scan.n \in 1..Len(FileOrder) /\ scan.pc = "mark"
      BY <1>0, <1>8 DEF Mark, ScanOK, Idle
    <2>1. PICK f \in Paths : f = FileOrder[scan.n]
      BY <2>0, FileIsPath
    <2>2. log' = log /\ SinksGrow /\ offset' = offset /\ turnStart' = turnStart /\ chunks' = chunks
      BY <1>8 DEF Mark, logVars, sinkVars, SinksGrow
    <2>3. /\ inFlight[f] # NoScan /\ scan.keys = KeysIn(world, InFlightParse(f))
          /\ Handed(scan.key)
      BY <1>0, <2>0, <2>1 DEF ScanOK, PassOK, Idle
    <2>6. /\ inFlight'[f].start = inFlight[f].start /\ inFlight'[f].end = inFlight[f].end
          /\ inFlight'[f].turn = inFlight[f].turn
          /\ inFlight'[f].done = inFlight[f].done \cup {scan.key}
          /\ \A g \in Paths : g # f => inFlight'[g] = inFlight[g]
      BY <1>8, <2>1, <2>3, MarkAdds
    <2>7. ASSUME NEW g \in Paths PROVE CommittedOK(g)' /\ LedgerOK(g)'
      <3>1. inFlight[g] # NoScan => \A key \in inFlight[g].done : Handed(key)
        BY <1>0 DEF LedgerOK
      <3>2. Extends(g)
        BY <2>2, SameLogExtends
      <3>3. \/ inFlight'[g] = NoScan
            \/ /\ inFlight[g] # NoScan
               /\ inFlight'[g].start = inFlight[g].start
               /\ inFlight'[g].end = inFlight[g].end
               /\ inFlight'[g].turn = inFlight[g].turn
               /\ \A key \in inFlight'[g].done : Handed(key)
        <4>1. CASE g = f
          BY <2>3, <2>6, <3>1, <4>1
        <4>2. CASE g # f
          BY <2>6, <3>1, <4>2
        <4> QED BY <4>1, <4>2
      <3> QED BY <1>0, <2>2, <3>2, <3>3, KeptFile
    <2>8. InFlightParse(f)' = InFlightParse(f) /\ world' = world
      BY <2>2, <2>6 DEF InFlightParse, SinksGrow
    <2>9. scan'.pc = "deliver" /\ scan'.n = scan.n /\ scan'.keys = scan.keys
      BY <1>8 DEF Mark
    <2>10. PassOK'
      BY <2>1, <2>3, <2>8, <2>9 DEF PassOK
    <2> QED BY <2>7, <2>10 DEF GrowInv
  <1>9. CASE Commit
    <2>0. scan.n \in 1..Len(FileOrder) /\ scan.n \in 0..Len(FileOrder)
      BY <1>0, <1>9, CollectorConstants DEF Commit, ScanOK, Idle
    <2>1. PICK f \in Paths : f = FileOrder[scan.n]
      BY <2>0, FileIsPath
    <2>2. CommittedOK(f)' /\ LedgerOK(f)'
      BY <1>9, <2>1, CommitGrows
    <2>3. ASSUME NEW g \in Paths, g # f PROVE CommittedOK(g)' /\ LedgerOK(g)'
      <3>1. /\ offset'[g] = offset[g] /\ turnStart'[g] = turnStart[g]
            /\ chunks'[g] = chunks[g] /\ inFlight'[g] = inFlight[g] /\ log' = log /\ SinksGrow
        BY <1>9, <2>1, <2>3 DEF Commit, TypeInv, logVars, sinkVars, SinksGrow
      <3>2. inFlight[g] # NoScan => \A key \in inFlight[g].done : Handed(key)
        BY <1>0 DEF LedgerOK
      <3>3. Extends(g)
        BY <3>1, SameLogExtends
      <3> QED BY <1>0, <3>1, <3>2, <3>3, KeptFile
    <2>4. PassOK'
      BY <1>9, <2>0, NextFileOK, QuietPass DEF Commit
    <2> QED BY <2>2, <2>3, <2>4 DEF GrowInv
  <1>10. CASE Forget
    <2>1. ASSUME NEW g \in Paths PROVE CommittedOK(g)' /\ LedgerOK(g)'
      <3>1. /\ offset'[g] = 0 /\ turnStart'[g] = 0 /\ chunks'[g] = {}
            /\ inFlight'[g] = NoScan
        BY <1>10 DEF Forget
      <3>2. log'[g] \in Seq(Line) /\ Len(log'[g]) \in Nat
        BY DEF TypeInv
      <3>3. /\ EventsOf(g, Piece(log'[g], 0, 0), 0) = {} /\ HitsOf(Piece(log'[g], 0, 0)) = {}
            /\ TurnBefore(Piece(log'[g], 0, 0), 0, 0) = 0
        BY <3>2, EmptyPiece
      <3>4. Told(g, Piece(log[g], 0, offset[g]), 0)'
        BY <3>1, <3>3 DEF Told
      <3>5. Boundary(g, offset[g])'
        BY <3>1, <3>2 DEF Boundary, Even
      <3>6. 0 \div 2 = 0
        OBVIOUS
      <3>7. turnStart'[g] = TurnBefore(Piece(log'[g], 0, offset'[g]), offset'[g] \div 2, 0)
        BY <3>1, <3>3, <3>6
      <3> QED BY <3>1, <3>4, <3>5, <3>7 DEF CommittedOK, LedgerOK
    <2>2. PassOK'
      BY <1>10, QuietPass DEF Forget, Idle
    <2> QED BY <2>1, <2>2 DEF GrowInv
  <1>11. CASE UNCHANGED vars
    <2>1. UNCHANGED stateVars /\ log' = log /\ SinksGrow
      BY <1>11 DEF vars, logVars, sinkVars, SinksGrow
    <2>2. PassOK'
      BY <1>0, <1>11 DEF vars, logVars, stateVars, sinkVars, PassOK, Size, InFlightParse, Handed
    <2> QED BY <1>3, <2>1, <2>2 DEF GrowInv
  <1> QED
    BY <1>1, <1>2, <1>4, <1>5, <1>6, <1>7, <1>8, <1>9, <1>10, <1>11 DEF Next, PassStep

LEMMA WorldKept == [Next]_vars => world' = world
  BY DEF Next, PassStep, vars, logVars, Write, Truncate, StartPass, Stat, ParseFile, Deliver,
         Mark, Commit, Unreadable, Interrupt, Forget

\* Where files only grow, the offset of a file, the turn start and the chunk
\* keys saved with it, and its ledger belong together, whatever dies, fails or
\* is forgotten.
THEOREM GrowingInvariant == Spec => []CollectorInv
  <1>1. Init => CollectorInv
    BY TypeInit, GrowInit DEF CollectorInv
  <1>2. CollectorInv /\ [Next]_vars => CollectorInv'
    <2> SUFFICES ASSUME CollectorInv, [Next]_vars PROVE CollectorInv'
      OBVIOUS
    <2>1. TypeInv'
      BY TypeStep DEF CollectorInv
    <2>2. ASSUME Growing' PROVE GrowInv'
      <3>1. Growing
        BY <2>2, WorldKept DEF Growing, Faults
      <3> QED BY <2>1, <3>1, GrowStep DEF CollectorInv
    <2> QED BY <2>1, <2>2 DEF CollectorInv
  <1> QED BY <1>1, <1>2, PTL DEF Spec

\* Reading a growing file piece by piece delivers what one parse of the whole
\* prefix finds, generation intervals included.
THEOREM GrowingMatches == Spec => []GrowingMatchesFullParse
  <1>1. CollectorInv => GrowingMatchesFullParse
    <2> SUFFICES ASSUME CollectorInv, Growing PROVE CommittedMatchesFullParse
      BY DEF GrowingMatchesFullParse, Growing
    <2>1. ASSUME NEW f \in Paths, NEW e \in Parse(f, 0, offset[f], 0).events, InWindow(e)
          PROVE  e \in delivered
      <3>1. Parse(f, 0, offset[f], 0) = ParseOf(f, Piece(log[f], 0, offset[f]), 0)
        BY ParseIs
      <3>2. e \in EventsOf(f, Piece(log[f], 0, offset[f]), 0)
        BY <2>1, <3>1 DEF ParseOf
      <3>3. Told(f, Piece(log[f], 0, offset[f]), 0)
        BY DEF CollectorInv, GrowInv, CommittedOK
      <3> QED BY <2>1, <3>2, <3>3 DEF Told
    <2> QED BY <2>1 DEF CommittedMatchesFullParse
  <1> QED BY <1>1, GrowingInvariant, PTL

\* The lines of a piece whose events and hits have been accepted.
LEMMA ToldLines ==
    ASSUME NEW f, NEW lines \in Seq(Line), NEW carry, Told(f, lines, carry),
           NEW i \in 1..Len(lines)
    PROVE  LineTold(lines[i])
  <1>1. ASSUME IsEvent(lines[i]), InWindow(lines[i])
        PROVE  \E e \in delivered : e.ts = lines[i].ts
    <2> DEFINE e == EventAt(f, lines, i, carry)
    <2>1. e.ts = lines[i].ts
      BY DEF EventAt
    <2>2. e \in EventsOf(f, lines, carry)
      BY <1>1 DEF EventsOf
    <2>3. InWindow(e)
      BY <1>1, <2>1 DEF InWindow
    <2>4. e \in delivered
      BY <2>2, <2>3 DEF Told
    <2> QED BY <2>1, <2>4
  <1>2. ASSUME IsLimit(lines[i]) PROVE lines[i].ts \in quotas
    <2>1. lines[i].ts \in HitsOf(lines)
      BY <1>2 DEF HitsOf
    <2> QED BY <2>1 DEF Told
  <1> QED BY <1>1, <1>2 DEF LineTold

LEMMA GrowingDelivers ==
    ASSUME TypeInv, GrowInv
    PROVE  CommittedIsDelivered
  <1> SUFFICES ASSUME NEW f \in Paths, NEW line \in Range(LinesBetween(f, 0, offset[f]))
               PROVE  LineTold(line)
    BY DEF CommittedIsDelivered, LineTold
  <1> DEFINE P == Piece(log[f], 0, offset[f])
  <1>1. P \in Seq(Line) /\ Len(P) \in Nat
    <2>1. log[f] \in Seq(Line) /\ offset[f] \in Nat
      BY DEF TypeInv
    <2>2. P \in Seq(Line)
      BY <2>1, PieceType
    <2> QED BY <2>2
  <1>2. LinesBetween(f, 0, offset[f]) = P
    BY ParseIs
  <1>3. Told(f, P, 0)
    BY DEF GrowInv, CommittedOK
  <1> HIDE DEF P
  <1>4. PICK i \in 1..Len(P) : line = P[i]
    BY <1>1, <1>2 DEF Range
  <1> QED BY <1>1, <1>3, <1>4, ToldLines

-----------------------------------------------------------------------------
(* A sink that refuses batches, and nothing else that fails.                *)

\* The events of a delivery are on lines of the scan it belongs to.
LEMMA PayloadLines ==
    ASSUME TypeInv, NEW f \in Paths, CommittedOK(f), LedgerOK(f), inFlight[f] # NoScan,
           NEW key \in KeysIn(world, InFlightParse(f)), key.kind = "events",
           NEW e \in key.payload
    PROVE  \E j \in 1..Len(log[f]) : /\ e.ts = log[f][j].ts
                                     /\ inFlight[f].start < 2 * j /\ 2 * j <= inFlight[f].end
  <1> DEFINE s == inFlight[f].start
             z == inFlight[f].end
             L == log[f]
             Q == Piece(L, s, z)
             c == turnStart[f]
  <1>1. s \in Nat /\ z \in Nat /\ L \in Seq(Line) /\ Len(L) \in Nat /\ offset[f] \in Nat
    BY DEF TypeInv, IsScan
  <1>2. /\ Even(z) /\ z <= 2 * Len(L) /\ offset[f] <= z /\ Even(offset[f])
        /\ s = IF f \in Reparsed THEN 0 ELSE offset[f]
    BY DEF LedgerOK, CommittedOK, Boundary
  <1>3. Even(s) /\ s <= z
    BY <1>1, <1>2, EvenZero
  <1>4. Len(Q) = z \div 2 - s \div 2 /\ \A i \in 1..(z \div 2 - s \div 2) : Q[i] = L[s \div 2 + i]
    <2> HIDE DEF s, z, L
    <2>1. L \in Seq(Line) /\ s \in Nat /\ z \in Nat
      BY <1>1
    <2>2. Even(s) /\ Even(z) /\ s <= z /\ z <= 2 * Len(L)
      BY <1>2, <1>3
    <2> QED BY <2>1, <2>2, PieceIs
  <1>5. e \in EventsOf(f, Q, c)
    <2>1. key.payload \subseteq InFlightParse(f).events
      BY KeyKinds
    <2>2. InFlightParse(f).events = EventsOf(f, Q, c)
      BY DEF InFlightParse, ParseOf
    <2> QED BY <2>1, <2>2
  <1> HIDE DEF Q, c
  <1>6. PICK i \in 1..Len(Q) : e = EventAt(f, Q, i, c)
    BY <1>5 DEF EventsOf
  <1>7. e.ts = Q[i].ts
    BY <1>6 DEF EventAt
  <1> HIDE DEF s, z, L
  <1>8. PICK a \in Nat, b \in Nat : a = s \div 2 /\ s = 2 * a /\ b = z \div 2 /\ z = 2 * b
    <2>1. s \div 2 \in Nat /\ z \div 2 \in Nat
      BY <1>1
    <2>2. s = 2 * (s \div 2) /\ z = 2 * (z \div 2)
      BY <1>2, <1>3 DEF Even
    <2> QED BY <2>1, <2>2
  <1> DEFINE j == a + i
  <1>9. i \in 1..(b - a)
    BY <1>4, <1>8
  <1>10. j \in 1..Len(L) /\ s < 2 * j /\ 2 * j <= z
    <2>1. i \in Nat /\ 1 <= i /\ a + i <= b
      BY <1>9
    <2>2. b <= Len(L)
      BY <1>1, <1>2, <1>8
    <2>3. j \in Nat /\ 1 <= j /\ j <= Len(L)
      BY <1>1, <2>1, <2>2
    <2>4. 2 * a < 2 * j /\ 2 * j <= 2 * b
      BY <2>1
    <2> QED BY <1>1, <1>8, <2>3, <2>4
  <1>11. e.ts = L[j].ts
    BY <1>4, <1>7, <1>8, <1>9
  <1> QED BY <1>10, <1>11 DEF s, z, L

LEMMA StampsInit ==
    ASSUME Init
    PROVE  SinkOnlyInv
  <1>1. \A f \in Paths : log[f] = <<>> /\ inFlight[f] = NoScan
    BY DEF Init
  <1>2. \A f \in Paths : Len(log[f]) = 0
    BY <1>1
  <1>3. StampsOK
    BY <1>2 DEF StampsOK
  <1>4. delivered = {}
    BY DEF Init
  <1> QED BY <1>1, <1>3, <1>4 DEF SinkOnlyInv

LEMMA StampsStep ==
    ASSUME TypeInv, TypeInv', Growing, StampsOK, [Next]_vars
    PROVE  StampsOK'
  <1>1. ASSUME NEW f \in Paths, Write(f) PROVE StampsOK'
    <2>1. CASE log' = log
      <3>1. clock' = clock \/ clock' = clock + 1
        BY <1>1 DEF Write
      <3>2. \A g \in Paths : \A i \in 1..Len(log[g]) : log[g][i].ts \in Nat
        <4> SUFFICES ASSUME NEW g \in Paths, NEW i \in 1..Len(log[g]) PROVE log[g][i].ts \in Nat
          OBVIOUS
        <4>1. log[g] \in Seq(Line)
          BY DEF TypeInv
        <4>2. log[g][i] \in Line
          BY <4>1
        <4> QED BY <4>2 DEF Line
      <3>3. \A g \in Paths : \A i \in 1..Len(log[g]) : log[g][i].ts <= clock'
        <4>1. clock \in Nat /\ clock <= clock'
          BY <3>1 DEF TypeInv
        <4> SUFFICES ASSUME NEW g \in Paths, NEW i \in 1..Len(log[g]) PROVE log[g][i].ts <= clock'
          OBVIOUS
        <4>2. log[g][i].ts \in Nat /\ log[g][i].ts <= clock
          BY <3>2 DEF StampsOK
        <4>3. clock' \in Nat
          BY DEF TypeInv
        <4> QED BY <4>1, <4>2, <4>3
      <3> QED BY <2>1, <3>3 DEF StampsOK
    <2>2. CASE log' # log
      <3>1. PICK k \in Kinds : log' = [log EXCEPT ![f] =
                                          Append(@, [kind |-> k, ts |-> clock + 1])]
        BY <1>1, <2>2 DEF Write
      <3> DEFINE new == [kind |-> k, ts |-> clock + 1]
                 m == Len(log[f]) + 1
      <3>2. clock' = clock + 1 /\ clock \in Nat
        BY <1>1, <2>2 DEF Write, TypeInv
      <3>3. log[f] \in Seq(Line) /\ new \in Line /\ Len(log[f]) \in Nat
        <4>1. new \in Line
          BY <3>2 DEF Line
        <4>2. log[f] \in Seq(Line)
          BY DEF TypeInv
        <4> QED BY <4>1, <4>2
      <3>4. /\ Len(log'[f]) = m /\ log'[f][m] = new
            /\ \A i \in 1..Len(log[f]) : log'[f][i] = log[f][i]
        <4>1. log'[f] = Append(log[f], new)
          <5> HIDE DEF new
          <5> QED BY <3>1 DEF TypeInv, new
        <4> HIDE DEF new
        <4> QED BY <3>3, <4>1, AppendProperties
      <3>5. \A g \in Paths : g # f => log'[g] = log[g]
        BY <3>1 DEF TypeInv
      <3>6. new.ts = clock + 1
        OBVIOUS
      <3> HIDE DEF new
      <3>7. ASSUME NEW g \in Paths, NEW i \in 1..Len(log'[g])
            PROVE  \/ g = f /\ i = m /\ log'[g][i].ts = clock + 1
                   \/ /\ i \in 1..Len(log[g]) /\ log'[g][i] = log[g][i]
                      /\ log'[g][i].ts <= clock /\ log'[g][i].ts \in Nat
        <4>1. ASSUME i \in 1..Len(log[g])
              PROVE  log[g][i].ts <= clock /\ log[g][i].ts \in Nat
          <5>1. log[g] \in Seq(Line)
            BY DEF TypeInv
          <5>2. log[g][i] \in Line
            BY <4>1, <5>1
          <5> QED BY <4>1, <5>2 DEF StampsOK, Line
        <4>2. CASE g # f
          BY <3>5, <4>1, <4>2
        <4>3. CASE g = f
          <5>1. i = m \/ i \in 1..Len(log[f])
            BY <3>3, <3>4, <4>3
          <5> QED BY <3>4, <3>6, <4>1, <4>3, <5>1
        <4> QED BY <4>2, <4>3
      <3>8. \A g \in Paths : \A i \in 1..Len(log'[g]) : log'[g][i].ts <= clock'
        BY <3>2, <3>7
      <3>9. ASSUME NEW g \in Paths, NEW h \in Paths, NEW i \in 1..Len(log'[g]),
                   NEW j \in 1..Len(log'[h]), log'[g][i].ts = log'[h][j].ts
            PROVE  g = h /\ i = j
        <4>1. CASE g = f /\ i = m /\ log'[g][i].ts = clock + 1
          <5>1. ~(log'[h][j].ts <= clock)
            BY <3>2, <3>9, <4>1
          <5> QED BY <3>7, <4>1, <5>1
        <4>2. CASE /\ i \in 1..Len(log[g]) /\ log'[g][i] = log[g][i]
                   /\ log'[g][i].ts <= clock /\ log'[g][i].ts \in Nat
          <5>1. log'[h][j].ts # clock + 1
            BY <3>2, <3>9, <4>2
          <5>2. j \in 1..Len(log[h]) /\ log'[h][j] = log[h][j]
            BY <3>7, <5>1
          <5> QED BY <3>9, <4>2, <5>2 DEF StampsOK
        <4> QED BY <3>7, <4>1, <4>2
      <3> QED BY <3>8, <3>9 DEF StampsOK
    <2> QED BY <2>1, <2>2
  <1>2. ASSUME NEW f \in Paths, Truncate(f) PROVE FALSE
    BY <1>2 DEF Truncate, Growing
  <1>3. CASE UNCHANGED <<log, clock>>
    BY <1>3 DEF StampsOK
  <1>4. CASE UNCHANGED vars \/ StartPass \/ PassStep \/ Unreadable \/ Interrupt \/ Forget
    <2>1. UNCHANGED <<log, clock>>
      BY <1>4 DEF PassStep, vars, logVars, StartPass, Stat, ParseFile, Deliver,
                  Mark, Commit, Unreadable, Interrupt, Forget
    <2> QED BY <1>3, <2>1
  <1> QED BY <1>1, <1>2, <1>4 DEF Next

\* How a step that only the sink's refusals disturb treats an unfinished scan:
\* it leaves it alone, adds to its ledger, or closes it.
LEMMA SinkOnlyStep ==
    ASSUME TypeInv, TypeInv', GrowInv, SinkOnly, SinkOnlyInv, [Next]_vars
    PROVE  SinkOnlyInv'
  <1>0. /\ ScanOK /\ PassOK /\ \A g \in Paths : CommittedOK(g) /\ LedgerOK(g)
        /\ StampsOK /\ Growing
    BY DEF TypeInv, GrowInv, SinkOnlyInv, SinkOnly, Growing
  <1>1. StampsOK'
    BY <1>0, StampsStep
  <1>2. \A g \in Paths : inFlight[g] # NoScan =>
            inFlight[g].done \subseteq KeysIn(world, InFlightParse(g))
    BY DEF SinkOnlyInv
  <1>3. world' = world
    BY WorldKept
  \* Most steps keep the state file and accept nothing.
  <1>4. ASSUME UNCHANGED stateVars, UNCHANGED delivered, quotas' = quotas,
               \A g \in Paths : Extends(g),
               scan.pc = "mark" => scan' = scan
        PROVE  SinkOnlyInv'
    <2>1. \A g \in Paths : inFlight[g] # NoScan => InFlightParse(g)' = InFlightParse(g)
      BY <1>3, <1>4, KeptFiles DEF SinksGrow
    <2>2. ASSUME NEW g \in Paths, inFlight'[g] # NoScan
          PROVE  inFlight'[g].done \subseteq KeysIn(world', InFlightParse(g)')
      BY <1>2, <1>3, <1>4, <2>1, <2>2 DEF stateVars
    <2>3. ASSUME NEW e \in delivered PROVE Accounted(e)'
      <3>0. PICK g \in Paths : \E i \in 1..Len(log[g]) : AccountedAt(e, g, i)
        BY <2>3 DEF SinkOnlyInv, Accounted
      <3>1. PICK i \in 1..Len(log[g]) : AccountedAt(e, g, i)
        BY <3>0
      <3>2. i \in 1..Len(log'[g]) /\ log'[g][i] = log[g][i]
        <4>1. Len(log[g]) \in Nat /\ Len(log'[g]) \in Nat
          BY SizeType, SizeTypeNext
        <4> QED BY <1>4, <4>1 DEF Extends
      <3>3. offset' = offset /\ inFlight' = inFlight
        BY <1>4 DEF stateVars
      <3>4. Accepted(g) \subseteq Accepted(g)'
        BY <1>4, <3>3 DEF Accepted
      <3> QED BY <3>1, <3>2, <3>3, <3>4 DEF Accounted, AccountedAt
    <2> QED BY <1>1, <1>4, <2>2, <2>3 DEF SinkOnlyInv
  <1>5. ASSUME NEW f \in Paths, Write(f) PROVE SinkOnlyInv'
    <2>1. \A g \in Paths : Extends(g)
      BY <1>5, WriteExtends
    <2> QED BY <1>4, <1>5, <2>1 DEF Write, sinkVars
  <1>6. ASSUME log' = log PROVE \A g \in Paths : Extends(g)
    BY <1>6, SameLogExtends
  <1>7. CASE StartPass \/ UNCHANGED vars
    <2>1. /\ UNCHANGED stateVars /\ UNCHANGED delivered /\ quotas' = quotas /\ log' = log
          /\ scan.pc = "mark" => scan' = scan
      BY <1>7 DEF StartPass, vars, logVars, sinkVars, Idle
    <2> QED BY <1>4, <1>6, <2>1
  <1>8. CASE Interrupt
    <2>1. /\ UNCHANGED stateVars /\ UNCHANGED delivered /\ quotas' = quotas /\ log' = log
          /\ scan.pc = "deliver"
      BY <1>8 DEF Interrupt, logVars, sinkVars, SinkOnly
    <2> QED BY <1>4, <1>6, <2>1
  <1>9. ASSUME Unreadable \/ Forget \/ \E f \in Paths : Truncate(f) PROVE FALSE
    BY <1>9 DEF Unreadable, Forget, Truncate, SinkOnly
  <1>10. CASE Stat
    <2>0. scan.n \in 1..Len(FileOrder) /\ scan.pc = "stat"
      BY <1>0, <1>10 DEF Stat, ScanOK, Idle
    <2>1. PICK f \in Paths : f = FileOrder[scan.n]
      BY <2>0, FileIsPath
    <2>2. ~Shrunk(f)
      BY <1>0, NeverShrunk
    <2>3. UNCHANGED stateVars /\ UNCHANGED delivered /\ quotas' = quotas /\ log' = log
      BY <1>10, <2>1, <2>2 DEF Stat, stateVars, sinkVars
    <2> QED BY <1>4, <1>6, <2>0, <2>3
  \* The others keep every offset, and a ledger loses nothing.
  <1>11. ASSUME NEW e \in delivered, log' = log, offset' = offset,
                \A g \in Paths : inFlight[g] # NoScan =>
                    inFlight'[g] # NoScan /\ Accepted(g) \subseteq Accepted(g)'
         PROVE  Accounted(e)'
    <2>1. PICK g \in Paths : \E i \in 1..Len(log[g]) : AccountedAt(e, g, i)
      BY DEF SinkOnlyInv, Accounted
    <2>2. PICK i \in 1..Len(log[g]) : AccountedAt(e, g, i)
      BY <2>1
    <2>3. AccountedAt(e, g, i)'
      BY <1>11, <2>2 DEF AccountedAt
    <2> QED BY <1>11, <2>3 DEF Accounted
  <1>12. CASE ParseFile
    <2>0. scan.n \in 1..Len(FileOrder) /\ scan.pc = "parse"
      BY <1>0, <1>12 DEF ParseFile, ScanOK, Idle
    <2>1. PICK f \in Paths : f = FileOrder[scan.n]
      BY <2>0, FileIsPath
    <2>2. /\ log' = log /\ offset' = offset /\ turnStart' = turnStart
          /\ delivered' = delivered /\ scan'.pc # "mark"
      BY <1>12 DEF ParseFile, logVars, sinkVars, Idle
    <2>3. scan.resuming => inFlight' = inFlight
      BY <1>12 DEF ParseFile
    <2>4. ~scan.resuming => inFlight[f] = NoScan
      BY <1>0, <2>0, <2>1 DEF ScanOK, Idle
    <2>5. ASSUME NEW g \in Paths
          PROVE  \/ inFlight'[g] = inFlight[g]
                 \/ inFlight[g] = NoScan /\ inFlight'[g].done = {}
      <3> DEFINE res == Parse(f, scan.start, scan.end, turnStart[f])
                 new == [start |-> scan.start, end |-> scan.start + res.consumed,
                         turn |-> res.turn, done |-> {}]
      <3>1. CASE scan.resuming
        BY <2>3, <3>1
      <3>2. CASE ~scan.resuming
        <4>1. inFlight' = [inFlight EXCEPT ![f] = new]
          BY <1>12, <2>0, <2>1, <3>2 DEF ParseFile
        <4>2. new.done = {}
          OBVIOUS
        <4> HIDE DEF new
        <4>3. inFlight'[g] = IF g = f THEN new ELSE inFlight[g]
          BY <4>1 DEF TypeInv
        <4> QED BY <2>4, <3>2, <4>2, <4>3
      <3> QED BY <1>0, <2>0, <3>1, <3>2 DEF ScanOK, Idle
    <2>6. ASSUME NEW g \in Paths, inFlight'[g] # NoScan
          PROVE  inFlight'[g].done \subseteq KeysIn(world', InFlightParse(g)')
      <3>1. CASE inFlight'[g] = inFlight[g]
        <4>1. InFlightParse(g)' = InFlightParse(g)
          BY <2>2, <3>1 DEF InFlightParse
        <4> QED BY <1>2, <1>3, <2>6, <3>1, <4>1
      <3>2. CASE inFlight'[g].done = {}
        BY <3>2
      <3> QED BY <2>5, <3>1, <3>2
    <2>7. \A g \in Paths : inFlight[g] # NoScan =>
            inFlight'[g] # NoScan /\ Accepted(g) \subseteq Accepted(g)'
      BY <2>0, <2>5 DEF Accepted
    <2>8. \A e \in delivered : Accounted(e)'
      BY <1>11, <2>2, <2>7
    <2> QED BY <1>1, <2>2, <2>6, <2>8 DEF SinkOnlyInv
  <1>13. CASE Deliver
    <2>0. scan.n \in 1..Len(FileOrder) /\ scan.pc = "deliver"
      BY <1>0, <1>13 DEF Deliver, ScanOK, Idle
    <2>1. PICK f \in Paths : f = FileOrder[scan.n]
      BY <2>0, FileIsPath
    <2>2. PICK key \in Owed :
            /\ delivered' = IF key.kind = "events" THEN delivered \cup key.payload ELSE delivered
            /\ scan' = [pc |-> "mark", n |-> scan.n, resuming |-> scan.resuming,
                        keys |-> scan.keys, key |-> key]
      BY <1>13 DEF Deliver
    <2>3. UNCHANGED stateVars /\ log' = log
      BY <1>13 DEF Deliver, logVars
    <2>4. inFlight[f] # NoScan /\ scan.keys = KeysIn(world, InFlightParse(f))
      BY <1>0, <2>0, <2>1 DEF ScanOK, PassOK, Idle
    <2>5. key \in KeysIn(world, InFlightParse(f))
      BY <2>2, <2>4 DEF Owed
    <2>6. \A g \in Paths : InFlightParse(g)' = InFlightParse(g) /\ inFlight'[g] = inFlight[g]
      BY <2>3 DEF InFlightParse, stateVars
    <2>7. \A g \in Paths : inFlight'[g] # NoScan =>
            inFlight'[g].done \subseteq KeysIn(world', InFlightParse(g)')
      BY <1>2, <1>3, <2>6
    <2>8. scan'.pc = "mark" /\ scan'.n = scan.n /\ scan'.key = key
      BY <2>2
    <2>9. \A g \in Paths : inFlight[g] # NoScan =>
            inFlight'[g] # NoScan /\ Accepted(g) \subseteq Accepted(g)'
      BY <2>0, <2>6 DEF Accepted
    <2>10. ASSUME NEW e \in delivered PROVE Accounted(e)'
      BY <1>11, <2>3, <2>9 DEF stateVars
    <2>11. ASSUME key.kind = "events", NEW e \in key.payload PROVE Accounted(e)'
      <3>1. PICK j \in 1..Len(log[f]) : e.ts = log[f][j].ts
        BY <1>0, <2>4, <2>5, <2>11, PayloadLines
      <3>2. key \in Accepted(f)'
        BY <2>1, <2>8 DEF Accepted
      <3>3. AccountedAt(e, f, j)'
        BY <2>3, <2>4, <2>6, <2>11, <3>1, <3>2 DEF AccountedAt
      <3> QED BY <2>3, <3>1, <3>3 DEF Accounted
    <2> QED BY <1>1, <2>2, <2>7, <2>10, <2>11 DEF SinkOnlyInv
  <1>14. CASE Mark
    <2>0. scan.n \in 1..Len(FileOrder) /\ scan.pc = "mark"
      BY <1>0, <1>14 DEF Mark, ScanOK, Idle
    <2>1. PICK f \in Paths : f = FileOrder[scan.n]
      BY <2>0, FileIsPath
    <2>2. /\ log' = log /\ offset' = offset /\ turnStart' = turnStart
          /\ delivered' = delivered /\ scan'.pc # "mark"
      BY <1>14 DEF Mark, logVars, sinkVars
    <2>3. inFlight[f] # NoScan /\ scan.key \in KeysIn(world, InFlightParse(f))
      BY <1>0, <2>0, <2>1 DEF ScanOK, PassOK, Idle
    <2>4. /\ inFlight'[f].start = inFlight[f].start
          /\ inFlight'[f].end = inFlight[f].end
          /\ inFlight'[f].done = inFlight[f].done \cup {scan.key}
          /\ inFlight'[f] # NoScan
          /\ \A g \in Paths : g # f => inFlight'[g] = inFlight[g]
      BY <1>14, <2>1, <2>3, MarkAdds
    <2>5. \A g \in Paths : InFlightParse(g)' = InFlightParse(g)
      BY <2>2, <2>4 DEF InFlightParse
    <2>6. \A g \in Paths : inFlight'[g] # NoScan =>
            inFlight'[g].done \subseteq KeysIn(world', InFlightParse(g)')
      BY <1>2, <1>3, <2>3, <2>4, <2>5
    <2>7. \A g \in Paths : inFlight[g] # NoScan =>
            inFlight'[g] # NoScan /\ Accepted(g) \subseteq Accepted(g)'
      BY <2>0, <2>1, <2>4 DEF Accepted
    <2>8. \A e \in delivered : Accounted(e)'
      BY <1>11, <2>2, <2>7
    <2> QED BY <1>1, <2>2, <2>6, <2>8 DEF SinkOnlyInv
  <1>15. CASE Commit
    <2>0. scan.n \in 1..Len(FileOrder) /\ scan.pc = "deliver"
      BY <1>0, <1>15 DEF Commit, ScanOK, Idle
    <2>1. PICK f \in Paths : f = FileOrder[scan.n]
      BY <2>0, FileIsPath
    <2>2. /\ log' = log /\ delivered' = delivered
          /\ offset'[f] = inFlight[f].end /\ inFlight'[f] = NoScan
          /\ \A g \in Paths : g # f => /\ offset'[g] = offset[g]
                                       /\ inFlight'[g] = inFlight[g]
                                       /\ turnStart'[g] = turnStart[g]
      BY <1>15, <2>1 DEF Commit, logVars, sinkVars, TypeInv
    <2>3. ASSUME NEW g \in Paths, inFlight'[g] # NoScan
          PROVE  inFlight'[g].done \subseteq KeysIn(world', InFlightParse(g)')
      <3>1. g # f
        BY <2>2, <2>3
      <3>2. InFlightParse(g)' = InFlightParse(g) /\ inFlight'[g] = inFlight[g]
        BY <2>2, <3>1 DEF InFlightParse
      <3> QED BY <1>2, <1>3, <2>3, <3>2
    <2>4. ASSUME NEW e \in delivered PROVE Accounted(e)'
      <3>1. PICK g \in Paths : \E i \in 1..Len(log[g]) : AccountedAt(e, g, i)
        BY DEF SinkOnlyInv, Accounted
      <3>2. PICK i \in 1..Len(log[g]) : AccountedAt(e, g, i)
        BY <3>1
      <3>3. CASE g # f
        <4>1. Accepted(g) \subseteq Accepted(g)'
          BY <2>0, <2>2, <3>3 DEF Accepted
        <4>2. AccountedAt(e, g, i)'
          BY <2>2, <3>2, <3>3, <4>1 DEF AccountedAt
        <4> QED BY <2>2, <4>2 DEF Accounted
      <3>4. CASE g = f
        <4>0. inFlight[f] # NoScan /\ offset[f] <= inFlight[f].end
          BY <1>0, <2>0, <2>1 DEF ScanOK, LedgerOK, Idle
        <4>1. offset[f] \in Nat /\ inFlight[f].end \in Nat
          BY <4>0 DEF TypeInv, IsScan
        <4>2. CASE f \in Reparsed \/ 2 * i <= offset[f]
          <5>1. i \in Nat
            BY SizeType
          <5>2. f \in Reparsed \/ 2 * i <= offset'[f]
            BY <2>2, <4>0, <4>1, <4>2, <5>1
          <5>3. AccountedAt(e, f, i)'
            BY <2>2, <3>2, <3>4, <5>2 DEF AccountedAt
          <5> QED BY <2>2, <3>4, <5>3 DEF Accounted
        <4>3. CASE \E key \in Accepted(f) : key.kind = "events" /\ e \in key.payload
          <5>1. PICK key \in inFlight[f].done : key.kind = "events" /\ e \in key.payload
            BY <2>0, <4>3 DEF Accepted
          <5>2. key \in KeysIn(world, InFlightParse(f))
            BY <1>2, <4>0, <5>1
          <5>3. PICK j \in 1..Len(log[f]) : e.ts = log[f][j].ts /\ 2 * j <= inFlight[f].end
            BY <1>0, <4>0, <5>1, <5>2, PayloadLines
          <5>4. AccountedAt(e, f, j)'
            BY <2>2, <5>3 DEF AccountedAt
          <5> QED BY <2>2, <5>4 DEF Accounted
        <4> QED BY <3>2, <3>4, <4>2, <4>3 DEF AccountedAt
      <3> QED BY <3>3, <3>4
    <2> QED BY <1>1, <2>2, <2>3, <2>4 DEF SinkOnlyInv
  <1> QED
    BY <1>5, <1>7, <1>8, <1>9, <1>10, <1>12, <1>13, <1>14, <1>15 DEF Next, PassStep

\* Where only the sink fails, a delivered event is on a committed line, or in a
\* chunk that the ledger of its file knows.
THEOREM LedgerInvariant == Spec => []LedgerInv
  <1>1. Init => LedgerInv
    BY TypeInit, GrowInit, StampsInit DEF LedgerInv, CollectorInv
  <1>2. LedgerInv /\ [Next]_vars => LedgerInv'
    <2> SUFFICES ASSUME LedgerInv, [Next]_vars PROVE LedgerInv'
      OBVIOUS
    <2>0. world' = world
      BY WorldKept
    <2>1. TypeInv'
      BY TypeStep DEF LedgerInv, CollectorInv
    <2>2. Growing' => GrowInv'
      BY <2>0, <2>1, GrowStep DEF LedgerInv, CollectorInv, Growing, Faults
    <2>3. ASSUME SinkOnly' PROVE SinkOnlyInv'
      <3>1. SinkOnly /\ Growing
        BY <2>0, <2>3 DEF SinkOnly, Growing, Faults
      <3> QED BY <2>1, <3>1, SinkOnlyStep DEF LedgerInv, CollectorInv
    <2> QED BY <2>1, <2>2, <2>3 DEF LedgerInv, CollectorInv
  <1> QED BY <1>1, <1>2, PTL DEF Spec

\* An event of a delivery that is still owed has not been delivered before.
LEMMA OwedIsNew ==
    ASSUME LedgerInv, SinkOnly, scan.pc = "deliver", NEW key \in Owed, key.kind = "events",
           FileOrder[scan.n] \notin Reparsed, NEW e \in key.payload, e \in delivered
    PROVE  FALSE
  <1>0. /\ TypeInv /\ GrowInv /\ SinkOnlyInv /\ ScanOK /\ PassOK /\ StampsOK
        /\ \A g \in Paths : CommittedOK(g) /\ LedgerOK(g)
    <2>1. Growing
      BY DEF SinkOnly, Growing
    <2> QED BY <2>1 DEF LedgerInv, CollectorInv, TypeInv, GrowInv, SinkOnlyInv
  <1>1. PICK f \in Paths : f = FileOrder[scan.n]
    BY <1>0, FileIsPath DEF ScanOK, Idle
  <1>2. /\ inFlight[f] # NoScan /\ scan.keys = KeysIn(world, InFlightParse(f))
        /\ inFlight[f].start = offset[f]
    BY <1>0, <1>1 DEF ScanOK, PassOK, Idle, LedgerOK
  <1>3. key \in KeysIn(world, InFlightParse(f)) /\ key \notin inFlight[f].done
    BY <1>1, <1>2 DEF Owed
  <1>4. PICK j \in 1..Len(log[f]) : e.ts = log[f][j].ts /\ offset[f] < 2 * j
    BY <1>0, <1>2, <1>3, PayloadLines
  <1>5. PICK g \in Paths : \E i \in 1..Len(log[g]) : AccountedAt(e, g, i)
    BY <1>0 DEF SinkOnlyInv, Accounted
  <1>6. PICK i \in 1..Len(log[g]) : AccountedAt(e, g, i)
    BY <1>5
  <1>7. g = f /\ i = j
    <2>1. log[g][i].ts = log[f][j].ts
      BY <1>4, <1>6 DEF AccountedAt
    <2>2. \A x, y \in Paths : \A a \in 1..Len(log[x]), b \in 1..Len(log[y]) :
            log[x][a].ts = log[y][b].ts => x = y /\ a = b
      BY <1>0 DEF StampsOK
    <2> QED BY <2>1, <2>2
  <1>8. ~(2 * j <= offset[f])
    <2>1. j \in Nat /\ offset[f] \in Nat
      BY <1>0, SizeType DEF TypeInv
    <2> QED BY <1>4, <2>1
  <1>9. PICK k \in inFlight[f].done : k.kind = "events" /\ e \in k.payload
    BY <1>1, <1>6, <1>7, <1>8 DEF AccountedAt, Accepted
  <1>10. k \in KeysIn(world, InFlightParse(f))
    BY <1>0, <1>2, <1>9 DEF SinkOnlyInv
  <1> QED BY <1>3, <1>9, <1>10, KeysDisjoint

\* However often the sink refuses a batch, one that it accepted is never handed
\* over again as long as nothing but the sink fails.
THEOREM NeverRedelivers == Spec => SinkErrorsNeverRedeliver
  <1> DEFINE Again == (Faults \subseteq {"sink"} /\ scan.pc = "deliver" /\ scan'.pc = "mark"
                          /\ FileOrder[scan.n] \notin Reparsed /\ scan'.key.kind = "events")
                      => scan'.key.payload \cap delivered = {}
  <1>1. LedgerInv /\ [Next]_vars => [Again]_vars
    <2> SUFFICES ASSUME LedgerInv, Next, SinkOnly, scan.pc = "deliver", scan'.pc = "mark",
                        FileOrder[scan.n] \notin Reparsed, scan'.key.kind = "events"
                 PROVE  scan'.key.payload \cap delivered = {}
      BY DEF SinkOnly
    <2>1. Deliver
      <3>1. ScanOK
        BY DEF LedgerInv, CollectorInv, TypeInv
      <3>2. Commit => scan'.pc \in {"idle", "stat"}
        <4>1. scan.n \in 0..Len(FileOrder)
          BY <3>1, CollectorConstants DEF ScanOK, Idle
        <4> QED BY <4>1, NextFileOK DEF Commit
      <3> QED BY <3>2 DEF Next, PassStep, Write, Truncate, StartPass, Stat, ParseFile, Mark,
                          Unreadable, Interrupt, Forget, Idle
    <2>2. PICK key \in Owed : scan' = [pc |-> "mark", n |-> scan.n, resuming |-> scan.resuming,
                                       keys |-> scan.keys, key |-> key]
      BY <2>1 DEF Deliver
    <2>3. scan'.key = key
      BY <2>2
    <2>4. \A e \in key.payload : e \notin delivered
      BY <2>2, <2>3, OwedIsNew
    <2> QED BY <2>3, <2>4
  <1>2. Spec => [][Again]_vars
    BY <1>1, LedgerInvariant, PTL DEF Spec
  <1> QED BY <1>2 DEF SinkErrorsNeverRedeliver

-----------------------------------------------------------------------------
(* Files that are cut.                                                      *)

\* A step does not move the end of the file over n, and keeps the lines before
\* n, unless the next pass sees the file shorter than n.
KeptAt(g, n) ==
    /\ Size(g)' < n => g \in unseen'
    /\ n <= Size(g)' =>
        /\ n <= Size(g)
        /\ \A i \in 1..Len(log'[g]) : 2 * i <= n => /\ i \in 1..Len(log[g])
                                                    /\ log'[g][i] = log[g][i]

\* What the marks of a file rely on: a file that is shorter has been cut.
Noticed(g, n) == Size(g) < n => g \in unseen

LEMMA LineStaysTold ==
    ASSUME SinksGrow, NEW line, LineTold(line)
    PROVE  LineTold(line)'
  BY DEF SinksGrow, LineTold, InWindow

LEMMA SoundNotices ==
    ASSUME TypeInv, NEW g \in Paths, Sound(g)
    PROVE  Noticed(g, offset[g])
  <1>1. offset[g] \in Nat /\ Size(g) \in Nat
    BY SizeType DEF TypeInv
  <1> QED BY <1>1 DEF Sound, Noticed

LEMMA SoundKept ==
    ASSUME TypeInv, TypeInv', NEW g \in Paths, Sound(g), SinksGrow,
           offset'[g] = offset[g], KeptAt(g, offset[g])
    PROVE  Sound(g)'
  <1>1. offset[g] \in Nat /\ Size(g) \in Nat /\ Size(g)' \in Nat
    BY SizeType, SizeTypeNext DEF TypeInv
  <1>2. CASE Size(g)' < offset[g]
    BY <1>2 DEF KeptAt, Sound
  <1>3. CASE offset[g] <= Size(g)'
    <2>1. offset[g] <= Size(g)
      BY <1>3 DEF KeptAt
    <2>2. Reached(g, offset[g])
      BY <1>1, <2>1 DEF Sound
    <2>3. ASSUME NEW i \in 1..Len(log'[g]), 2 * i <= offset[g] PROVE LineTold(log[g][i])'
      <3>1. i \in 1..Len(log[g]) /\ log'[g][i] = log[g][i]
        BY <1>3, <2>3 DEF KeptAt
      <3>2. LineTold(log[g][i])
        BY <2>2, <2>3, <3>1 DEF Reached
      <3>3. PICK line : line = log[g][i]
        OBVIOUS
      <3>4. LineTold(line)'
        BY <3>2, <3>3, LineStaysTold
      <3> QED BY <3>1, <3>3, <3>4
    <2>4. Reached(g, offset[g])'
      BY <2>3 DEF Reached
    <2>5. (offset[g] <= Size(g))'
      BY <1>3
    <2> QED BY <2>4, <2>5 DEF Sound
  <1> QED BY <1>1, <1>2, <1>3

\* A file whose ledger a step leaves alone or adds to.
LEMMA CutKept ==
    ASSUME TypeInv, TypeInv', NEW g \in Paths, CutOK(g), SinksGrow,
           Len(log'[g]) = 0 => Len(log[g]) = 0,
           offset'[g] = offset[g], chunks'[g] = chunks[g],
           inFlight'[g].start = inFlight[g].start,
           inFlight'[g].end = inFlight[g].end,
           inFlight'[g] = NoScan <=> inFlight[g] = NoScan,
           inFlight'[g] # NoScan => \A key \in inFlight'[g].done : Handed(key),
           Looking(g) => Looking(g)',
           \A n \in Marks(g) : Noticed(g, n) => KeptAt(g, n)
    PROVE  CutOK(g)' /\ (Sound(g) => Sound(g)')
  <1>1. Sound(g) => Sound(g)'
    <2> SUFFICES ASSUME Sound(g) PROVE Sound(g)'
      OBVIOUS
    <2>1. KeptAt(g, offset[g])
      BY SoundNotices DEF Marks
    <2> QED BY <2>1, SoundKept
  <1>2. \A key : Handed(key) => Handed(key)'
    BY DEF Handed, SinksGrow
  <1>3. \A key \in chunks'[g] : Handed(key)'
    BY <1>2 DEF CutOK
  <1>4. (inFlight'[g] = NoScan /\ ~Looking(g)') => Sound(g)'
    BY <1>1 DEF CutOK
  <1>5. ASSUME inFlight'[g] # NoScan
        PROVE  /\ inFlight'[g].end < offset'[g] \/ Sound(g)'
               /\ Size(g)' < inFlight'[g].end => g \in unseen'
               /\ \A key \in inFlight'[g].done : Handed(key)'
    <2>1. KeptAt(g, inFlight[g].end)
      BY <1>5 DEF CutOK, Noticed, Marks
    <2>2. Size(g)' < inFlight'[g].end => g \in unseen'
      BY <2>1 DEF KeptAt
    <2>3. \A key \in inFlight'[g].done : Handed(key)'
      BY <1>2, <1>5
    <2> QED BY <1>1, <1>5, <2>2, <2>3 DEF CutOK
  <1>6. /\ Len(log'[g]) = 0 => offset'[g] = 0 /\ inFlight'[g].end = 0
        /\ Even(offset'[g])
        /\ inFlight'[g] # NoScan =>
            /\ Even(inFlight'[g].end)
            /\ inFlight'[g].start = 0 \/ inFlight'[g].start = offset'[g]
            /\ inFlight'[g].start <= inFlight'[g].end
    BY DEF CutOK
  <1>7. CutOK(g)'
    BY <1>3, <1>4, <1>5, <1>6 DEF CutOK
  <1> QED BY <1>1, <1>7

\* Most steps leave the file itself alone too.
LEMMA SameFileKept ==
    ASSUME TypeInv, NEW g \in Paths, log'[g] = log[g], partial'[g] = partial[g],
           g \in unseen => g \in unseen', NEW n \in Marks(g), Noticed(g, n)
    PROVE  KeptAt(g, n)
  <1>1. Size(g)' = Size(g)
    BY DEF Size
  <1>2. \A i \in 1..Len(log'[g]) : i \in 1..Len(log[g]) /\ log'[g][i] = log[g][i]
    OBVIOUS
  <1> QED BY <1>1, <1>2 DEF KeptAt, Noticed

LEMMA MarksType ==
    ASSUME TypeInv, NEW g \in Paths, NEW n \in Marks(g)
    PROVE  n \in Nat
  <1>1. offset[g] \in Nat
    BY DEF TypeInv
  <1>2. inFlight[g].end \in Nat
    <2>1. CASE inFlight[g] = NoScan
      BY <2>1 DEF NoScan
    <2>2. CASE inFlight[g] # NoScan
      BY <2>2 DEF TypeInv, IsScan
    <2> QED BY <2>1, <2>2
  <1> QED BY <1>1, <1>2 DEF Marks

\* A tool that writes on: a file that was cut below a mark stays below it until
\* a pass sees it.
LEMMA WriteKeeps ==
    ASSUME TypeInv, TypeInv', NEW f \in Paths, Write(f), NEW g \in Paths,
           NEW n \in Marks(g), Noticed(g, n)
    PROVE  KeptAt(g, n)
  <1>0. n \in Nat
    BY MarksType
  <1>1. /\ Len(log[g]) \in Nat /\ Size(g) \in Nat
        /\ 2 * Len(log[g]) <= Size(g) /\ Size(g) <= 2 * Len(log[g]) + 1
    BY SizeType
  <1>2. Len(log'[g]) \in Nat /\ Size(g)' \in Nat
    BY SizeTypeNext
  <1>3. Size(g) <= Size(g)' /\ Size(g)' <= Size(g) + 2
    BY WriteSize
  <1>4. unseen' = unseen
    BY DEF Write
  <1>5. CASE g # f
    <2>1. log'[g] = log[g] /\ partial'[g] = partial[g]
      BY <1>5 DEF Write, TypeInv
    <2> QED BY <1>4, <2>1, SameFileKept
  <1>6. CASE g = f
    <2>1. f \in unseen => (Size(f) < n => Size(f) + 2 < n)
      BY <1>6 DEF Write
    <2>2. Size(g)' < n => g \in unseen'
      BY <1>0, <1>1, <1>2, <1>3, <1>4 DEF Noticed
    <2>3. ASSUME n <= Size(g)'
          PROVE  /\ n <= Size(g)
                 /\ \A i \in 1..Len(log'[g]) : 2 * i <= n => /\ i \in 1..Len(log[g])
                                                             /\ log'[g][i] = log[g][i]
      <3>1. n <= Size(g)
        BY <1>0, <1>1, <1>2, <1>3, <1>6, <2>1, <2>3 DEF Noticed
      <3>2. ASSUME NEW i \in 1..Len(log'[g]), 2 * i <= n PROVE i \in 1..Len(log[g])
        <4>1. 2 * i <= 2 * Len(log[g]) + 1 /\ i \in Nat
          BY <1>0, <1>1, <1>2, <3>1, <3>2
        <4> QED BY <1>1, <1>2, <4>1
      <3>3. Extends(g)
        BY WriteExtends
      <3> QED BY <3>1, <3>2, <3>3 DEF Extends
    <2> QED BY <2>2, <2>3 DEF KeptAt
  <1> QED BY <1>5, <1>6

\* The lines a cut leaves.
LEMMA TruncateIs ==
    ASSUME TypeInv, NEW f \in Paths, Truncate(f)
    PROVE  \E k \in Nat :
             /\ KeptLines <= k /\ k < Len(log[f])
             /\ Len(log'[f]) = k /\ \A i \in 1..k : log'[f][i] = log[f][i]
             /\ Size(f)' = 2 * k
             /\ unseen' = IF \E m \in Marks(f) : 2 * k < m THEN unseen \cup {f} ELSE unseen
             /\ \A g \in Paths : g # f => log'[g] = log[g] /\ partial'[g] = partial[g]
  <1>1. PICK k \in KeptLines..(Len(log[f]) - 1) :
            /\ log' = [log EXCEPT ![f] = SubSeq(@, 1, k)]
            /\ unseen' = IF \E m \in Marks(f) : 2 * k < m THEN unseen \cup {f} ELSE unseen
    BY DEF Truncate
  <1>2. KeptLines \in Nat /\ Len(log[f]) \in Nat
    BY CollectorConstants, SizeType
  <1>3. k \in Nat /\ KeptLines <= k /\ k < Len(log[f])
    BY <1>1, <1>2
  <1>4. log'[f] = SubSeq(log[f], 1, k) /\ ~partial'[f]
    BY <1>1 DEF Truncate, TypeInv
  <1>5. Len(log'[f]) = k /\ \A i \in 1..k : log'[f][i] = log[f][i]
    <2>1. log[f] \in Seq(Line)
      BY DEF TypeInv
    <2>2. \A i \in 1..k : log[f][i] \in Line
      BY <1>2, <1>3, <2>1
    <2>3. 1 \in Int /\ k \in Int
      BY <1>3
    <2>4. /\ Len(SubSeq(log[f], 1, k)) = IF 1 <= k THEN k - 1 + 1 ELSE 0
          /\ \A i \in 1 .. k - 1 + 1 : SubSeq(log[f], 1, k)[i] = log[f][1 + i - 1]
      BY <2>2, <2>3, SubSeqProperties
    <2>5. \A i \in 1..k : i \in 1 .. k - 1 + 1 /\ 1 + i - 1 = i
      BY <1>3
    <2> QED BY <1>3, <1>4, <2>4, <2>5
  <1>6. Size(f)' = 2 * k
    <2>1. Size(f)' = 2 * Len(log'[f]) + 0
      BY <1>4 DEF Size
    <2> QED BY <1>3, <1>5, <2>1
  <1>7. \A g \in Paths : g # f => log'[g] = log[g] /\ partial'[g] = partial[g]
    BY DEF Truncate, TypeInv
  <1> QED BY <1>1, <1>3, <1>5, <1>6, <1>7

\* A cut that goes below a mark is one the next pass looks for.
LEMMA TruncateKeeps ==
    ASSUME TypeInv, TypeInv', NEW f \in Paths, Truncate(f), NEW g \in Paths,
           NEW n \in Marks(g), Noticed(g, n)
    PROVE  KeptAt(g, n)
  <1>0. n \in Nat
    BY MarksType
  <1>1. Len(log[g]) \in Nat /\ Size(g) \in Nat /\ 2 * Len(log[g]) <= Size(g)
    BY SizeType
  <1>2. PICK k \in Nat :
             /\ k < Len(log[f])
             /\ Len(log'[f]) = k /\ \A i \in 1..k : log'[f][i] = log[f][i]
             /\ Size(f)' = 2 * k
             /\ unseen' = IF \E m \in Marks(f) : 2 * k < m THEN unseen \cup {f} ELSE unseen
             /\ \A h \in Paths : h # f => log'[h] = log[h] /\ partial'[h] = partial[h]
    BY TruncateIs
  <1>3. CASE g # f
    <2>1. log'[g] = log[g] /\ partial'[g] = partial[g]
      BY <1>2, <1>3
    <2>2. g \in unseen => g \in unseen'
      BY <1>2
    <2> QED BY <2>1, <2>2, SameFileKept
  <1>4. CASE g = f
    <2>1. Size(g)' < n => g \in unseen'
      BY <1>2, <1>4
    <2>2. ASSUME n <= Size(g)'
          PROVE  /\ n <= Size(g)
                 /\ \A i \in 1..Len(log'[g]) : 2 * i <= n => /\ i \in 1..Len(log[g])
                                                             /\ log'[g][i] = log[g][i]
      <3>1. n <= Size(g)
        BY <1>0, <1>1, <1>2, <1>4, <2>2
      <3>2. \A i \in 1..Len(log'[g]) : i \in 1..Len(log[g])
        BY <1>1, <1>2, <1>4
      <3> QED BY <1>2, <1>4, <3>1, <3>2
    <2> QED BY <2>1, <2>2 DEF KeptAt
  <1> QED BY <1>3, <1>4

\* An unfinished scan is a parse of the same lines as before.
LEMMA KeptScan ==
    ASSUME TypeInv, TypeInv', NEW g \in Paths, CutOK(g), inFlight[g] # NoScan,
           inFlight'[g].start = inFlight[g].start, inFlight'[g].end = inFlight[g].end,
           turnStart'[g] = turnStart[g],
           KeptAt(g, inFlight[g].end), inFlight[g].end <= Size(g)'
    PROVE  inFlight[g].end <= Size(g) /\ InFlightParse(g)' = InFlightParse(g)
  <1> DEFINE s == inFlight[g].start
             e == inFlight[g].end
             L == log[g]
             M == log'[g]
  <1>1. /\ s \in Nat /\ e \in Nat /\ L \in Seq(Line) /\ M \in Seq(Line)
        /\ Len(L) \in Nat /\ Len(M) \in Nat /\ offset[g] \in Nat
    BY DEF TypeInv, IsScan
  <1>2. /\ Size(g) \in Nat /\ Size(g)' \in Nat
        /\ Size(g) <= 2 * Len(L) + 1 /\ Size(g)' <= 2 * Len(M) + 1
    BY SizeType, SizeTypeNext
  <1>3. Even(e) /\ Even(offset[g]) /\ s <= e /\ (s = 0 \/ s = offset[g])
    BY DEF CutOK
  <1>4. Even(s)
    BY <1>3, EvenZero
  <1>5. e <= Size(g) /\ \A i \in 1..Len(M) : 2 * i <= e => i \in 1..Len(L) /\ M[i] = L[i]
    BY DEF KeptAt
  <1> HIDE DEF s, e, L, M
  <1>6. PICK b \in Nat : e = 2 * b /\ b = e \div 2
    BY <1>1, <1>3 DEF Even
  <1>7. b <= Len(L) /\ b <= Len(M)
    <2>1. 2 * b <= 2 * Len(L) + 1 /\ 2 * b <= 2 * Len(M) + 1
      BY <1>1, <1>2, <1>5, <1>6 DEF e
    <2> QED BY <1>1, <2>1
  <1>8. \A i \in 1..(e \div 2) : L[i] = M[i]
    <2> SUFFICES ASSUME NEW i \in 1..b PROVE L[i] = M[i]
      BY <1>6
    <2>1. i \in 1..Len(M) /\ 2 * i <= e
      BY <1>1, <1>6, <1>7
    <2> QED BY <1>5, <2>1
  <1>9. e <= 2 * Len(L) /\ e <= 2 * Len(M)
    BY <1>1, <1>6, <1>7
  <1>10. Piece(L, s, e) = Piece(M, s, e)
    BY <1>1, <1>3, <1>4, <1>8, <1>9, SamePiece
  <1>11. InFlightParse(g)' = InFlightParse(g)
    BY <1>10 DEF InFlightParse, s, e, L, M
  <1> QED BY <1>5, <1>11 DEF e

LEMMA CutQuiet ==
    ASSUME scan'.pc \in {"idle", "stat"}
    PROVE  CutPassOK'
  BY DEF CutPassOK

\* The log files change under the pass.
LEMMA CutEnvironment ==
    ASSUME TypeInv, TypeInv', Cutting, CutInv, NEW f \in Paths, Write(f) \/ Truncate(f)
    PROVE  CutInv'
  <1>1. UNCHANGED stateVars /\ scan' = scan /\ delivered' = delivered /\ quotas' = quotas
          /\ world' = world
    BY DEF Write, Truncate, sinkVars
  <1>2. /\ offset' = offset /\ inFlight' = inFlight /\ chunks' = chunks
        /\ turnStart' = turnStart /\ SinksGrow
    BY <1>1 DEF stateVars, SinksGrow
  <1>3. ASSUME NEW g \in Paths, NEW n \in Marks(g), Noticed(g, n) PROVE KeptAt(g, n)
    BY <1>3, WriteKeeps, TruncateKeeps
  <1>4. ASSUME NEW g \in Paths PROVE Len(log'[g]) = 0 => Len(log[g]) = 0
    <2>1. CASE Write(f)
      <3>1. Extends(g) /\ Len(log[g]) \in Nat /\ Len(log'[g]) \in Nat
        BY <2>1, WriteExtends, SizeType, SizeTypeNext
      <3> QED BY <3>1 DEF Extends
    <2>2. CASE Truncate(f)
      <3>1. KeptLines > 0 /\ KeptLines \in Nat
        BY CollectorConstants DEF Cutting
      <3>2. PICK k \in Nat :
                /\ KeptLines <= k /\ Len(log'[f]) = k
                /\ \A h \in Paths : h # f => log'[h] = log[h] /\ partial'[h] = partial[h]
        BY <2>2, TruncateIs
      <3>3. Len(log'[f]) # 0
        BY <3>1, <3>2
      <3> QED BY <3>2, <3>3
    <2> QED BY <2>1, <2>2
  <1>5. ASSUME NEW g \in Paths
        PROVE  CutOK(g)' /\ (Sound(g) => Sound(g)')
    <2>1. CutOK(g)
      BY DEF CutInv
    <2>2. inFlight[g] # NoScan => \A key \in inFlight[g].done : Handed(key)
      BY <2>1 DEF CutOK
    <2>3. Looking(g) => Looking(g)'
      BY <1>1 DEF Looking
    <2> QED BY <1>2, <1>3, <1>4, <2>1, <2>2, <2>3, CutKept
  <1>6. CutPassOK'
    <2>1. CASE scan = Idle
      BY <1>1, <2>1, CutQuiet DEF Idle
    <2>2. CASE scan # Idle
      <3>1. PICK g \in Paths : g = FileOrder[scan.n]
        BY <2>2, FileIsPath DEF TypeInv, ScanOK
      <3>2. CutOK(g) /\ (Sound(g) => Sound(g)') /\ g = FileOrder[scan'.n]
        BY <1>1, <1>5, <3>1 DEF CutInv
      <3>3. scan.pc = "parse" =>
                \/ scan.resuming
                \/ scan.start = 0 /\ scan.end < offset[g]
                \/ Sound(g) /\ scan.start = 0
                \/ Sound(g) /\ scan.start = offset[g] /\ offset[g] <= scan.end
        BY <3>1 DEF CutInv, CutPassOK
      <3>4. ASSUME scan.pc \in {"deliver", "mark"}, inFlight[g].end <= Size(g)'
            PROVE  scan.keys = KeysIn(world', InFlightParse(g)')
        <4>1. inFlight[g] # NoScan
          BY <3>1, <3>4 DEF TypeInv, ScanOK, Idle
        <4>2. Noticed(g, inFlight[g].end)
          BY <3>2, <4>1 DEF CutOK, Noticed
        <4>3. KeptAt(g, inFlight[g].end)
          BY <1>3, <4>2 DEF Marks
        <4>4. inFlight[g].end <= Size(g) /\ InFlightParse(g)' = InFlightParse(g)
          BY <1>2, <3>2, <3>4, <4>1, <4>3, KeptScan
        <4>5. scan.keys = KeysIn(world, InFlightParse(g))
          BY <3>1, <3>4, <4>4 DEF CutInv, CutPassOK
        <4> QED BY <1>1, <4>4, <4>5
      <3>5. scan.pc = "mark" => Handed(scan.key)'
        BY <1>1 DEF CutInv, CutPassOK, Handed
      <3> QED BY <1>1, <1>2, <3>2, <3>3, <3>4, <3>5 DEF CutPassOK
    <2> QED BY <2>1, <2>2
  <1> QED BY <1>5, <1>6 DEF CutInv

\* Steps that leave the log files and the state file of g alone.
LEMMA CutAside ==
    ASSUME TypeInv, TypeInv', NEW g \in Paths, CutOK(g), SinksGrow,
           log' = log, partial' = partial, g \in unseen => g \in unseen',
           offset'[g] = offset[g], chunks'[g] = chunks[g], inFlight'[g] = inFlight[g],
           Looking(g) => Looking(g)'
    PROVE  CutOK(g)' /\ (Sound(g) => Sound(g)')
  <1>1. inFlight[g] # NoScan => \A key \in inFlight[g].done : Handed(key)
    BY DEF CutOK
  <1>2. \A n \in Marks(g) : Noticed(g, n) => KeptAt(g, n)
    BY SameFileKept
  <1> QED BY <1>1, <1>2, CutKept

\* A pass looks at the size of f: from now on the cut is dealt with.
LEMMA CutStat ==
    ASSUME TypeInv, TypeInv', CutInv, Stat
    PROVE  CutInv'
  <1>0. scan.pc = "stat" /\ scan.n \in 1..Len(FileOrder) /\ scan.n \in 0..Len(FileOrder)
    <2>1. scan.pc = "stat" /\ ScanOK
      BY DEF Stat, TypeInv
    <2> QED BY <2>1, CollectorConstants DEF ScanOK, Idle
  <1>1. PICK f \in Paths : f = FileOrder[scan.n]
    BY <1>0, FileIsPath
  <1>2. /\ log' = log /\ partial' = partial /\ offset' = offset /\ turnStart' = turnStart
        /\ unseen' = unseen \ {f} /\ SinksGrow
        /\ inFlight' = IF Shrunk(f) THEN [inFlight EXCEPT ![f] = NoScan] ELSE inFlight
        /\ chunks' = IF Shrunk(f) THEN [chunks EXCEPT ![f] = {}] ELSE chunks
    BY <1>1 DEF Stat, sinkVars, SinksGrow
  <1> DEFINE p == inFlight[f] # NoScan /\ ~Shrunk(f)
             from == ReadFrom(f)
             st == IF p THEN inFlight[f].start ELSE IF f \in Reparsed THEN 0 ELSE from
             en == IF p THEN inFlight[f].end ELSE Size(f)
  <1>3. scan' = IF ~p /\ Size(f) = from THEN NextFile(scan.n)
                ELSE [pc |-> "parse", n |-> scan.n, resuming |-> p, start |-> st, end |-> en]
    BY <1>1 DEF Stat
  <1>4. /\ Size(f) \in Nat /\ Len(log[f]) \in Nat /\ 2 * Len(log[f]) <= Size(f)
        /\ offset[f] \in Nat /\ inFlight[f].end \in Nat
    <2>1. inFlight[f].end \in Nat
      BY MarksType DEF Marks
    <2> QED BY <2>1, SizeType DEF TypeInv
  <1>5. CutOK(f) /\ ~Looking(f)
    BY <1>0 DEF CutInv, Looking
  <1> HIDE DEF from, st, en, p
  <1>6. (offset[f] <= Size(f) /\ ~p) => Reached(f, offset[f])
    <2> SUFFICES ASSUME offset[f] <= Size(f), ~p PROVE Reached(f, offset[f])
      OBVIOUS
    <2>1. Sound(f)
      <3>1. CASE inFlight[f] = NoScan
        BY <1>5, <3>1 DEF CutOK
      <3>2. CASE inFlight[f] # NoScan
        <4>1. Size(f) < inFlight[f].end
          BY <1>4, <3>2 DEF p, Shrunk
        <4>2. ~(inFlight[f].end < offset[f])
          BY <1>4, <4>1
        <4> QED BY <1>5, <3>2, <4>2 DEF CutOK
      <3> QED BY <3>1, <3>2
    <2> QED BY <1>4, <2>1 DEF Sound
  <1>7. Size(f)' = Size(f) /\ (\A n : Reached(f, n) => Reached(f, n)')
    <2>1. Size(f)' = Size(f)
      BY <1>2 DEF Size
    <2>2. ASSUME NEW n, Reached(f, n) PROVE Reached(f, n)'
      <3>1. ASSUME NEW i \in 1..Len(log[f]), 2 * i <= n PROVE LineTold(log[f][i])'
        <4>1. PICK line : line = log[f][i]
          OBVIOUS
        <4>2. LineTold(line)
          BY <2>2, <3>1, <4>1 DEF Reached
        <4>3. LineTold(line)'
          BY <1>2, <4>2, LineStaysTold
        <4> QED BY <1>2, <4>1, <4>3
      <3> QED BY <1>2, <3>1 DEF Reached
    <2> QED BY <2>1, <2>2
  <1>8. (offset[f] <= Size(f) /\ Reached(f, offset[f])) => Sound(f)'
    BY <1>2, <1>7 DEF Sound
  <1>9. ~p => inFlight'[f] = NoScan
    BY <1>2 DEF p, TypeInv
  <1>10. p => inFlight'[f] = inFlight[f] /\ inFlight[f] # NoScan
    BY <1>2 DEF p
  \* An empty file has no offset, so a cut file is never passed by.
  <1>11. Size(f) < offset[f] => Size(f) # from
    <2> SUFFICES ASSUME Size(f) < offset[f] PROVE Size(f) # 0
      BY DEF from, ReadFrom
    <2>1. Len(log[f]) # 0
      BY <1>4, <1>5 DEF CutOK
    <2> QED BY <1>4, <2>1
  <1>12. scan' = NextFile(scan.n) \/
           /\ scan'.pc = "parse" /\ scan'.n = scan.n /\ scan'.resuming = p
           /\ scan'.start = st /\ scan'.end = en
    BY <1>3
  <1>13. CutOK(f)'
    <2>1. \A key \in chunks'[f] : Handed(key)'
      <3>1. \A key \in chunks[f] : Handed(key)
        BY <1>5 DEF CutOK
      <3>2. \A key : Handed(key) => Handed(key)'
        BY <1>2 DEF Handed, SinksGrow
      <3>3. chunks'[f] = {} \/ chunks'[f] = chunks[f]
        BY <1>2 DEF TypeInv
      <3> QED BY <3>1, <3>2, <3>3
    <2>2. ASSUME inFlight'[f] = NoScan, ~Looking(f)' PROVE Sound(f)'
      <3>1. ~p
        BY <1>10, <2>2
      <3>2. Size(f) = from
        <4> SUFFICES ASSUME Size(f) # from PROVE FALSE
          OBVIOUS
        <4>1. scan'.pc = "parse" /\ scan'.n = scan.n /\ scan'.resuming = p
          BY <1>3, <3>1
        <4> QED BY <1>1, <2>2, <3>1, <4>1 DEF Looking
      <3>3. offset[f] <= Size(f)
        BY <1>4, <1>11, <3>2
      <3> QED BY <1>6, <1>8, <3>1, <3>3
    <2>3. ASSUME inFlight'[f] # NoScan
          PROVE  /\ inFlight'[f].end < offset'[f] \/ Sound(f)'
                 /\ Size(f)' < inFlight'[f].end => f \in unseen'
                 /\ \A key \in inFlight'[f].done : Handed(key)'
      <3>1. p /\ inFlight'[f] = inFlight[f] /\ inFlight[f] # NoScan
        BY <1>9, <1>10, <2>3
      <3>2. ~(Size(f) < offset[f]) /\ ~(Size(f) < inFlight[f].end)
        BY <3>1 DEF p, Shrunk
      <3>3. Sound(f) => Sound(f)'
        BY <1>4, <1>8, <3>2 DEF Sound
      <3>4. \A key \in inFlight[f].done : Handed(key)'
        <4>1. \A key \in inFlight[f].done : Handed(key)
          BY <1>5, <3>1 DEF CutOK
        <4> QED BY <1>2, <4>1 DEF Handed, SinksGrow
      <3> QED BY <1>2, <1>5, <1>7, <3>1, <3>2, <3>3, <3>4 DEF CutOK
    <2>4. Len(log'[f]) = 0 => offset'[f] = 0 /\ inFlight'[f].end = 0
      <3>1. inFlight'[f] = NoScan \/ inFlight'[f] = inFlight[f]
        BY <1>9, <1>10
      <3> QED BY <1>2, <1>5, <3>1 DEF CutOK, NoScan
    <2>5. Even(offset'[f])
      BY <1>2, <1>5 DEF CutOK
    <2>6. inFlight'[f] # NoScan =>
            /\ Even(inFlight'[f].end)
            /\ inFlight'[f].start = 0 \/ inFlight'[f].start = offset'[f]
            /\ inFlight'[f].start <= inFlight'[f].end
      BY <1>2, <1>5, <1>9, <1>10 DEF CutOK
    <2> QED BY <2>1, <2>2, <2>3, <2>4, <2>5, <2>6 DEF CutOK
  <1>14. ASSUME NEW g \in Paths, g # f PROVE CutOK(g)'
    <2>1. CutOK(g) /\ (g \in unseen => g \in unseen') /\ offset'[g] = offset[g]
      BY <1>2, <1>14 DEF CutInv
    <2>2. chunks'[g] = chunks[g] /\ inFlight'[g] = inFlight[g]
      BY <1>2, <1>14 DEF TypeInv
    <2>3. ~Looking(g)
      BY <1>0 DEF Looking
    <2> QED BY <1>2, <2>1, <2>2, <2>3, CutAside
  <1>15. CutPassOK'
    <2>1. CASE scan' = NextFile(scan.n)
      BY <1>0, <2>1, NextFileOK, CutQuiet
    <2>2. CASE scan' # NextFile(scan.n)
      <3>1. /\ scan'.pc = "parse" /\ FileOrder[scan'.n] = f /\ scan'.resuming = p
            /\ scan'.start = st /\ scan'.end = en
        BY <1>1, <1>12, <2>2
      <3>2. CASE p
        BY <3>1, <3>2 DEF CutPassOK
      <3>3. CASE ~p /\ Size(f) < offset[f]
        <4>1. st = 0 /\ en = Size(f)
          BY <3>3 DEF st, en, from, ReadFrom
        <4> QED BY <1>2, <3>1, <3>3, <4>1 DEF CutPassOK
      <3>4. CASE ~p /\ offset[f] <= Size(f)
        <4>1. (st = 0 \/ st = offset[f]) /\ en = Size(f)
          BY <1>4, <3>4 DEF st, en, from, ReadFrom
        <4>2. Sound(f)'
          BY <1>6, <1>8, <3>4
        <4> QED BY <1>2, <3>1, <3>4, <4>1, <4>2 DEF CutPassOK
      <3> QED BY <1>4, <3>2, <3>3, <3>4
    <2> QED BY <2>1, <2>2
  <1> QED BY <1>13, <1>14, <1>15 DEF CutInv

\* Where a parse that is given a range ends.
Stop(L, s, z) == s + 2 * Len(Piece(L, s, z))

\* The piece a parse consumed is the piece up to where it ended.
LEMMA ConsumedPiece ==
    ASSUME NEW L \in Seq(Line), NEW s \in Nat, NEW z \in Nat, Even(s)
    PROVE  /\ Stop(L, s, z) \in Nat /\ Even(Stop(L, s, z)) /\ s <= Stop(L, s, z)
           /\ Piece(L, s, Stop(L, s, z)) = Piece(L, s, z)
           /\ (Stop(L, s, z) <= 2 * Len(L) /\ Stop(L, s, z) <= z) \/ Stop(L, s, z) = s
  <1> DEFINE e == Stop(L, s, z)
  <1>0. e = s + 2 * Len(Piece(L, s, z))
    BY DEF Stop
  <1> HIDE DEF e
  <1> SUFFICES /\ e \in Nat /\ Even(e) /\ s <= e
               /\ Piece(L, s, e) = Piece(L, s, z)
               /\ (e <= 2 * Len(L) /\ e <= z) \/ e = s
    BY DEF e
  <1> DEFINE m == Min({z \div 2, Len(L)})
  <1>1. Len(L) \in Nat /\ z \div 2 \in Nat
    OBVIOUS
  <1>2. m = IF z \div 2 <= Len(L) THEN z \div 2 ELSE Len(L)
    BY <1>1, MinOfTwo
  <1>3. m \in Nat /\ m <= Len(L) /\ 2 * m <= z
    BY <1>1, <1>2
  <1>4. PICK a \in Nat : a = s \div 2 /\ s = 2 * a
    BY DEF Even
  <1>5. Piece(L, s, z) = SubSeq(L, a + 1, m)
    BY <1>4 DEF Piece
  <1> HIDE DEF m
  <1>6. /\ Len(SubSeq(L, a + 1, m)) = IF a + 1 <= m THEN m - (a + 1) + 1 ELSE 0
        /\ SubSeq(L, a + 1, m) \in Seq(Line)
    <2>1. \A i \in (a + 1)..m : L[i] \in Line
      BY <1>1, <1>3
    <2>2. a + 1 \in Int /\ m \in Int
      BY <1>3
    <2> QED BY <2>1, <2>2, SubSeqProperties
  <1>7. CASE a <= m
    <2>1. e = 2 * m
      <3>1. Len(SubSeq(L, a + 1, m)) = m - a
        BY <1>3, <1>6, <1>7
      <3>2. e = 2 * a + 2 * (m - a)
        BY <1>0, <1>4, <1>5, <3>1
      <3> QED BY <1>3, <3>2
    <2>2. e \in Nat /\ e \div 2 = m /\ e = 2 * (e \div 2)
      BY <1>3, <2>1
    <2>3. Min({m, Len(L)}) = m
      BY <1>1, <1>3, MinOfTwo
    <2>4. Piece(L, s, e) = SubSeq(L, a + 1, m)
      BY <1>4, <2>2, <2>3 DEF Piece
    <2>5. Even(e)
      BY <2>2 DEF Even
    <2>6. s <= e /\ e <= 2 * Len(L) /\ e <= z
      BY <1>1, <1>3, <1>4, <1>7, <2>1
    <2> QED BY <1>5, <2>2, <2>4, <2>5, <2>6
  <1>8. CASE m < a
    <2>1. Len(SubSeq(L, a + 1, m)) = 0
      BY <1>3, <1>6, <1>8
    <2>2. e = s
      <3>1. Len(Piece(L, s, z)) = 0
        BY <1>5, <2>1
      <3> QED BY <1>0, <3>1
    <2> DEFINE q == Min({a, Len(L)})
    <2>3. q = (IF a <= Len(L) THEN a ELSE Len(L))
      BY <1>1, MinOfTwo
    <2>4. q \in Nat /\ q <= a /\ q <= Len(L)
      BY <1>1, <2>3
    <2>5. Piece(L, s, e) = SubSeq(L, a + 1, q)
      BY <1>4, <2>2 DEF Piece
    <2> HIDE DEF q
    <2>6. Len(SubSeq(L, a + 1, q)) = 0 /\ SubSeq(L, a + 1, q) \in Seq(Line)
      <3>1. \A i \in (a + 1)..q : L[i] \in Line
        BY <2>4
      <3>2. a + 1 \in Int /\ q \in Int /\ ~(a + 1 <= q)
        BY <2>4
      <3> QED BY <3>1, <3>2, SubSeqProperties
    <2>7. SubSeq(L, a + 1, q) = SubSeq(L, a + 1, m)
      BY <1>6, <2>1, <2>6, EmptySeq
    <2>8. Piece(L, s, e) = Piece(L, s, z)
      BY <1>5, <2>5, <2>7
    <2> QED BY <2>2, <2>8
  <1> QED BY <1>3, <1>7, <1>8

LEMMA SoundSame ==
    ASSUME NEW f, Sound(f), log' = log, partial' = partial, unseen' = unseen, world' = world,
           offset'[f] = offset[f], delivered' = delivered, quotas' = quotas
    PROVE  Sound(f)'
  <1>1. Size(f)' = Size(f)
    BY DEF Size
  <1>2. Reached(f, offset[f]) => Reached(f, offset[f])'
    BY DEF Reached, LineTold, InWindow
  <1> QED BY <1>1, <1>2 DEF Sound

\* A scan begins: the file may have been cut since the pass looked at its size.
LEMMA CutBegin ==
    ASSUME TypeInv, TypeInv', CutInv, ParseFile, ~scan.resuming,
           NEW f \in Paths, f = FileOrder[scan.n]
    PROVE  /\ CutOK(f)'
           /\ scan'.pc = "deliver" /\ scan'.n = scan.n
           /\ scan'.keys = KeysIn(world', InFlightParse(f)')
  <1> DEFINE s == scan.start
             z == scan.end
             o == offset[f]
             L == log[f]
             Q == Piece(L, s, z)
             e == s + 2 * Len(Q)
             res == Parse(f, s, z, turnStart[f])
  <1>1. scan.pc = "parse" /\ s \in Nat /\ z \in Nat /\ o \in Nat
    BY DEF ParseFile, TypeInv, ScanOK, Idle
  <1>2. /\ L \in Seq(Line) /\ Len(L) \in Nat /\ Size(f) \in Nat
        /\ 2 * Len(L) <= Size(f)
    BY SizeType DEF TypeInv
  <1>3. \/ s = 0 /\ z < o
        \/ Sound(f) /\ s = 0
        \/ Sound(f) /\ s = o /\ o <= z
    BY <1>1 DEF CutInv, CutPassOK
  <1>4. CutOK(f) /\ Even(o) /\ (Len(L) = 0 => o = 0)
    BY DEF CutInv, CutOK
  <1>5. Even(s)
    BY <1>3, <1>4, EvenZero
  <1>6. /\ e \in Nat /\ Even(e) /\ s <= e /\ Piece(L, s, e) = Q
        /\ (e <= 2 * Len(L) /\ e <= z) \/ e = s
    <2>1. e = Stop(L, s, z) /\ Q = Piece(L, s, z)
      BY DEF Stop
    <2> HIDE DEF s, z, L, e, Q
    <2> QED BY <1>1, <1>2, <1>5, <2>1, ConsumedPiece
  <1>7. res = ParseOf(f, Q, turnStart[f]) /\ s + res.consumed = e
    <2>1. res = ParseOf(f, Q, turnStart[f])
      BY ParseIs
    <2>2. res.consumed = 2 * Len(Q)
      BY <2>1 DEF ParseOf
    <2> QED BY <2>1, <2>2
  <1> DEFINE new == [start |-> s, end |-> e, turn |-> res.turn, done |-> {}]
  <1>8. /\ inFlight' = [inFlight EXCEPT ![f] = new]
        /\ scan' = [pc |-> "deliver", n |-> scan.n, resuming |-> scan.resuming,
                    keys |-> Keys(res)]
    BY <1>7 DEF ParseFile
  <1>9. /\ log' = log /\ world' = world /\ delivered' = delivered /\ quotas' = quotas
        /\ offset' = offset /\ turnStart' = turnStart /\ chunks' = chunks
        /\ partial' = partial /\ unseen' = unseen
    BY DEF ParseFile, logVars, sinkVars
  <1>10. inFlight'[f] = new
    <2> HIDE DEF new
    <2> QED BY <1>8 DEF TypeInv
  <1>11. inFlight'[f].start = s /\ inFlight'[f].end = e /\ inFlight'[f].done = {}
    <2> HIDE DEF s, e, res
    <2> QED BY <1>10
  <1>12. InFlightParse(f)' = res
    <2> HIDE DEF s, e, res, Q
    <2> QED BY <1>6, <1>7, <1>9, <1>11 DEF InFlightParse
  <1>13. scan'.keys = KeysIn(world', InFlightParse(f)')
    <2>1. scan'.keys = Keys(res)
      <3> HIDE DEF res
      <3> QED BY <1>8
    <2>2. Keys(res) = KeysIn(world, res)
      BY KeysAre
    <2> HIDE DEF res
    <2> QED BY <1>9, <1>12, <2>1, <2>2
  <1>14. Sound(f) => Sound(f)'
    BY <1>9, SoundSame
  <1> HIDE DEF s, z, L, o, e, Q, res, new
  <1>15. s = 0 \/ s = o
    BY <1>3
  <1>16. e < o \/ Sound(f)'
    <2>1. CASE s = 0 /\ z < o
      BY <1>1, <1>6, <2>1
    <2> QED BY <1>3, <1>14, <2>1
  <1>17. Size(f) < e => f \in unseen
    <2> SUFFICES ASSUME Size(f) < e PROVE f \in unseen
      OBVIOUS
    <2>1. e = s /\ s # 0
      BY <1>1, <1>2, <1>6
    <2>2. Sound(f) /\ s = o
      BY <1>3, <2>1
    <2> QED BY <1>1, <1>2, <2>1, <2>2 DEF Sound, o
  <1>18. Size(f)' = Size(f)
    BY <1>9 DEF Size
  <1>19. Len(L) = 0 => e = 0
    <2> SUFFICES ASSUME Len(L) = 0 PROVE e = 0
      OBVIOUS
    <2>1. s = 0
      BY <1>4, <1>15
    <2> QED BY <1>1, <1>6, <2>1
  <1>20. \A key \in chunks'[f] : Handed(key)'
    BY <1>4, <1>9 DEF CutOK, Handed
  <1>21. (inFlight'[f] = NoScan /\ ~Looking(f)') => Sound(f)'
    <2>1. ~(NoScan.start \in Nat) /\ s \in Nat
      BY <1>1 DEF NoScan
    <2> QED BY <1>11, <2>1
  <1>22. CutOK(f)'
    <2>1. /\ Len(log'[f]) = 0 => offset'[f] = 0 /\ inFlight'[f].end = 0
          /\ Even(offset'[f])
      BY <1>4, <1>9, <1>11, <1>19 DEF L, o
    <2>2. /\ Even(inFlight'[f].end)
          /\ inFlight'[f].start = 0 \/ inFlight'[f].start = offset'[f]
          /\ inFlight'[f].start <= inFlight'[f].end
          /\ inFlight'[f].end < offset'[f] \/ Sound(f)'
          /\ Size(f)' < inFlight'[f].end => f \in unseen'
          /\ inFlight'[f].done = {}
      BY <1>6, <1>9, <1>11, <1>15, <1>16, <1>17, <1>18 DEF o
    <2> QED BY <1>20, <1>21, <2>1, <2>2 DEF CutOK
  <1> QED BY <1>8, <1>13, <1>22

LEMMA CutParse ==
    ASSUME TypeInv, TypeInv', CutInv, ParseFile
    PROVE  CutInv'
  <1>0. scan.pc = "parse" /\ scan.n \in 1..Len(FileOrder) /\ scan.resuming \in BOOLEAN
    BY DEF ParseFile, TypeInv, ScanOK, Idle
  <1>1. PICK f \in Paths : f = FileOrder[scan.n]
    BY <1>0, FileIsPath
  <1>2. /\ log' = log /\ partial' = partial /\ offset' = offset /\ turnStart' = turnStart
        /\ chunks' = chunks /\ unseen' = unseen /\ SinksGrow /\ world' = world
    BY DEF ParseFile, logVars, sinkVars, SinksGrow
  <1>3. ASSUME NEW g \in Paths, inFlight'[g] = inFlight[g], ~Looking(g) PROVE CutOK(g)'
    <2>1. CutOK(g)
      BY DEF CutInv
    <2> QED BY <1>2, <1>3, <2>1, CutAside
  <1>4. CASE scan.resuming
    <2>1. inFlight' = inFlight
      BY <1>4 DEF ParseFile
    <2>2. \A g \in Paths : CutOK(g)'
      BY <1>3, <1>4, <2>1 DEF Looking
    <2>3. CASE scan' = Idle
      BY <2>2, <2>3, CutQuiet DEF Idle, CutInv
    <2>4. CASE scan' # Idle
      <3> DEFINE res == Parse(f, scan.start, scan.end, turnStart[f])
      <3>1. scan' = [pc |-> "deliver", n |-> scan.n, resuming |-> scan.resuming,
                     keys |-> Keys(res)]
        BY <1>1, <2>4 DEF ParseFile
      <3>2. scan.start = inFlight[f].start /\ scan.end = inFlight[f].end
        BY <1>0, <1>1, <1>4 DEF TypeInv, ScanOK, Idle
      <3>3. res = InFlightParse(f)
        BY <3>2, ParseIs DEF InFlightParse
      <3>4. Keys(res) = KeysIn(world, InFlightParse(f))
        BY <3>3, KeysAre
      <3>5. InFlightParse(f)' = InFlightParse(f)
        BY <1>2, <2>1 DEF InFlightParse
      <3> HIDE DEF res
      <3>6. scan'.pc = "deliver" /\ scan'.n = scan.n /\ scan'.keys = Keys(res)
        BY <3>1
      <3>7. CutPassOK'
        BY <1>1, <1>2, <3>4, <3>5, <3>6 DEF CutPassOK
      <3> QED BY <2>2, <3>7 DEF CutInv
    <2> QED BY <2>3, <2>4
  <1>5. CASE ~scan.resuming
    <2>1. /\ CutOK(f)'
          /\ scan'.pc = "deliver" /\ scan'.n = scan.n
          /\ scan'.keys = KeysIn(world', InFlightParse(f)')
      BY <1>1, <1>5, CutBegin
    <2>2. ASSUME NEW g \in Paths, g # f PROVE CutOK(g)'
      <3>1. inFlight'[g] = inFlight[g]
        BY <1>1, <2>2 DEF ParseFile, TypeInv
      <3>2. ~Looking(g)
        BY <1>1, <2>2 DEF Looking
      <3> QED BY <1>3, <3>1, <3>2
    <2>3. CutPassOK'
      BY <1>1, <2>1 DEF CutPassOK
    <2> QED BY <2>1, <2>2, <2>3 DEF CutInv
  <1> QED BY <1>0, <1>4, <1>5

\* The sink accepts a delivery, or the ledger gets to know it.
LEMMA CutDeliver ==
    ASSUME TypeInv, TypeInv', CutInv, Deliver
    PROVE  CutInv'
  <1>0. scan.pc = "deliver" /\ scan.n \in 1..Len(FileOrder)
    BY DEF Deliver, TypeInv, ScanOK, Idle
  <1>1. PICK f \in Paths : f = FileOrder[scan.n]
    BY <1>0, FileIsPath
  <1>2. PICK key \in Owed :
          /\ delivered' = IF key.kind = "events" THEN delivered \cup key.payload ELSE delivered
          /\ quotas' = IF key.kind = "quotas" THEN quotas \cup key.payload ELSE quotas
          /\ scan' = [pc |-> "mark", n |-> scan.n, resuming |-> scan.resuming,
                      keys |-> scan.keys, key |-> key]
    BY DEF Deliver
  <1>3. /\ log' = log /\ partial' = partial /\ unseen' = unseen /\ world' = world
        /\ offset' = offset /\ inFlight' = inFlight /\ chunks' = chunks
        /\ turnStart' = turnStart
    BY DEF Deliver, logVars, stateVars
  <1>4. SinksGrow
    BY <1>2, <1>3 DEF SinksGrow
  <1>5. ASSUME NEW g \in Paths PROVE CutOK(g)'
    <2>1. CutOK(g) /\ ~Looking(g)
      BY <1>0 DEF CutInv, Looking
    <2> QED BY <1>3, <1>4, <2>1, CutAside
  <1>6. scan'.pc = "mark" /\ scan'.n = scan.n /\ scan'.keys = scan.keys /\ scan'.key = key
    BY <1>2
  <1>7. Handed(key)'
    BY <1>2 DEF Handed
  <1>8. inFlight[f].end <= Size(f) => scan.keys = KeysIn(world, InFlightParse(f))
    BY <1>0, <1>1 DEF CutInv, CutPassOK
  <1>9. InFlightParse(f)' = InFlightParse(f) /\ Size(f)' = Size(f)
    BY <1>3 DEF InFlightParse, Size
  <1>10. CutPassOK'
    BY <1>1, <1>3, <1>6, <1>7, <1>8, <1>9 DEF CutPassOK
  <1> QED BY <1>5, <1>10 DEF CutInv

LEMMA CutMark ==
    ASSUME TypeInv, TypeInv', CutInv, Mark
    PROVE  CutInv'
  <1>0. scan.pc = "mark" /\ scan.n \in 1..Len(FileOrder)
    BY DEF Mark, TypeInv, ScanOK, Idle
  <1>1. PICK f \in Paths : f = FileOrder[scan.n]
    BY <1>0, FileIsPath
  <1>2. inFlight[f] # NoScan /\ Handed(scan.key)
    BY <1>0, <1>1 DEF TypeInv, ScanOK, Idle, CutInv, CutPassOK
  <1>3. /\ log' = log /\ partial' = partial /\ unseen' = unseen /\ world' = world
        /\ offset' = offset /\ chunks' = chunks /\ turnStart' = turnStart /\ SinksGrow
    BY DEF Mark, logVars, sinkVars, SinksGrow
  <1>4. /\ inFlight'[f].start = inFlight[f].start
        /\ inFlight'[f].end = inFlight[f].end
        /\ inFlight'[f].done = inFlight[f].done \cup {scan.key}
        /\ inFlight'[f] # NoScan
        /\ \A g \in Paths : g # f => inFlight'[g] = inFlight[g]
    BY <1>1, <1>2, MarkAdds
  <1>5. ASSUME NEW g \in Paths PROVE CutOK(g)' /\ ~Looking(g)
    <2>1. CutOK(g) /\ ~Looking(g)
      BY <1>0 DEF CutInv, Looking
    <2>2. inFlight[g] # NoScan => \A key \in inFlight[g].done : Handed(key)
      BY <2>1 DEF CutOK
    <2>3. \A n \in Marks(g) : Noticed(g, n) => KeptAt(g, n)
      BY <1>3, SameFileKept
    <2>4. /\ inFlight'[g].start = inFlight[g].start
          /\ inFlight'[g].end = inFlight[g].end
          /\ inFlight'[g] = NoScan <=> inFlight[g] = NoScan
          /\ inFlight'[g] # NoScan => \A key \in inFlight'[g].done : Handed(key)
      BY <1>2, <1>4, <2>2
    <2> QED BY <1>3, <2>1, <2>3, <2>4, CutKept
  <1>6. scan'.pc = "deliver" /\ scan'.n = scan.n /\ scan'.keys = scan.keys
    BY DEF Mark
  <1>7. inFlight[f].end <= Size(f) => scan.keys = KeysIn(world, InFlightParse(f))
    BY <1>0, <1>1 DEF CutInv, CutPassOK
  <1>8. InFlightParse(f)' = InFlightParse(f) /\ Size(f)' = Size(f)
    BY <1>3, <1>4 DEF InFlightParse, Size
  <1>9. CutPassOK'
    BY <1>1, <1>3, <1>4, <1>6, <1>7, <1>8 DEF CutPassOK
  <1> QED BY <1>5, <1>9 DEF CutInv

\* All lines up to the end of a scan that is committed have been accepted.
LEMMA CutReached ==
    ASSUME TypeInv, CutInv, Commit, NEW f \in Paths, f = FileOrder[scan.n],
           inFlight[f].end <= Size(f)
    PROVE  Reached(f, inFlight[f].end)
  <1> DEFINE s == inFlight[f].start
             e == inFlight[f].end
             o == offset[f]
             L == log[f]
             Q == Piece(L, s, e)
             c == turnStart[f]
  <1>1. scan.pc = "deliver" /\ Owed = {} /\ inFlight[f] # NoScan
    BY DEF Commit, TypeInv, ScanOK, Idle
  <1>2. /\ s \in Nat /\ e \in Nat /\ o \in Nat /\ L \in Seq(Line) /\ Len(L) \in Nat
        /\ Size(f) \in Nat /\ Size(f) <= 2 * Len(L) + 1
    BY <1>1, SizeType DEF TypeInv, IsScan
  <1>3. /\ Even(e) /\ Even(o) /\ s <= e /\ (s = 0 \/ s = o) /\ (e < o \/ Sound(f))
        /\ \A key \in inFlight[f].done : Handed(key)
        /\ \A key \in chunks[f] : Handed(key)
    BY <1>1 DEF CutInv, CutOK
  <1>4. \A key \in scan.keys : Handed(key)
    <2>1. \A key \in scan.keys : key \in inFlight[f].done \/ key \in chunks[f]
      BY <1>1 DEF Owed
    <2> QED BY <1>3, <2>1
  <1>5. scan.keys = KeysIn(world, InFlightParse(f))
    BY <1>1 DEF CutInv, CutPassOK
  <1>6. Told(f, Q, c)
    <2>1. /\ InFlightParse(f).events = EventsOf(f, Q, c)
          /\ InFlightParse(f).quotas = HitsOf(Q)
      BY DEF InFlightParse, ParseOf
    <2> HIDE DEF Q, c
    <2> QED BY <1>4, <1>5, <2>1, KeysCover
  <1>7. s = o => Reached(f, s)
    <2> SUFFICES ASSUME s = o PROVE Reached(f, o)
      OBVIOUS
    <2>1. Sound(f) /\ o <= Size(f)
      BY <1>2, <1>3
    <2> QED BY <1>2, <2>1 DEF Sound
  <1>8. e <= Size(f)
    OBVIOUS
  <1> HIDE DEF s, e, o, L, Q, c
  <1>9. PICK a \in Nat, b \in Nat : a = s \div 2 /\ s = 2 * a /\ b = e \div 2 /\ e = 2 * b
    <2>1. s \div 2 \in Nat /\ e \div 2 \in Nat
      BY <1>2
    <2>2. Even(s)
      BY <1>3, EvenZero
    <2>3. s = 2 * (s \div 2) /\ e = 2 * (e \div 2)
      BY <1>3, <2>2 DEF Even
    <2> QED BY <2>1, <2>3
  <1>10. a <= b /\ b <= Len(L) /\ e <= 2 * Len(L)
    <2>1. 2 * b <= 2 * Len(L) + 1
      BY <1>2, <1>8, <1>9
    <2> QED BY <1>2, <1>3, <1>9, <2>1
  <1>11. /\ Q \in Seq(Line) /\ Len(Q) = b - a
         /\ \A i \in 1..(b - a) : Q[i] = L[a + i]
    <2>1. Even(s)
      BY <1>3, EvenZero
    <2>2. /\ Piece(L, s, e) \in Seq(Line)
          /\ Len(Piece(L, s, e)) = e \div 2 - s \div 2
          /\ \A i \in 1..(e \div 2 - s \div 2) : Piece(L, s, e)[i] = L[s \div 2 + i]
      BY <1>2, <1>3, <1>10, <2>1, PieceIs
    <2> QED BY <1>9, <2>2 DEF Q
  <1>12. ASSUME NEW i \in 1..Len(L), 2 * i <= e PROVE LineTold(L[i])
    <2>1. i \in Nat /\ 1 <= i /\ i <= b
      BY <1>2, <1>9, <1>12
    <2>2. CASE a < i
      <3>1. i - a \in 1..(b - a) /\ a + (i - a) = i
        BY <2>1, <2>2
      <3>2. Q[i - a] = L[i] /\ i - a \in 1..Len(Q)
        BY <1>11, <3>1
      <3> QED BY <1>6, <1>11, <3>2, ToldLines
    <2>3. CASE i <= a
      <3>1. s # 0 /\ 2 * i <= s
        BY <1>9, <2>1, <2>3
      <3>2. Reached(f, s)
        BY <1>3, <1>7, <3>1
      <3> QED BY <3>1, <3>2 DEF Reached, L
    <2> QED BY <2>1, <2>2, <2>3
  <1> QED BY <1>12 DEF Reached, L, e

\* Offset and keys of a scan that is committed, although the file may have been
\* cut meanwhile.
LEMMA CutCommit ==
    ASSUME TypeInv, TypeInv', CutInv, Commit
    PROVE  CutInv'
  <1>0. scan.pc = "deliver" /\ Owed = {} /\ scan.n \in 1..Len(FileOrder)
          /\ scan.n \in 0..Len(FileOrder)
    <2>1. scan.pc = "deliver" /\ Owed = {} /\ ScanOK
      BY DEF Commit, TypeInv
    <2> QED BY <2>1, CollectorConstants DEF ScanOK, Idle
  <1>1. PICK f \in Paths : f = FileOrder[scan.n]
    BY <1>0, FileIsPath
  <1>2. inFlight[f] # NoScan /\ CutOK(f)
    BY <1>0, <1>1 DEF TypeInv, ScanOK, Idle, CutInv
  <1>3. /\ log' = log /\ partial' = partial /\ unseen' = unseen /\ world' = world
        /\ delivered' = delivered /\ quotas' = quotas /\ SinksGrow
        /\ scan' = NextFile(scan.n)
    BY DEF Commit, logVars, sinkVars, SinksGrow
  <1>4. /\ offset'[f] = inFlight[f].end /\ inFlight'[f] = NoScan
        /\ chunks'[f] = chunks[f] \/ chunks'[f] \subseteq scan.keys
        /\ \A g \in Paths : g # f => /\ offset'[g] = offset[g]
                                     /\ inFlight'[g] = inFlight[g]
                                     /\ chunks'[g] = chunks[g]
    BY <1>1 DEF Commit, TypeInv
  <1>5. CutOK(f)'
    <2>1. \A key \in chunks'[f] : Handed(key)'
      <3>1. /\ \A key \in inFlight[f].done : Handed(key)
            /\ \A key \in chunks[f] : Handed(key)
        BY <1>2 DEF CutOK
      <3>2. \A key \in scan.keys : key \in inFlight[f].done \/ key \in chunks[f]
        BY <1>0, <1>1 DEF Owed
      <3>3. \A key : Handed(key) => Handed(key)'
        BY <1>3 DEF Handed
      <3> QED BY <1>4, <3>1, <3>2, <3>3
    <2>2. Size(f)' = Size(f) /\ Size(f) \in Nat /\ inFlight[f].end \in Nat
      <3>1. inFlight[f].end \in Nat
        BY MarksType DEF Marks
      <3> QED BY <1>3, <3>1, SizeType DEF Size
    <2>3. Sound(f)'
      <3>1. CASE Size(f) < inFlight[f].end
        <4>1. f \in unseen'
          BY <1>2, <1>3, <3>1 DEF CutOK
        <4> QED BY <1>4, <2>2, <3>1, <4>1 DEF Sound
      <3>2. CASE inFlight[f].end <= Size(f)
        <4>1. Reached(f, inFlight[f].end)
          BY <1>1, <3>2, CutReached
        <4>2. Reached(f, offset[f])'
          BY <1>3, <1>4, <4>1 DEF Reached, LineTold, InWindow
        <4>3. (offset[f] <= Size(f))'
          BY <1>4, <2>2, <3>2
        <4> QED BY <4>2, <4>3 DEF Sound
      <3> QED BY <2>2, <3>1, <3>2
    <2>4. /\ Len(log'[f]) = 0 => offset'[f] = 0 /\ inFlight'[f].end = 0
          /\ Even(offset'[f])
      BY <1>2, <1>3, <1>4 DEF CutOK, NoScan
    <2> QED BY <1>4, <2>1, <2>3, <2>4 DEF CutOK
  <1>6. ASSUME NEW g \in Paths, g # f PROVE CutOK(g)'
    <2>1. CutOK(g) /\ ~Looking(g)
      BY <1>0 DEF CutInv, Looking
    <2> QED BY <1>3, <1>4, <1>6, <2>1, CutAside
  <1>7. CutPassOK'
    BY <1>0, <1>3, NextFileOK, CutQuiet
  <1> QED BY <1>5, <1>6, <1>7 DEF CutInv

LEMMA CutInit ==
    ASSUME Init
    PROVE  CutInv
  <1>1. ASSUME NEW f \in Paths PROVE CutOK(f)
    <2>1. /\ offset[f] = 0 /\ inFlight[f] = NoScan /\ chunks[f] = {} /\ log[f] = <<>>
          /\ partial[f] = FALSE
      BY DEF Init
    <2>2. Len(log[f]) = 0 /\ Size(f) = 0
      BY <2>1 DEF Size
    <2>3. Sound(f)
      BY <2>1, <2>2 DEF Sound, Reached
    <2> QED BY <2>1, <2>3, EvenZero DEF CutOK, NoScan
  <1>2. CutPassOK
    BY DEF Init, Idle, CutPassOK
  <1> QED BY <1>1, <1>2 DEF CutInv

LEMMA CutStep ==
    ASSUME TypeInv, TypeInv', Cutting, CutInv, [Next]_vars
    PROVE  CutInv'
  <1>1. ASSUME NEW f \in Paths, Write(f) \/ Truncate(f) PROVE CutInv'
    BY <1>1, CutEnvironment
  <1>2. CASE StartPass \/ Interrupt
    <2>1. /\ log' = log /\ partial' = partial /\ unseen' = unseen /\ SinksGrow
          /\ offset' = offset /\ inFlight' = inFlight /\ chunks' = chunks
      BY <1>2 DEF StartPass, Interrupt, logVars, stateVars, sinkVars, SinksGrow
    <2>2. scan.pc # "parse" /\ scan'.pc \in {"idle", "stat"}
      <3>1. CASE StartPass
        <4>1. 0 \in 0..Len(FileOrder)
          BY CollectorConstants
        <4> QED BY <3>1, <4>1, NextFileOK DEF StartPass, Idle
      <3>2. CASE Interrupt
        BY <3>2 DEF Interrupt, Idle, Cutting
      <3> QED BY <1>2, <3>1, <3>2
    <2>3. ASSUME NEW g \in Paths PROVE CutOK(g)'
      <3>1. CutOK(g) /\ ~Looking(g)
        BY <2>2 DEF CutInv, Looking
      <3> QED BY <2>1, <3>1, CutAside
    <2>4. CutPassOK'
      BY <2>2, CutQuiet
    <2> QED BY <2>3, <2>4 DEF CutInv
  <1>3. ASSUME Unreadable \/ Forget PROVE FALSE
    BY <1>3 DEF Unreadable, Forget, Cutting
  <1>4. CASE UNCHANGED vars
    <2>1. /\ log' = log /\ partial' = partial /\ unseen' = unseen /\ world' = world
          /\ delivered' = delivered /\ quotas' = quotas /\ SinksGrow
          /\ offset' = offset /\ inFlight' = inFlight /\ chunks' = chunks
          /\ turnStart' = turnStart /\ scan' = scan
      BY <1>4 DEF vars, logVars, stateVars, sinkVars, SinksGrow
    <2>2. ASSUME NEW g \in Paths PROVE CutOK(g)'
      <3>1. CutOK(g) /\ (Looking(g) => Looking(g)')
        BY <2>1 DEF CutInv, Looking
      <3> QED BY <2>1, <3>1, CutAside
    <2>3. CutPassOK'
      <3>1. PICK f : f = FileOrder[scan.n]
        OBVIOUS
      <3>2. /\ Size(f)' = Size(f) /\ InFlightParse(f)' = InFlightParse(f)
            /\ Handed(scan.key) => Handed(scan.key)'
        BY <2>1 DEF Size, InFlightParse, Handed
      <3>3. Sound(f) => Sound(f)'
        BY <2>1, SoundSame
      <3> QED BY <2>1, <3>1, <3>2, <3>3 DEF CutInv, CutPassOK
    <2> QED BY <2>2, <2>3 DEF CutInv
  <1> QED
    BY <1>1, <1>2, <1>3, <1>4, CutStat, CutParse, CutDeliver, CutMark, CutCommit
       DEF Next, PassStep

\* Where files may be cut, but not to nothing, and nothing but the sink fails,
\* an offset that no line stands behind is one the next pass sees to be stale.
THEOREM CuttingInvariant == Spec => [](TypeInv /\ (Cutting => CutInv))
  <1>1. Init => TypeInv /\ (Cutting => CutInv)
    BY TypeInit, CutInit
  <1>2. (TypeInv /\ (Cutting => CutInv)) /\ [Next]_vars => (TypeInv /\ (Cutting => CutInv))'
    <2> SUFFICES ASSUME TypeInv, Cutting => CutInv, [Next]_vars
                 PROVE  TypeInv' /\ (Cutting => CutInv)'
      OBVIOUS
    <2>1. TypeInv'
      BY TypeStep
    <2>2. Cutting' => Cutting
      BY WorldKept DEF Cutting, Faults
    <2>3. ASSUME Cutting PROVE CutInv'
      BY <2>1, <2>3, CutStep
    <2> QED BY <2>1, <2>2, <2>3
  <1> QED BY <1>1, <1>2, PTL DEF Spec

LEMMA CuttingDelivers ==
    ASSUME TypeInv, CutInv
    PROVE  CommittedIsDelivered
  <1> SUFFICES ASSUME NEW f \in Paths, Settled(f),
                      NEW line \in Range(LinesBetween(f, 0, offset[f]))
               PROVE  LineTold(line)
    BY DEF CommittedIsDelivered, LineTold
  <1> DEFINE P == Piece(log[f], 0, offset[f])
             o == offset[f]
             L == log[f]
  <1>1. /\ o \in Nat /\ L \in Seq(Line) /\ Len(L) \in Nat /\ Size(f) \in Nat
        /\ Size(f) <= 2 * Len(L) + 1
    BY SizeType DEF TypeInv
  <1>2. Reached(f, o) /\ o <= Size(f) /\ Even(o)
    <2>1. inFlight[f] = NoScan /\ ~Looking(f) /\ o <= Size(f)
      <3>1. ~(Size(f) < o) /\ inFlight[f] = NoScan
        BY <1>1 DEF Settled
      <3>2. ~Looking(f)
        BY DEF Settled, At, Looking, Idle
      <3> QED BY <1>1, <3>1, <3>2
    <2>2. Sound(f) /\ Even(o)
      BY <2>1 DEF CutInv, CutOK
    <2> QED BY <1>1, <2>1, <2>2 DEF Sound
  <1>3. LinesBetween(f, 0, offset[f]) = P
    BY ParseIs
  <1> HIDE DEF o, L
  <1>4. PICK b \in Nat : b = o \div 2 /\ o = 2 * b
    BY <1>1, <1>2 DEF Even
  <1>5. b <= Len(L) /\ o <= 2 * Len(L)
    <2>1. 2 * b <= 2 * Len(L) + 1
      BY <1>1, <1>2, <1>4
    <2> QED BY <1>1, <1>4, <2>1
  <1>6. P \in Seq(Line) /\ Len(P) = b /\ \A i \in 1..b : P[i] = L[i]
    <2>1. /\ Piece(L, 0, o) \in Seq(Line)
          /\ Len(Piece(L, 0, o)) = o \div 2 - 0 \div 2
          /\ \A i \in 1..(o \div 2 - 0 \div 2) : Piece(L, 0, o)[i] = L[0 \div 2 + i]
      BY <1>1, <1>2, <1>5, EvenZero, PieceIs
    <2>2. 0 \div 2 = 0
      OBVIOUS
    <2>3. P = Piece(L, 0, o)
      BY DEF L, o
    <2> HIDE DEF P
    <2> QED BY <1>4, <2>1, <2>2, <2>3
  <1> HIDE DEF P
  <1>7. PICK i \in 1..b : line = L[i]
    BY <1>3, <1>6 DEF Range
  <1>8. i \in 1..Len(L) /\ 2 * i <= o
    BY <1>1, <1>4, <1>5
  <1> QED BY <1>2, <1>7, <1>8 DEF Reached, L

\* Every line before the committed offset has reached its sink: where files
\* only grow, whatever dies, fails, is skipped or forgotten; and where files
\* are cut, as long as nothing but the sink fails.
THEOREM CommittedReachesSink ==
    Spec => []((Growing \/ Cutting) => CommittedIsDelivered)
  <1>1. CollectorInv /\ TypeInv /\ (Cutting => CutInv) =>
            ((Growing \/ Cutting) => CommittedIsDelivered)
    BY GrowingDelivers, CuttingDelivers DEF CollectorInv
  <1> QED BY <1>1, GrowingInvariant, CuttingInvariant, PTL
=============================================================================
