---------------------------- MODULE AddressProofs ----------------------------
(***************************************************************************)
(* Proofs about AddressRebase for every set of addresses and blocks, every *)
(* first drift and every schedule of block writes, reverts, rebases,       *)
(* settlements and checks: addresses_total counts the rows, a rebase sets  *)
(* the rows it takes to their truth, and the counters implement            *)
(* ExactOrOwed.                                                            *)
(***************************************************************************)
EXTENDS AddressRebase, NaturalFacts, FiniteSetTheorems, TLAPS

-----------------------------------------------------------------------------
(* Types *)

Key        == (Addr \cup {0}) \X {"txs", "first", "last", "count"}
ReadRecord == [row : StatRow, want : StatRow, reverted : Nat, creatable : BOOLEAN]
Reads      == UNION {[D -> ReadRecord] : D \in SUBSET Addr}
Leaves     == UNION {[D -> StatRow] : D \in SUBSET Addr}

WriterType == [op : {"idle", "ingest", "revert"}, block : Blocks, fork : 0 .. 2, todo : SUBSET Addr, row : Leaves]
RebaseType == [kind : {"idle", "span", "check"} \cup Walker, read : Reads, batch : SUBSET Addr, todo : SUBSET Addr,
               made : SUBSET Addr, stale : SUBSET Addr, ready : BOOLEAN, revertLock : BOOLEAN, logs : SUBSET Key]
WalkType   == [on : BOOLEAN, next : Nat, found : SUBSET Addr, size : Nat]

TypesInv ==
    /\ stats \in [Addr -> StatRow] /\ ledger \in [Addr -> StatRow]
    /\ held \in [Open -> 0 .. 2]
    /\ addresses \in Nat /\ txsTotal \in Nat /\ version \in Nat /\ moves \in Nat
    /\ index \in {"absent", "invalid", "ready"}
    /\ rowLock \in [Addr -> Writer \cup {"free", "rebase"}]
    /\ recorded \in [Addr -> Nat] /\ \A a \in Addr : recorded[a] <= version
    /\ writers \in [Writer -> WriterType]
    /\ rebase \in RebaseType
    /\ check \in [found : SUBSET Key, off : Int]
    /\ walk \in [Walker -> WalkType]
    /\ days \in [on : BOOLEAN, pending : Nat, upto : Nat]
    /\ past \in [made : Nat, seen : Nat, lost : SUBSET Addr, passed : SUBSET Addr]
    /\ toCome \in RebaseTrouble

-----------------------------------------------------------------------------
(* The inductive invariant *)

\* The addresses the block of a writer touches.
Hit(w) == Touches[writers[w].fork][writers[w].block]

\* A block write or a revert holds rows of its block only; no two are of the same block.
WritersInv ==
    \A w \in Writer :
        /\ writers[w].op = "idle" => writers[w] = IdleWriter /\ \A a \in Addr : rowLock[a] # w
        /\ writers[w].op # "idle" => /\ writers[w].block \in Open /\ writers[w].fork \in 1 .. 2
                                     /\ writers[w].todo \subseteq Hit(w)
                                     /\ \A a \in Addr : rowLock[a] = w => a \in Hit(w) \ writers[w].todo
                                     /\ \A v \in Writer \ {w} : writers[v].op # "idle" => writers[v].block # writers[w].block
        /\ writers[w].op = "ingest" => /\ held[writers[w].block] = 0
                                       /\ \A a \in Hit(w) \ writers[w].todo : rowLock[a] = w
        /\ writers[w].op = "revert" => w = "realtime"

\* What a revert has decided of an address: the row it leaves, or that there was no row to take.
Decided(a) ==
    LET r == writers["realtime"]
    IN IF rowLock[a] = "realtime" THEN stats[a] # NoStat /\ a \in DOMAIN r.row
       ELSE a \in past.passed /\ (stats[a] # NoStat => OpenBlocks(a) \ {r.block} # {})

RevertInv ==
    LET r == writers["realtime"]
    IN r.op = "revert" => /\ held[r.block] = r.fork
                          /\ ~rebase.revertLock
                          /\ \A a \in Hit("realtime") \ r.todo : Decided(a)

\* The rebase: what it has read, the batch it applies, the rows it holds and the rows it will create.
BatchInv ==
    /\ \A a \in DOMAIN rebase.read : rebase.read[a].reverted <= recorded[a]
    /\ rebase.todo \subseteq rebase.batch /\ rebase.batch \subseteq DOMAIN rebase.read
    /\ rebase.made \subseteq rebase.batch /\ rebase.stale \subseteq rebase.batch
    /\ rebase.ready => rebase.todo = {} /\ rebase.batch # {}
    /\ rebase.batch = {} => ~rebase.revertLock
    /\ rebase.todo # rebase.batch /\ Making => rebase.revertLock
    /\ \A a \in Addr : rowLock[a] = "rebase" => a \in rebase.batch \ rebase.todo
    /\ \A a \in rebase.batch : Creates(rebase.read[a]) /\ a \notin rebase.todo => rowLock[a] = "rebase"
    /\ \A a \in rebase.batch : a \in rebase.made <=> Creates(rebase.read[a]) /\ a \notin rebase.todo /\ stats[a] = NoStat
    /\ \A a \in Addr : rowLock[a] = "rebase" /\ stats[a] = NoStat => a \in rebase.made
    /\ \A a \in Addr : rowLock[a] = "rebase" => Present(rebase.read[a]) \/ Creates(rebase.read[a])

\* A revert came since the read, as far as the rebase has seen or would see.
Late(a) == IF rebase.ready /\ a \in rebase.batch THEN a \in rebase.stale ELSE recorded[a] # rebase.read[a].reverted

\* A row that was there at the read is there still, and only ingest has moved it, unless a revert came since.
KeptInv ==
    \A a \in DOMAIN rebase.read :
        LET v == rebase.read[a]
        IN /\ Present(v) /\ ~Late(a) => /\ stats[a] # NoStat
                                        /\ stats[a].txs >= v.row.txs /\ stats[a].first <= v.row.first
                                        /\ Seen(v) => Truth(a) # NoStat
           /\ Present(v) /\ ~Late(a) /\ a \in rebase.batch \ rebase.todo => rowLock[a] = "rebase"
           /\ (Present(v) \/ Creates(v)) /\ ~Late(a) /\ recorded[a] # v.reverted => Present(v) /\ a \in past.passed

\* An edge, now and at the read, of row and truth: where ingest moved the row's past what was read, it moved the truth's
\* to the same block or did not reach it.
LowerMoved(now, read, true, want) ==
    /\ now <= read /\ true <= want
    /\ now = read => true = want \/ read <= true
    /\ now < read => true = IF now <= want THEN now ELSE want

UpperMoved(now, read, true, want) ==
    /\ now >= read /\ true >= want
    /\ now = read => true = want \/ read >= true
    /\ now > read => true = IF now >= want THEN now ELSE want

\* Without a revert since the read, what ingest added to a row it added to its truth.
Moved(v, s, t) ==
    /\ t # NoStat
    /\ t.txs - v.want.txs = s.txs - v.row.txs
    /\ Present(v) => /\ s # NoStat
                     /\ LowerMoved(s.first, v.row.first, t.first, v.want.first)
                     /\ UpperMoved(s.last, v.row.last, t.last, v.want.last)
    /\ ~Present(v) => /\ t.first = Lower({s.first, v.want.first})
                      /\ t.last = Upper({s.last, v.want.last})

MovedInv ==
    \A a \in DOMAIN rebase.read :
        Seen(rebase.read[a]) /\ recorded[a] = rebase.read[a].reverted => Moved(rebase.read[a], stats[a], Truth(a))

\* The day recount in progress read what was pending.
DaysInv ==
    days.on => /\ 0 < days.pending /\ days.pending <= moves
               /\ days.upto < past.made => days.pending < moves

RebaseInv ==
    TypesInv /\ WritersInv /\ RevertInv /\ BatchInv /\ KeptInv /\ MovedInv /\ DaysInv /\ RowsAccounted

-----------------------------------------------------------------------------
(* Rows, edges and the truth *)

Edge == Nat \cup {Unseen}

LEMMA UnseenIs == Unseen = -1 /\ NoStat.txs = 0 /\ NoStat.first = -1 /\ NoStat.last = -1 /\ NoStat \in StatRow
BY DEF Unseen, NoStat, StatRow

\* A row, by what it knows.
LEMMA RowIs ==
    ASSUME NEW r \in StatRow
    PROVE  /\ r.txs \in Nat /\ r.first \in Edge /\ r.last \in Edge
           /\ r # NoStat => r.first \in Blocks /\ r.last \in Blocks /\ r.first >= 0 /\ r.last >= 0
           /\ r = [txs |-> r.txs, first |-> r.first, last |-> r.last]
<1>1. CASE r = NoStat
  BY <1>1 DEF NoStat, Unseen, Edge
<1>2. CASE r \in [txs : Nat, first : Blocks, last : Blocks]
  <2>1. r.txs \in Nat /\ r.first \in Blocks /\ r.last \in Blocks /\ r = [txs |-> r.txs, first |-> r.first, last |-> r.last]
    BY <1>2
  <2>2. Blocks \subseteq Nat
    BY RebaseAssumption DEF Blocks
  <2> QED BY <2>1, <2>2 DEF Edge
<1> QED BY <1>1, <1>2 DEF StatRow

\* Building a row.
LEMMA RowMade ==
    ASSUME NEW t \in Nat, NEW f \in Blocks, NEW l \in Blocks
    PROVE  [txs |-> t, first |-> f, last |-> l] \in StatRow /\ [txs |-> t, first |-> f, last |-> l] # NoStat
<1>1. f \in Nat
  BY RebaseAssumption DEF Blocks
<1>2. [txs |-> t, first |-> f, last |-> l].first # NoStat.first
  BY <1>1, UnseenIs
<1> QED BY <1>2 DEF StatRow

LEMMA MinIs ==
    ASSUME NEW S \in SUBSET Int, NEW x \in S, \A y \in S : x <= y
    PROVE  Min(S) = x
<1>1. \A z \in S : (\A y \in S : z <= y) <=> z = x
  OBVIOUS
<1> QED BY <1>1 DEF Min

LEMMA MaxIs ==
    ASSUME NEW S \in SUBSET Int, NEW x \in S, \A y \in S : y <= x
    PROVE  Max(S) = x
<1>1. \A z \in S : (\A y \in S : z >= y) <=> z = x
  OBVIOUS
<1> QED BY <1>1 DEF Max

\* The lower edge of a set of edges: none is known, or the least known one.
LEMMA LowerIs ==
    ASSUME NEW S \in SUBSET Edge
    PROVE  /\ S \subseteq {Unseen} => Lower(S) = Unseen
           /\ ~(S \subseteq {Unseen}) => Lower(S) \in S /\ Lower(S) \in Nat /\ \A y \in S : y = Unseen \/ Lower(S) <= y
<1> DEFINE known == S \ {Unseen}
<1>1. Lower(S) = IF known = {} THEN Unseen ELSE Min(known)
  BY DEF Lower
<1>2. known \in SUBSET Nat /\ known \in SUBSET Int
  <2>1. \A y \in known : y \in Nat
    BY DEF Edge
  <2> QED BY <2>1
<1>3. ASSUME known # {}
      PROVE  Min(known) \in known /\ \A y \in known : Min(known) <= y
  <2>1. PICK x \in known : \A y \in known : x <= y
    <3> HIDE DEF known
    <3> QED BY <1>2, <1>3, LeastNatural
  <2>2. Min(known) = x
    <3> HIDE DEF known
    <3> QED BY <1>2, <2>1, MinIs
  <2> QED BY <2>1, <2>2
<1> QED BY <1>1, <1>2, <1>3

LEMMA UpperIs ==
    ASSUME NEW S \in SUBSET Edge, IsFiniteSet(S)
    PROVE  /\ S \subseteq {Unseen} => Upper(S) = Unseen
           /\ ~(S \subseteq {Unseen}) => Upper(S) \in S /\ Upper(S) \in Nat /\ \A y \in S : y = Unseen \/ y <= Upper(S)
<1> DEFINE known == S \ {Unseen}
<1>1. Upper(S) = IF known = {} THEN Unseen ELSE Max(known)
  BY DEF Upper
<1>2. known \in SUBSET Nat /\ known \in SUBSET Int /\ IsFiniteSet(known)
  <2>1. \A y \in known : y \in Nat
    BY DEF Edge
  <2>2. known \in SUBSET S
    OBVIOUS
  <2>3. IsFiniteSet(known)
    BY <2>2, FS_Subset
  <2> QED BY <2>1, <2>3
<1>3. ASSUME known # {}
      PROVE  Max(known) \in known /\ \A y \in known : y <= Max(known)
  <2>1. PICK x \in known : \A y \in known : y <= x
    <3> HIDE DEF known
    <3> QED BY <1>2, <1>3, GreatestOfFinite
  <2>2. Max(known) = x
    <3> HIDE DEF known
    <3> QED BY <1>2, <2>1, MaxIs
  <2> QED BY <2>1, <2>2
<1> QED BY <1>1, <1>2, <1>3

LEMMA LowerOfTwo ==
    ASSUME NEW x \in Edge, NEW n \in Edge
    PROVE  Lower({x, n}) = IF x = Unseen \/ (n # Unseen /\ n <= x) THEN n ELSE x
<1>1. {x, n} \in SUBSET Edge
  OBVIOUS
<1>2. /\ {x, n} \subseteq {Unseen} => Lower({x, n}) = Unseen
      /\ ~({x, n} \subseteq {Unseen}) =>
            Lower({x, n}) \in {x, n} /\ Lower({x, n}) \in Nat /\ \A y \in {x, n} : y = Unseen \/ Lower({x, n}) <= y
  BY <1>1, LowerIs
<1> QED BY <1>2 DEF Edge, Unseen

LEMMA UpperOfTwo ==
    ASSUME NEW x \in Edge, NEW n \in Edge
    PROVE  Upper({x, n}) = IF x = Unseen \/ (n # Unseen /\ n >= x) THEN n ELSE x
<1>0. {x, n} = {x} \cup {n}
  OBVIOUS
<1>1. {x, n} \in SUBSET Edge /\ IsFiniteSet({x, n})
  <2>1. IsFiniteSet({x} \cup {n})
    BY FS_AddElement, FS_Singleton
  <2> QED BY <1>0, <2>1
<1>2. /\ {x, n} \subseteq {Unseen} => Upper({x, n}) = Unseen
      /\ ~({x, n} \subseteq {Unseen}) =>
            Upper({x, n}) \in {x, n} /\ Upper({x, n}) \in Nat /\ \A y \in {x, n} : y = Unseen \/ y <= Upper({x, n})
  BY <1>1, UpperIs
<1> QED BY <1>2 DEF Edge, Unseen

\* One more block moves the lower edge to itself or not at all.
LEMMA LowerJoin ==
    ASSUME NEW S \in SUBSET Edge, NEW n \in Nat
    PROVE  Lower(S \cup {n}) = Lower({Lower(S), n})
<1>1. S \cup {n} \in SUBSET Edge /\ n \in Edge
  BY DEF Edge
<1>2. /\ Lower(S \cup {n}) \in S \cup {n} /\ Lower(S \cup {n}) \in Nat
      /\ \A y \in S \cup {n} : y = Unseen \/ Lower(S \cup {n}) <= y
  BY <1>1, LowerIs DEF Unseen
<1>3. /\ S \subseteq {Unseen} => Lower(S) = Unseen
      /\ ~(S \subseteq {Unseen}) => Lower(S) \in S /\ Lower(S) \in Nat /\ \A y \in S : y = Unseen \/ Lower(S) <= y
  BY LowerIs
<1>4. Lower(S) \in Edge
  BY <1>3 DEF Edge
<1>5. Lower({Lower(S), n}) = IF Lower(S) = Unseen \/ (n # Unseen /\ n <= Lower(S)) THEN n ELSE Lower(S)
  BY <1>1, <1>4, LowerOfTwo
<1>6. CASE S \subseteq {Unseen}
  BY <1>2, <1>3, <1>5, <1>6 DEF Unseen
<1>7. CASE ~(S \subseteq {Unseen})
  <2> DEFINE low == Lower(S)
  <2>1. low \in S /\ low \in Nat /\ \A y \in S : y = Unseen \/ low <= y
    BY <1>3, <1>7
  <2>2. low # Unseen /\ n # Unseen
    BY <2>1 DEF Unseen
  <2> HIDE DEF low
  <2>3. Lower(S \cup {n}) = IF n <= low THEN n ELSE low
    <3> DEFINE m == Lower(S \cup {n})
    <3>1. m \in Nat /\ (m \in S \/ m = n) /\ m <= low /\ m <= n
      BY <1>2, <2>1, <2>2
    <3>2. m \in S => low <= m
      BY <2>1, <3>1 DEF Unseen
    <3> HIDE DEF m
    <3>3. m = IF n <= low THEN n ELSE low
      BY <2>1, <3>1, <3>2
    <3> QED BY <3>3 DEF m
  <2> QED BY <1>5, <2>2, <2>3 DEF low
<1> QED BY <1>6, <1>7

LEMMA UpperJoin ==
    ASSUME NEW S \in SUBSET Edge, IsFiniteSet(S), NEW n \in Nat
    PROVE  Upper(S \cup {n}) = Upper({Upper(S), n})
<1>1. S \cup {n} \in SUBSET Edge /\ n \in Edge /\ IsFiniteSet(S \cup {n})
  BY FS_AddElement DEF Edge
<1>2. /\ Upper(S \cup {n}) \in S \cup {n} /\ Upper(S \cup {n}) \in Nat
      /\ \A y \in S \cup {n} : y = Unseen \/ y <= Upper(S \cup {n})
  BY <1>1, UpperIs DEF Unseen
<1>3. /\ S \subseteq {Unseen} => Upper(S) = Unseen
      /\ ~(S \subseteq {Unseen}) => Upper(S) \in S /\ Upper(S) \in Nat /\ \A y \in S : y = Unseen \/ y <= Upper(S)
  BY UpperIs
<1>4. Upper(S) \in Edge
  BY <1>3 DEF Edge
<1>5. Upper({Upper(S), n}) = IF Upper(S) = Unseen \/ (n # Unseen /\ n >= Upper(S)) THEN n ELSE Upper(S)
  BY <1>1, <1>4, UpperOfTwo
<1>6. CASE S \subseteq {Unseen}
  BY <1>2, <1>3, <1>5, <1>6 DEF Unseen
<1>7. CASE ~(S \subseteq {Unseen})
  <2> DEFINE high == Upper(S)
  <2>1. high \in S /\ high \in Nat /\ \A y \in S : y = Unseen \/ y <= high
    BY <1>3, <1>7
  <2>2. high # Unseen /\ n # Unseen
    BY <2>1 DEF Unseen
  <2> HIDE DEF high
  <2>3. Upper(S \cup {n}) = IF n >= high THEN n ELSE high
    <3> DEFINE m == Upper(S \cup {n})
    <3>1. m \in Nat /\ (m \in S \/ m = n) /\ high <= m /\ n <= m
      BY <1>2, <2>1, <2>2
    <3>2. m \in S => m <= high
      BY <2>1, <3>1 DEF Unseen
    <3> HIDE DEF m
    <3>3. m = IF n >= high THEN n ELSE high
      BY <2>1, <3>1, <3>2
    <3> QED BY <3>3 DEF m
  <2> QED BY <1>5, <2>2, <2>3 DEF high
<1> QED BY <1>6, <1>7

\* The truth of an address with ledger row l and open blocks B.
TruthOf(l, B) == [txs |-> l.txs + Cardinality(B), first |-> Lower({l.first} \cup B), last |-> Upper({l.last} \cup B)]

LEMMA TruthFrom == \A a : Truth(a) = TruthOf(ledger[a], OpenBlocks(a))
BY DEF Truth, TruthOf

LEMMA OpenIs == Open \subseteq Blocks /\ Blocks \subseteq Nat /\ IsFiniteSet(Open) /\ IsFiniteSet(Blocks)
<1>1. IsFiniteSet(Closed .. TopBlock) /\ IsFiniteSet(0 .. TopBlock)
  BY FS_Interval, RebaseAssumption
<1> QED BY <1>1, RebaseAssumption DEF Open, Blocks

LEMMA OpenBlocksIs == \A a : OpenBlocks(a) \in SUBSET Open
BY DEF OpenBlocks

\* A truth is a row; it is none when the ledger has none and no open block touches the address.
LEMMA TruthIs ==
    ASSUME NEW l \in StatRow, NEW B \in SUBSET Open
    PROVE  TruthOf(l, B) \in StatRow /\ (TruthOf(l, B) = NoStat <=> l = NoStat /\ B = {})
<1>1. B \in SUBSET Nat /\ B \in SUBSET Blocks /\ IsFiniteSet(B) /\ Cardinality(B) \in Nat
  BY OpenIs, FS_Subset, FS_CardinalityType
<1>2. l.txs \in Nat /\ l.first \in Edge /\ l.last \in Edge /\ (l # NoStat => l.first \in Blocks /\ l.last \in Blocks)
  BY RowIs
<1>3. /\ {l.first} \cup B \in SUBSET Edge
      /\ {l.last} \cup B \in SUBSET Edge
  BY <1>1, <1>2 DEF Edge
<1>4. IsFiniteSet({l.last} \cup B)
  BY <1>1, FS_Singleton, FS_Union
<1>5. CASE l = NoStat /\ B = {}
  <2>1. {l.first} \cup B \subseteq {Unseen} /\ {l.last} \cup B \subseteq {Unseen} /\ l.txs = 0
    BY <1>5, UnseenIs DEF Unseen
  <2>2. Lower({l.first} \cup B) = Unseen
    BY <1>3, <2>1, LowerIs
  <2>3. Upper({l.last} \cup B) = Unseen
    BY <1>3, <1>4, <2>1, UpperIs
  <2>4. Cardinality(B) = 0
    BY <1>5, FS_EmptySet
  <2>5. TruthOf(l, B) = NoStat
    BY <2>1, <2>2, <2>3, <2>4 DEF TruthOf, NoStat
  <2> QED BY <1>5, <2>5, UnseenIs
<1>6. CASE ~(l = NoStat /\ B = {})
  <2>1. ~({l.first} \cup B \subseteq {Unseen}) /\ ~({l.last} \cup B \subseteq {Unseen})
    <3>1. CASE B # {}
      <4>1. PICK b \in B : TRUE
        BY <3>1
      <4>2. b \in Nat /\ b # Unseen
        BY <1>1, <4>1 DEF Unseen
      <4> QED BY <4>1, <4>2
    <3>2. CASE l # NoStat
      <4>1. l.first # Unseen /\ l.last # Unseen
        BY <1>2, <3>2, OpenIs DEF Unseen
      <4> QED BY <4>1
    <3> QED BY <1>6, <3>1, <3>2
  <2>2. Lower({l.first} \cup B) \in {l.first} \cup B /\ Lower({l.first} \cup B) \in Nat
    BY <1>3, <2>1, LowerIs
  <2>3. Upper({l.last} \cup B) \in {l.last} \cup B /\ Upper({l.last} \cup B) \in Nat
    BY <1>3, <1>4, <2>1, UpperIs
  <2>4. l = NoStat => l.first \notin Nat /\ l.last \notin Nat
    BY UnseenIs
  <2>5. Lower({l.first} \cup B) \in Blocks /\ Upper({l.last} \cup B) \in Blocks
    BY <1>1, <1>2, <2>2, <2>3, <2>4
  <2>6. l.txs + Cardinality(B) \in Nat
    BY <1>1, <1>2
  <2> QED BY <1>6, <2>5, <2>6, RowMade DEF TruthOf
<1> QED BY <1>5, <1>6

\* Row with one more block: what ingest makes of it.
Plus(r, n) == [txs |-> r.txs + 1, first |-> Lower({r.first, n}), last |-> Upper({r.last, n})]

\* One more open block moves the truth as ingest moves the row.
LEMMA TruthGrows ==
    ASSUME NEW l \in StatRow, NEW B \in SUBSET Open, NEW n \in Open, n \notin B
    PROVE  TruthOf(l, B \cup {n}) = Plus(TruthOf(l, B), n)
<1>1. B \in SUBSET Nat /\ IsFiniteSet(B) /\ Cardinality(B) \in Nat /\ n \in Nat
  BY OpenIs, FS_Subset, FS_CardinalityType
<1>2. l.txs \in Nat /\ l.first \in Edge /\ l.last \in Edge
  BY RowIs
<1>3. /\ {l.first} \cup B \in SUBSET Edge
      /\ {l.last} \cup B \in SUBSET Edge
  BY <1>1, <1>2 DEF Edge
<1>4. IsFiniteSet({l.last} \cup B)
  BY <1>1, FS_Singleton, FS_Union
<1>5. Lower(({l.first} \cup B) \cup {n}) = Lower({Lower({l.first} \cup B), n})
  BY <1>1, <1>3, LowerJoin
<1>6. Upper(({l.last} \cup B) \cup {n}) = Upper({Upper({l.last} \cup B), n})
  BY <1>1, <1>3, <1>4, UpperJoin
<1>7. ({l.first} \cup B) \cup {n} = {l.first} \cup (B \cup {n}) /\ ({l.last} \cup B) \cup {n} = {l.last} \cup (B \cup {n})
  OBVIOUS
<1>8. Cardinality(B \cup {n}) = Cardinality(B) + 1
  BY <1>1, FS_AddElement
<1>9. l.txs + Cardinality(B \cup {n}) = (l.txs + Cardinality(B)) + 1
  BY <1>1, <1>2, <1>8
<1> QED BY <1>5, <1>6, <1>7, <1>9 DEF TruthOf, Plus

\* A row with one more block is a row.
LEMMA PlusIs ==
    ASSUME NEW r \in StatRow, NEW n \in Blocks
    PROVE  /\ Plus(r, n) \in StatRow /\ Plus(r, n) # NoStat
           /\ Plus(r, n).txs = r.txs + 1
           /\ Plus(r, n).first = IF r = NoStat \/ n <= r.first THEN n ELSE r.first
           /\ Plus(r, n).last = IF r = NoStat \/ n >= r.last THEN n ELSE r.last
<1>1. n \in Nat /\ n \in Edge /\ n # Unseen
  BY OpenIs DEF Edge, Unseen
<1>2. /\ r.txs \in Nat /\ r.first \in Edge /\ r.last \in Edge
      /\ r # NoStat => r.first \in Blocks /\ r.last \in Blocks /\ r.first >= 0 /\ r.last >= 0
  BY RowIs
<1>3. Lower({r.first, n}) = IF r.first = Unseen \/ (n # Unseen /\ n <= r.first) THEN n ELSE r.first
  BY <1>1, <1>2, LowerOfTwo
<1>4. Upper({r.last, n}) = IF r.last = Unseen \/ (n # Unseen /\ n >= r.last) THEN n ELSE r.last
  BY <1>1, <1>2, UpperOfTwo
<1>5. (r.first = Unseen <=> r = NoStat) /\ (r.last = Unseen <=> r = NoStat)
  BY <1>2, UnseenIs
<1>6. Lower({r.first, n}) = IF r = NoStat \/ n <= r.first THEN n ELSE r.first
  BY <1>1, <1>3, <1>5
<1>7. Upper({r.last, n}) = IF r = NoStat \/ n >= r.last THEN n ELSE r.last
  BY <1>1, <1>4, <1>5
<1>8. Lower({r.first, n}) \in Blocks /\ Upper({r.last, n}) \in Blocks /\ r.txs + 1 \in Nat
  BY <1>2, <1>6, <1>7
<1>9. Plus(r, n) \in StatRow /\ Plus(r, n) # NoStat
  BY <1>8, RowMade DEF Plus
<1> QED BY <1>6, <1>7, <1>9 DEF Plus

\* What ingest adds, it adds to a row and to its truth.
LEMMA MovedPlus ==
    ASSUME NEW v \in ReadRecord, Seen(v), NEW s \in StatRow, NEW t \in StatRow, NEW n \in Blocks, Moved(v, s, t)
    PROVE  Moved(v, Plus(s, n), Plus(t, n))
<1> DEFINE w == v.want
<1> DEFINE o == v.row
<1>1. w \in StatRow /\ o \in StatRow /\ w # NoStat
  BY DEF ReadRecord, Seen
<1>2. /\ w.txs \in Nat /\ w.first \in Nat /\ w.last \in Nat
      /\ o.txs \in Nat /\ o.first \in Edge /\ o.last \in Edge /\ (o # NoStat => o.first \in Nat /\ o.last \in Nat)
  BY <1>1, RowIs, OpenIs
<1>3. /\ s.txs \in Nat /\ s.first \in Edge /\ s.last \in Edge /\ (s # NoStat => s.first \in Nat /\ s.last \in Nat)
      /\ t.txs \in Nat /\ (t # NoStat => t.first \in Nat /\ t.last \in Nat)
  BY RowIs, OpenIs
<1>4. n \in Nat
  BY OpenIs
<1>5. /\ Plus(s, n) # NoStat
      /\ Plus(s, n).txs = s.txs + 1
      /\ Plus(s, n).first = IF s = NoStat \/ n <= s.first THEN n ELSE s.first
      /\ Plus(s, n).last = IF s = NoStat \/ n >= s.last THEN n ELSE s.last
  BY PlusIs
<1>6. /\ Plus(t, n) # NoStat
      /\ Plus(t, n).txs = t.txs + 1
      /\ Plus(t, n).first = IF t = NoStat \/ n <= t.first THEN n ELSE t.first
      /\ Plus(t, n).last = IF t = NoStat \/ n >= t.last THEN n ELSE t.last
  BY PlusIs
<1>7. Plus(t, n).txs - w.txs = Plus(s, n).txs - o.txs
  BY <1>2, <1>3, <1>5, <1>6 DEF Moved
<1>8. ASSUME Present(v)
      PROVE  /\ LowerMoved(Plus(s, n).first, o.first, Plus(t, n).first, w.first)
             /\ UpperMoved(Plus(s, n).last, o.last, Plus(t, n).last, w.last)
  <2>1. /\ s # NoStat /\ t # NoStat /\ o # NoStat
        /\ LowerMoved(s.first, o.first, t.first, w.first)
        /\ UpperMoved(s.last, o.last, t.last, w.last)
    BY <1>8 DEF Moved, Present
  <2>2. LowerMoved(Plus(s, n).first, o.first, Plus(t, n).first, w.first)
    BY <1>2, <1>3, <1>4, <1>5, <1>6, <2>1 DEF LowerMoved
  <2>3. UpperMoved(Plus(s, n).last, o.last, Plus(t, n).last, w.last)
    BY <1>2, <1>3, <1>4, <1>5, <1>6, <2>1 DEF UpperMoved
  <2> QED BY <2>2, <2>3
<1>9. ASSUME ~Present(v)
      PROVE  /\ Plus(t, n).first = Lower({Plus(s, n).first, w.first})
             /\ Plus(t, n).last = Upper({Plus(s, n).last, w.last})
  <2>1. t # NoStat /\ t.first = Lower({s.first, w.first}) /\ t.last = Upper({s.last, w.last})
    BY <1>9 DEF Moved
  <2>2. w.first \in Edge /\ w.last \in Edge /\ w.first # Unseen /\ w.last # Unseen
    BY <1>2 DEF Edge, Unseen
  <2>3. Lower({s.first, w.first}) = IF s.first = Unseen \/ w.first <= s.first THEN w.first ELSE s.first
    BY <1>3, <2>2, LowerOfTwo
  <2>4. Upper({s.last, w.last}) = IF s.last = Unseen \/ w.last >= s.last THEN w.last ELSE s.last
    BY <1>3, <2>2, UpperOfTwo
  <2>5. Plus(s, n).first \in Nat /\ Plus(s, n).last \in Nat
    BY <1>3, <1>4, <1>5
  <2>6. Plus(s, n).first \in Edge /\ Plus(s, n).last \in Edge /\ Plus(s, n).first # Unseen /\ Plus(s, n).last # Unseen
    BY <2>5 DEF Edge, Unseen
  <2>7. Lower({Plus(s, n).first, w.first}) = IF w.first <= Plus(s, n).first THEN w.first ELSE Plus(s, n).first
    BY <2>2, <2>6, LowerOfTwo
  <2>8. Upper({Plus(s, n).last, w.last}) = IF w.last >= Plus(s, n).last THEN w.last ELSE Plus(s, n).last
    BY <2>2, <2>6, UpperOfTwo
  <2>9. (s.first = Unseen <=> s = NoStat) /\ (s.last = Unseen <=> s = NoStat)
    BY <1>3, UnseenIs
  <2>10. Plus(t, n).first = Lower({Plus(s, n).first, w.first})
    BY <1>2, <1>3, <1>4, <1>5, <1>6, <2>1, <2>3, <2>7, <2>9
  <2>11. Plus(t, n).last = Upper({Plus(s, n).last, w.last})
    BY <1>2, <1>3, <1>4, <1>5, <1>6, <2>1, <2>4, <2>8, <2>9
  <2> QED BY <2>10, <2>11
<1> QED BY <1>5, <1>6, <1>7, <1>8, <1>9 DEF Moved

\* What a rebase leaves of a row no revert came across since the read is its truth.
LEMMA MovedCorrected ==
    ASSUME NEW v \in ReadRecord, Seen(v), NEW s \in StatRow, NEW t \in StatRow, Moved(v, s, t)
    PROVE  /\ Present(v) /\ Differs(v) =>
                [txs   |-> s.txs + v.want.txs - v.row.txs,
                 first |-> CorrectedEdge(s.first, v.row.first, v.want.first, Lower({s.first, v.want.first}), t.first),
                 last  |-> CorrectedEdge(s.last, v.row.last, v.want.last, Upper({s.last, v.want.last}), t.last)] = t
           /\ Present(v) /\ ~Differs(v) => s = t
           /\ ~Present(v) => [txs |-> s.txs + v.want.txs, first |-> Lower({s.first, v.want.first}),
                              last |-> Upper({s.last, v.want.last})] = t
<1> DEFINE w == v.want
<1> DEFINE o == v.row
<1>1. w \in StatRow /\ o \in StatRow /\ w # NoStat
  BY DEF ReadRecord, Seen
<1>2. /\ w.txs \in Nat /\ w.first \in Nat /\ w.last \in Nat
      /\ o.txs \in Nat /\ o.first \in Edge /\ o.last \in Edge /\ (o # NoStat => o.first \in Nat /\ o.last \in Nat)
  BY <1>1, RowIs, OpenIs
<1>3. /\ s.txs \in Nat /\ s.first \in Edge /\ s.last \in Edge /\ (s # NoStat => s.first \in Nat /\ s.last \in Nat)
      /\ t.txs \in Nat /\ t.first \in Nat /\ t.last \in Nat
      /\ s = [txs |-> s.txs, first |-> s.first, last |-> s.last]
      /\ t = [txs |-> t.txs, first |-> t.first, last |-> t.last]
  BY RowIs, OpenIs DEF Moved
<1>4. t.txs = s.txs + w.txs - o.txs
  BY <1>2, <1>3 DEF Moved
<1>5. w.first \in Edge /\ w.last \in Edge /\ w.first # Unseen /\ w.last # Unseen
  BY <1>2 DEF Edge, Unseen
<1>6. Lower({s.first, w.first}) = IF s.first = Unseen \/ w.first <= s.first THEN w.first ELSE s.first
  BY <1>3, <1>5, LowerOfTwo
<1>7. Upper({s.last, w.last}) = IF s.last = Unseen \/ w.last >= s.last THEN w.last ELSE s.last
  BY <1>3, <1>5, UpperOfTwo
<1>8. ASSUME Present(v)
      PROVE  /\ s.first \in Nat /\ s.last \in Nat /\ o.first \in Nat /\ o.last \in Nat
             /\ LowerMoved(s.first, o.first, t.first, w.first)
             /\ UpperMoved(s.last, o.last, t.last, w.last)
  BY <1>2, <1>3, <1>8 DEF Moved, Present
<1>9. ASSUME Present(v), Differs(v)
      PROVE  /\ CorrectedEdge(s.first, o.first, w.first, Lower({s.first, w.first}), t.first) = t.first
             /\ CorrectedEdge(s.last, o.last, w.last, Upper({s.last, w.last}), t.last) = t.last
  <2>1. s.first # Unseen /\ s.last # Unseen
    BY <1>8, <1>9 DEF Unseen
  <2>2. CorrectedEdge(s.first, o.first, w.first, Lower({s.first, w.first}), t.first) = t.first
    BY <1>2, <1>3, <1>6, <1>8, <1>9, <2>1 DEF LowerMoved, CorrectedEdge
  <2>3. CorrectedEdge(s.last, o.last, w.last, Upper({s.last, w.last}), t.last) = t.last
    BY <1>2, <1>3, <1>7, <1>8, <1>9, <2>1 DEF UpperMoved, CorrectedEdge
  <2> QED BY <2>2, <2>3
<1>10. ASSUME Present(v), ~Differs(v)
       PROVE  s = t
  <2>1. o = w
    BY <1>10 DEF Differs
  <2>2. s.txs = t.txs
    BY <1>2, <1>3, <1>4, <2>1
  <2>3. s.first = t.first
    BY <1>2, <1>3, <1>8, <1>10, <2>1 DEF LowerMoved
  <2>4. s.last = t.last
    BY <1>2, <1>3, <1>8, <1>10, <2>1 DEF UpperMoved
  <2> QED BY <1>3, <2>2, <2>3, <2>4
<1>11. ASSUME ~Present(v)
       PROVE  [txs |-> s.txs + w.txs, first |-> Lower({s.first, w.first}), last |-> Upper({s.last, w.last})] = t
  <2>1. o.txs = 0
    BY <1>11, UnseenIs DEF Present
  <2>2. t.txs = s.txs + w.txs
    BY <1>2, <1>3, <1>4, <2>1
  <2>3. t.first = Lower({s.first, w.first}) /\ t.last = Upper({s.last, w.last})
    BY <1>11 DEF Moved
  <2> QED BY <1>3, <2>2, <2>3
<1> QED BY <1>3, <1>4, <1>9, <1>10, <1>11

-----------------------------------------------------------------------------
(* What each part of the invariant depends on *)

LEMMA TruthStays ==
    ASSUME UNCHANGED <<held, ledger>>
    PROVE  \A a : OpenBlocks(a)' = OpenBlocks(a) /\ Truth(a)' = Truth(a)
<1>1. \A a : OpenBlocks(a)' = OpenBlocks(a)
  BY DEF OpenBlocks
<1> QED BY <1>1 DEF Truth

LEMMA WritersStay ==
    ASSUME WritersInv, UNCHANGED <<writers, rowLock, held>>
    PROVE  WritersInv'
BY DEF WritersInv, Hit

LEMMA RevertStays ==
    ASSUME RevertInv, UNCHANGED <<writers, rowLock, held, ledger, stats>>, past'.passed = past.passed,
           rebase'.revertLock => rebase.revertLock
    PROVE  RevertInv'
<1>1. \A a : OpenBlocks(a)' = OpenBlocks(a)
  BY TruthStays
<1>2. \A a : Decided(a)' = Decided(a)
  BY <1>1 DEF Decided
<1> QED BY <1>2 DEF RevertInv, Hit

LEMMA BatchStays ==
    ASSUME BatchInv, UNCHANGED <<rebase, recorded, rowLock, stats>>
    PROVE  BatchInv'
BY DEF BatchInv, Making

LEMMA KeptStays ==
    ASSUME KeptInv, UNCHANGED <<rebase, recorded, rowLock, stats, held, ledger>>, past'.passed = past.passed
    PROVE  KeptInv'
<1>1. \A a : Truth(a)' = Truth(a)
  BY TruthStays
<1>2. \A a : Late(a)' = Late(a)
  BY DEF Late
<1> QED BY <1>1, <1>2 DEF KeptInv

LEMMA MovedStays ==
    ASSUME MovedInv, UNCHANGED <<rebase, recorded, stats, held, ledger>>
    PROVE  MovedInv'
<1>1. \A a : Truth(a)' = Truth(a)
  BY TruthStays
<1> QED BY <1>1 DEF MovedInv

LEMMA DaysStay ==
    ASSUME DaysInv, UNCHANGED <<moves, days>>, past'.made = past.made
    PROVE  DaysInv'
BY DEF DaysInv

LEMMA AccountsStay ==
    ASSUME RowsAccounted, UNCHANGED <<addresses, stats, moves>>, past'.made = past.made, past'.seen = past.seen
    PROVE  RowsAccounted'
BY DEF RowsAccounted

\* Everything about rows, writers and the rebase, when a step leaves them alone.
LEMMA RowsStay ==
    ASSUME WritersInv, RevertInv, BatchInv, KeptInv, MovedInv,
           UNCHANGED <<held, ledger, stats, recorded, rowLock, writers, rebase>>, past'.passed = past.passed
    PROVE  WritersInv' /\ RevertInv' /\ BatchInv' /\ KeptInv' /\ MovedInv'
<1>1. WritersInv'
  BY WritersStay
<1>2. RevertInv'
  BY RevertStays
<1>3. BatchInv'
  BY BatchStays
<1>4. KeptInv'
  BY KeptStays
<1>5. MovedInv'
  BY MovedStays
<1> QED BY <1>1, <1>2, <1>3, <1>4, <1>5

-----------------------------------------------------------------------------
(* The first state *)

LEMMA EmptyIs == DOMAIN <<>> = {} /\ <<>> \in Reads /\ <<>> \in Leaves
<1>1. DOMAIN <<>> = {} /\ <<>> \in [{} -> ReadRecord] /\ <<>> \in [{} -> StatRow]
  OBVIOUS
<1> QED BY <1>1 DEF Reads, Leaves

\* What was read is read of addresses.
LEMMA ReadsIs ==
    ASSUME NEW f \in Reads
    PROVE  DOMAIN f \subseteq Addr /\ \A a \in DOMAIN f : f[a] \in ReadRecord
BY DEF Reads

LEMMA ReadsMade ==
    ASSUME NEW D \in SUBSET Addr, NEW f \in [D -> ReadRecord]
    PROVE  f \in Reads
BY DEF Reads

LEMMA IdleIs == IdleWriter \in WriterType /\ IdleRebase \in RebaseType /\ IdleWalk \in WalkType
<1>1. IdleWriter \in WriterType
  BY EmptyIs, RebaseAssumption DEF IdleWriter, WriterType, Blocks
<1>2. IdleRebase \in RebaseType
  BY EmptyIs DEF IdleRebase, RebaseType
<1>3. IdleWalk \in WalkType
  BY DEF IdleWalk, WalkType
<1> QED BY <1>1, <1>2, <1>3

LEMMA InitInvariant ==
    ASSUME RebaseInit
    PROVE  RebaseInv
<1>1. PICK s \in RebaseScenarios : RebaseInitWith(s)
  BY DEF RebaseInit
<1>2. s \in RebaseTrouble
  BY RebaseAssumption
<1> USE <1>1 DEF RebaseInitWith
<1>3. /\ s.held \in [Open -> 0 .. 2] /\ s.drift.ledger \in [Addr -> StatRow] /\ s.drift.stats \in [Addr -> StatRow]
      /\ s.drift.count \in Nat /\ s.index \in {"absent", "invalid", "ready"}
  BY <1>2 DEF RebaseTrouble
<1>4. IsFiniteSet({a \in Addr : stats[a] # NoStat})
  BY RebaseAssumption, FS_Subset
<1>5. addresses \in Nat /\ RowsAccounted
  BY <1>4, FS_CardinalityType DEF RowsAccounted
<1>6. TypesInv
  <2>1. writers \in [Writer -> WriterType] /\ rebase \in RebaseType /\ walk \in [Walker -> WalkType]
    BY IdleIs
  <2>2. check \in [found : SUBSET Key, off : Int] /\ days \in [on : BOOLEAN, pending : Nat, upto : Nat]
    BY DEF NoDrift, IdleDays
  <2>3. past \in [made : Nat, seen : Nat, lost : SUBSET Addr, passed : SUBSET Addr]
    OBVIOUS
  <2>4. rowLock \in [Addr -> Writer \cup {"free", "rebase"}] /\ recorded \in [Addr -> Nat] /\ \A a \in Addr : recorded[a] <= version
    OBVIOUS
  <2> QED BY <1>2, <1>3, <1>5, <2>1, <2>2, <2>3, <2>4 DEF TypesInv
<1>7. WritersInv
  BY DEF WritersInv, IdleWriter, Writer
<1>8. RevertInv
  BY DEF RevertInv, IdleWriter, Writer
<1>9. BatchInv
  BY EmptyIs DEF BatchInv, IdleRebase, Making
<1>10. KeptInv /\ MovedInv
  BY EmptyIs DEF KeptInv, MovedInv, IdleRebase
<1>11. DaysInv
  BY DEF DaysInv, IdleDays
<1> QED BY <1>5, <1>6, <1>7, <1>8, <1>9, <1>10, <1>11 DEF RebaseInv

-----------------------------------------------------------------------------
(* Steps that leave the rows and their locks alone *)

LEMMA TroubleLess ==
    ASSUME toCome \in RebaseTrouble
    PROVE  /\ toCome.ingests > 0 => [toCome EXCEPT !.ingests = @ - 1] \in RebaseTrouble
           /\ toCome.reverts > 0 => [toCome EXCEPT !.reverts = @ - 1] \in RebaseTrouble
           /\ toCome.spans > 0 => [toCome EXCEPT !.spans = @ - 1] \in RebaseTrouble
           /\ toCome.faults > 0 => [toCome EXCEPT !.faults = @ - 1] \in RebaseTrouble
           /\ toCome.settles > 0 => [toCome EXCEPT !.settles = @ - 1] \in RebaseTrouble
           /\ toCome.checks > 0 => [toCome EXCEPT !.checks = @ - 1] \in RebaseTrouble
           /\ toCome.walks > 0 => [toCome EXCEPT !.walks = @ - 1] \in RebaseTrouble
           /\ toCome.crashes > 0 => [toCome EXCEPT !.crashes = @ - 1] \in RebaseTrouble
<1>1. toCome.ingests > 0 => [toCome EXCEPT !.ingests = @ - 1] \in RebaseTrouble
  BY DEF RebaseTrouble
<1>2. toCome.reverts > 0 => [toCome EXCEPT !.reverts = @ - 1] \in RebaseTrouble
  BY DEF RebaseTrouble
<1>3. toCome.spans > 0 => [toCome EXCEPT !.spans = @ - 1] \in RebaseTrouble
  BY DEF RebaseTrouble
<1>4. toCome.faults > 0 => [toCome EXCEPT !.faults = @ - 1] \in RebaseTrouble
  BY DEF RebaseTrouble
<1>5. toCome.settles > 0 => [toCome EXCEPT !.settles = @ - 1] \in RebaseTrouble
  BY DEF RebaseTrouble
<1>6. toCome.checks > 0 => [toCome EXCEPT !.checks = @ - 1] \in RebaseTrouble
  BY DEF RebaseTrouble
<1>7. toCome.walks > 0 => [toCome EXCEPT !.walks = @ - 1] \in RebaseTrouble
  BY DEF RebaseTrouble
<1>8. toCome.crashes > 0 => [toCome EXCEPT !.crashes = @ - 1] \in RebaseTrouble
  BY DEF RebaseTrouble
<1> QED BY <1>1, <1>2, <1>3, <1>4, <1>5, <1>6, <1>7, <1>8

\* A span closing, the indexes being built.
LEMMA QuietSteps ==
    ASSUME RebaseInv, SpanCloses \/ IndexBuilt \/ IndexBuildStops
    PROVE  RebaseInv'
<1> USE DEF RebaseInv
<1>1. UNCHANGED <<held, stats, addresses, txsTotal, ledger, recorded, version, rowLock, writers, rebase, check, walk, moves, days, past>>
  BY DEF SpanCloses, IndexBuilt, IndexBuildStops, verifyVars, rowVars, dayVars
<1>2. WritersInv' /\ RevertInv' /\ BatchInv' /\ KeptInv' /\ MovedInv'
  BY <1>1, RowsStay
<1>3. DaysInv' /\ RowsAccounted'
  BY <1>1, DaysStay, AccountsStay
<1>4. toCome' \in RebaseTrouble /\ index' \in {"absent", "invalid", "ready"}
  BY TroubleLess DEF TypesInv, SpanCloses, IndexBuilt, IndexBuildStops
<1>5. TypesInv'
  BY <1>1, <1>4 DEF TypesInv
<1> QED BY <1>2, <1>3, <1>5

LEMMA DaySteps ==
    ASSUME RebaseInv, DaysNext
    PROVE  RebaseInv'
<1> USE DEF RebaseInv
<1>1. UNCHANGED <<held, ledger, stats, addresses, txsTotal, recorded, version, rowLock, writers, rebase, index, check, walk>>
  BY DEF DaysNext, DaysRecount, DaysClear, DaysFail, rowVars, verifyVars
<1>2. /\ past \in [made : Nat, seen : Nat, lost : SUBSET Addr, passed : SUBSET Addr] /\ moves \in Nat
      /\ days \in [on : BOOLEAN, pending : Nat, upto : Nat] /\ toCome \in RebaseTrouble
  BY DEF TypesInv
<1>3. CASE DaysRecount
  <2>1. past' = past /\ moves' = moves /\ toCome' = toCome /\ days' \in [on : BOOLEAN, pending : Nat, upto : Nat]
    BY <1>2, <1>3 DEF DaysRecount
  <2>2. DaysInv'
    BY <1>2, <1>3, <2>1 DEF DaysRecount, DaysInv
  <2>3. TypesInv'
    BY <1>1, <2>1 DEF TypesInv
  <2> QED BY <1>1, <2>1, <2>2, <2>3, RowsStay, AccountsStay
<1>4. CASE DaysClear
  <2>1. /\ past' \in [made : Nat, seen : Nat, lost : SUBSET Addr, passed : SUBSET Addr] /\ moves' \in Nat
        /\ past'.passed = past.passed /\ past'.made = past.made /\ past'.seen = days.upto
        /\ moves' = (IF moves = days.pending THEN 0 ELSE moves) /\ days.on
    BY <1>2, <1>4 DEF DaysClear, ClearRead
  <2>2. toCome' = toCome /\ days' = IdleDays /\ IdleDays \in [on : BOOLEAN, pending : Nat, upto : Nat]
    BY <1>2, <1>4 DEF DaysClear, IdleDays
  <2>3. TypesInv'
    BY <1>1, <2>1, <2>2 DEF TypesInv
  <2>4. DaysInv'
    BY <2>2 DEF IdleDays, DaysInv
  <2>5. past'.seen < past'.made => moves' > 0
    BY <1>2, <2>1 DEF DaysInv
  <2>6. RowsAccounted'
    BY <1>1, <2>5 DEF RowsAccounted
  <2> QED BY <1>1, <2>1, <2>3, <2>4, <2>6, RowsStay
<1>5. CASE DaysFail
  <2>1. past' = past /\ moves' = moves /\ days' = IdleDays /\ IdleDays \in [on : BOOLEAN, pending : Nat, upto : Nat]
    BY <1>5 DEF DaysFail, IdleDays
  <2>2. toCome' \in RebaseTrouble
    BY <1>2, <1>5, TroubleLess DEF DaysFail
  <2>3. TypesInv'
    BY <1>1, <2>1, <2>2 DEF TypesInv
  <2>4. DaysInv'
    BY <2>1 DEF IdleDays, DaysInv
  <2> QED BY <1>1, <2>1, <2>3, <2>4, RowsStay, AccountsStay
<1> QED BY <1>3, <1>4, <1>5 DEF DaysNext

LEMMA TotalIs == TrueTotal \in Nat
<1>1. IsFiniteSet({n \in Open : held[n] # 0})
  BY OpenIs, FS_Subset
<1> QED BY <1>1, FS_CardinalityType, RebaseAssumption DEF TrueTotal

LEMMA DriftsFinite == \A bucket : DriftedIn(bucket) \subseteq Addr /\ Cardinality(DriftedIn(bucket)) \in Nat
<1> TAKE bucket
<1>1. DriftedIn(bucket) \in SUBSET Addr
  BY DEF DriftedIn
<1> QED BY <1>1, RebaseAssumption, FS_Subset, FS_CardinalityType

\* A check or a walk that reads, a walk that moves on.
LEMMA ReadingSteps ==
    ASSUME RebaseInv,
           \/ \E bucket \in 0 .. AddressBuckets - 1 : CheckRead(bucket)
           \/ \E k \in Walker : WalkRead(k) \/ WalkDone(k)
           \/ RepairFinish
    PROVE  RebaseInv'
<1> USE DEF RebaseInv
<1>1. UNCHANGED <<held, ledger, stats, addresses, txsTotal, recorded, version, rowLock, writers, rebase, index, moves, days, past>>
  BY DEF CheckRead, WalkRead, WalkDone, RepairFinish, rowVars, dayVars
<1>2. WritersInv' /\ RevertInv' /\ BatchInv' /\ KeptInv' /\ MovedInv'
  BY <1>1, RowsStay
<1>3. DaysInv' /\ RowsAccounted'
  BY <1>1, DaysStay, AccountsStay
<1>4. toCome' \in RebaseTrouble
  BY TroubleLess DEF TypesInv, CheckRead, WalkRead, WalkDone, RepairFinish
<1>5. check' \in [found : SUBSET Key, off : Int] /\ walk' \in [Walker -> WalkType]
  <2>0. check \in [found : SUBSET Key, off : Int] /\ walk \in [Walker -> WalkType] /\ txsTotal \in Nat
    BY DEF TypesInv
  <2>1. CASE \E bucket \in 0 .. AddressBuckets - 1 : CheckRead(bucket)
    <3>1. PICK bucket \in 0 .. AddressBuckets - 1 : CheckRead(bucket)
      BY <2>1
    <3>2. ChainDrift \subseteq Key
      BY DEF ChainDrift, Key
    <3>3. DOMAIN NoStat = {"txs", "first", "last"}
      BY DEF NoStat
    <3>4. \A a \in Addr : DriftsOf(a) \subseteq Key
      BY <3>3 DEF DriftsOf, Key
    <3>5. UNION {DriftsOf(a) : a \in DriftedIn(bucket)} \subseteq Key
      BY <3>4, DriftsFinite
    <3> QED BY <2>0, <3>1, <3>2, <3>5, TotalIs DEF CheckRead
  <2>2. CASE \E k \in Walker : WalkRead(k) \/ WalkDone(k)
    <3>1. PICK k \in Walker : WalkRead(k) \/ WalkDone(k)
      BY <2>2
    <3>2. UNCHANGED check
      BY <3>1 DEF WalkRead, WalkDone
    <3>3. walk[k] \in WalkType
      BY <2>0
    <3>4. CASE WalkRead(k)
      <4> DEFINE S == DriftedIn(walk[k].next)
      <4>1. S \in SUBSET Addr /\ Cardinality(S) \in Nat
        BY DriftsFinite
      <4>2. walk' = [walk EXCEPT ![k] = [walk[k] EXCEPT !.on = TRUE, !.found = S, !.size = Cardinality(S)]]
        BY <3>4 DEF WalkRead
      <4> HIDE DEF S
      <4>3. [walk[k] EXCEPT !.on = TRUE, !.found = S, !.size = Cardinality(S)] \in WalkType
        BY <3>3, <4>1 DEF WalkType
      <4> QED BY <2>0, <3>2, <4>2, <4>3
    <3>5. CASE WalkDone(k)
      <4>1. walk' = [walk EXCEPT ![k] = [walk[k] EXCEPT !.on = FALSE, !.next = walk[k].next + 1]]
        BY <3>5 DEF WalkDone
      <4>2. [walk[k] EXCEPT !.on = FALSE, !.next = walk[k].next + 1] \in WalkType
        <5>1. walk[k].next \in Nat /\ walk[k].next + 1 \in Nat
          BY <3>3 DEF WalkType
        <5> QED BY <3>3, <5>1 DEF WalkType
      <4> QED BY <2>0, <3>2, <4>1, <4>2
    <3> QED BY <3>1, <3>4, <3>5
  <2>3. CASE RepairFinish
    BY <2>0, <2>3, IdleIs DEF RepairFinish
  <2> QED BY <2>1, <2>2, <2>3
<1>6. TypesInv'
  BY <1>1, <1>4, <1>5 DEF TypesInv
<1> QED BY <1>2, <1>3, <1>6

-----------------------------------------------------------------------------
(* A rebase reads *)

LEMMA TruthTyped ==
    ASSUME TypesInv
    PROVE  \A a \in Addr : /\ Truth(a) \in StatRow
                           /\ Truth(a) = NoStat <=> ledger[a] = NoStat /\ OpenBlocks(a) = {}
<1> TAKE a \in Addr
<1>1. ledger[a] \in StatRow /\ OpenBlocks(a) \in SUBSET Open
  BY OpenBlocksIs DEF TypesInv
<1> QED BY <1>1, TruthFrom, TruthIs

LEMMA ReadRowIs ==
    ASSUME TypesInv, NEW a \in Addr, NEW c \in BOOLEAN
    PROVE  ReadRow(a, c) \in ReadRecord
BY TruthTyped DEF TypesInv, ReadRow, ReadRecord

\* At the read nothing has moved yet.
LEMMA MovedAtRead ==
    ASSUME NEW v \in ReadRecord, Seen(v)
    PROVE  Moved(v, v.row, v.want)
<1>1. v.row \in StatRow /\ v.want \in StatRow /\ v.want # NoStat
  BY DEF ReadRecord, Seen
<1>2. /\ v.row.txs \in Nat /\ v.row.first \in Edge /\ v.row.last \in Edge
      /\ v.row # NoStat => v.row.first \in Nat /\ v.row.last \in Nat
      /\ v.want.txs \in Nat /\ v.want.first \in Nat /\ v.want.last \in Nat
  BY <1>1, RowIs, OpenIs
<1>3. Present(v) => /\ LowerMoved(v.row.first, v.row.first, v.want.first, v.want.first)
                    /\ UpperMoved(v.row.last, v.row.last, v.want.last, v.want.last)
  BY <1>2 DEF Present, LowerMoved, UpperMoved
<1>4. ASSUME ~Present(v)
      PROVE  v.want.first = Lower({v.row.first, v.want.first}) /\ v.want.last = Upper({v.row.last, v.want.last})
  <2>1. v.row.first = Unseen /\ v.row.last = Unseen
    BY <1>4, UnseenIs DEF Present, Unseen
  <2>2. v.want.first \in Edge /\ v.want.last \in Edge
    BY <1>2 DEF Edge
  <2>3. Lower({v.row.first, v.want.first}) = v.want.first
    BY <1>2, <2>1, <2>2, LowerOfTwo
  <2>4. Upper({v.row.last, v.want.last}) = v.want.last
    BY <1>2, <2>1, <2>2, UpperOfTwo
  <2> QED BY <2>3, <2>4
<1>5. v.want.txs - v.want.txs = v.row.txs - v.row.txs
  BY <1>2
<1> QED BY <1>1, <1>3, <1>4, <1>5 DEF Moved, Present

\* An idle rebase reads the rows S, and has them as its batch or none yet.
LEMMA FreshRead ==
    ASSUME RebaseInv, rebase = IdleRebase,
           UNCHANGED <<held, stats, ledger, recorded, version, rowLock, writers>>, past'.passed = past.passed,
           rebase' \in RebaseType,
           \A a \in DOMAIN rebase'.read : /\ rebase'.read[a].row = stats[a]
                                          /\ rebase'.read[a].want = Truth(a)
                                          /\ rebase'.read[a].reverted = recorded[a],
           rebase'.batch \subseteq DOMAIN rebase'.read, rebase'.todo = rebase'.batch, rebase'.made = {}, rebase'.stale = {},
           ~rebase'.ready, ~rebase'.revertLock
    PROVE  WritersInv' /\ RevertInv' /\ BatchInv' /\ KeptInv' /\ MovedInv'
<1> USE DEF RebaseInv
<1>1. rebase'.read \in Reads
  BY DEF RebaseType
<1>2. DOMAIN rebase'.read \subseteq Addr /\ \A a \in DOMAIN rebase'.read : rebase'.read[a] \in ReadRecord
  BY <1>1, ReadsIs
<1>3. \A a \in Addr : rowLock[a] # "rebase"
  BY DEF BatchInv, IdleRebase
<1>4. \A a : Truth(a)' = Truth(a)
  BY TruthStays
<1>5. WritersInv'
  BY WritersStay
<1>6. RevertInv'
  BY RevertStays
<1>7. \A a \in Addr : recorded[a] \in Nat /\ stats[a] \in StatRow /\ Truth(a) \in StatRow
  BY TruthTyped DEF TypesInv
<1>8. BatchInv'
  BY <1>2, <1>3, <1>7 DEF BatchInv
<1>9. \A a \in DOMAIN rebase'.read : ~Late(a)'
  BY DEF Late
<1>10. KeptInv'
  <2> SUFFICES ASSUME NEW a \in DOMAIN rebase'.read
               PROVE  LET v == rebase'.read[a]
                      IN /\ Present(v) => /\ stats'[a] # NoStat
                                          /\ stats'[a].txs >= v.row.txs /\ stats'[a].first <= v.row.first
                                          /\ Seen(v) => Truth(a)' # NoStat
                         /\ recorded'[a] = v.reverted
    BY <1>9 DEF KeptInv
  <2>1. stats[a].txs \in Nat /\ stats[a].first \in Edge
    BY <1>2, <1>7, RowIs
  <2>2. stats[a].txs >= stats[a].txs /\ stats[a].first <= stats[a].first
    BY <2>1 DEF Edge, Unseen
  <2> QED BY <1>4, <2>2 DEF Present, Seen
<1>11. MovedInv'
  BY <1>2, <1>4, MovedAtRead DEF MovedInv
<1> QED BY <1>5, <1>6, <1>8, <1>10, <1>11

\* A batch of S begins.
LEMMA BatchStarts ==
    ASSUME RebaseInv, rebase = IdleRebase,
           UNCHANGED <<held, stats, ledger, recorded, version, rowLock, writers>>, past'.passed = past.passed,
           NEW kind \in {"check"} \cup Walker, NEW S \in SUBSET Addr, NEW logs \in SUBSET Key, BatchStart(kind, S, logs)
    PROVE  rebase' \in RebaseType /\ WritersInv' /\ RevertInv' /\ BatchInv' /\ KeptInv' /\ MovedInv'
<1> DEFINE f == [a \in S |-> ReadRow(a, TRUE)]
<1>1. f \in Reads
  <2>1. f \in [S -> ReadRecord]
    BY ReadRowIs DEF RebaseInv
  <2> HIDE DEF f
  <2> QED BY <2>1, ReadsMade
<1>2. rebase' = [IdleRebase EXCEPT !.kind = kind, !.read = f, !.batch = S, !.todo = S, !.logs = logs]
  BY DEF BatchStart
<1>3. DOMAIN f = S /\ \A a \in S : f[a].row = stats[a] /\ f[a].want = Truth(a) /\ f[a].reverted = recorded[a]
  BY DEF ReadRow
<1> HIDE DEF f
<1>4. rebase' = [kind |-> kind, read |-> f, batch |-> S, todo |-> S, made |-> {}, stale |-> {}, ready |-> FALSE,
                 revertLock |-> FALSE, logs |-> logs]
  BY <1>2 DEF IdleRebase
<1>5. rebase' \in RebaseType
  BY <1>1, <1>4 DEF RebaseType
<1>6. /\ rebase'.read = f /\ rebase'.batch = S /\ rebase'.todo = S /\ rebase'.made = {} /\ rebase'.stale = {}
      /\ ~rebase'.ready /\ ~rebase'.revertLock
  BY <1>4
<1> QED BY <1>3, <1>5, <1>6, FreshRead

LEMMA SpanStageStep ==
    ASSUME RebaseInv, NEW own \in SUBSET Addr, SpanStage(own)
    PROVE  RebaseInv'
<1> USE DEF RebaseInv
<1>1. UNCHANGED <<held, ledger, stats, addresses, txsTotal, recorded, version, rowLock, writers, index, check, walk, moves, days, past, toCome>>
  BY DEF SpanStage, rowVars, verifyVars, dayVars
<1> DEFINE S == Staged(own)
<1> DEFINE f == [a \in S |-> ReadRow(a, a \in own)]
<1>2. S \in SUBSET Addr
  BY DEF Staged
<1>3. f \in Reads
  <2>0. \A a \in S : ReadRow(a, a \in own) \in ReadRecord
    <3> SUFFICES ASSUME NEW a \in S
                 PROVE  ReadRow(a, a \in own) \in ReadRecord
      OBVIOUS
    <3> DEFINE c == a \in own
    <3>1. a \in Addr /\ c \in BOOLEAN
      BY <1>2
    <3> HIDE DEF c
    <3>2. ReadRow(a, c) \in ReadRecord
      BY <3>1, ReadRowIs
    <3> QED BY <3>2 DEF c
  <2>1. f \in [S -> ReadRecord]
    BY <2>0
  <2> HIDE DEF f, S
  <2> QED BY <1>2, <2>1, ReadsMade
<1>4. rebase = IdleRebase /\ rebase' = [IdleRebase EXCEPT !.kind = "span", !.read = f]
  BY DEF SpanStage
<1>5. \A a \in DOMAIN f : f[a].row = stats[a] /\ f[a].want = Truth(a) /\ f[a].reverted = recorded[a]
  BY DEF ReadRow
<1> HIDE DEF f, S
<1>6. rebase' = [kind |-> "span", read |-> f, batch |-> {}, todo |-> {}, made |-> {}, stale |-> {}, ready |-> FALSE,
                 revertLock |-> FALSE, logs |-> {}]
  BY <1>4 DEF IdleRebase
<1>7. rebase' \in RebaseType
  BY <1>3, <1>6 DEF RebaseType
<1>8. /\ rebase'.read = f /\ rebase'.batch = {} /\ rebase'.todo = {} /\ rebase'.made = {} /\ rebase'.stale = {}
      /\ ~rebase'.ready /\ ~rebase'.revertLock
  BY <1>6
<1>9. WritersInv' /\ RevertInv' /\ BatchInv' /\ KeptInv' /\ MovedInv'
  BY <1>1, <1>4, <1>5, <1>7, <1>8, FreshRead
<1>10. TypesInv'
  BY <1>1, <1>7 DEF TypesInv
<1> QED BY <1>1, <1>9, <1>10, DaysStay, AccountsStay

LEMMA WalkBatchStep ==
    ASSUME RebaseInv, NEW k \in Walker, WalkBatch(k)
    PROVE  RebaseInv'
<1> USE DEF RebaseInv
<1>1. UNCHANGED <<held, ledger, stats, addresses, txsTotal, recorded, version, rowLock, writers, index, check, walk, moves, days, past, toCome>>
  BY DEF WalkBatch, rowVars, verifyVars, dayVars
<1>2. FirstOf(walk[k].found, walk[k].size) \in SUBSET Addr
  BY DEF FirstOf, TypesInv, WalkType
<1>3. rebase = IdleRebase /\ BatchStart(k, FirstOf(walk[k].found, walk[k].size), {})
  BY DEF WalkBatch
<1>4. rebase' \in RebaseType /\ WritersInv' /\ RevertInv' /\ BatchInv' /\ KeptInv' /\ MovedInv'
  <2> DEFINE S == FirstOf(walk[k].found, walk[k].size)
  <2> DEFINE none == {}
  <2>1. S \in SUBSET Addr /\ BatchStart(k, S, none) /\ none \in SUBSET Key /\ k \in {"check"} \cup Walker
    BY <1>2, <1>3
  <2>2. past'.passed = past.passed
    BY <1>1
  <2> HIDE DEF S, none
  <2> QED BY <1>1, <1>3, <2>1, <2>2, BatchStarts
<1>5. TypesInv'
  BY <1>1, <1>4 DEF TypesInv
<1> QED BY <1>1, <1>4, <1>5, DaysStay, AccountsStay

LEMMA CheckRepairStep ==
    ASSUME RebaseInv, CheckRepair
    PROVE  RebaseInv'
<1> USE DEF RebaseInv
<1>1. UNCHANGED <<held, stats, addresses, ledger, recorded, version, rowLock, writers, index, walk, moves, days, past, toCome>>
  BY DEF CheckRepair, dayVars
<1> DEFINE sound == {d \in check.found : Repairable(d)}
<1> DEFINE addrs == {d[1] : d \in sound} \ {0}
<1>2. sound \subseteq Key
  BY DEF TypesInv
<1>3. addrs \in SUBSET Addr
  BY <1>2 DEF Key
<1>4. {d \in sound : d[1] \in addrs} \in SUBSET Key
  BY <1>2
<1>5. txsTotal' \in Nat
  BY TotalIs DEF CheckRepair, SettledTotal, TypesInv
<1>6. check' \in [found : SUBSET Key, off : Int]
  <2>1. check \in [found : SUBSET Key, off : Int] /\ NoDrift \in [found : SUBSET Key, off : Int]
    BY DEF TypesInv, NoDrift
  <2>2. check' = NoDrift \/ check' = check
    BY DEF CheckRepair
  <2> QED BY <2>1, <2>2
<1>7. rebase' \in RebaseType /\ WritersInv' /\ RevertInv' /\ BatchInv' /\ KeptInv' /\ MovedInv'
  <2>1. CASE addrs = {}
    <3>1. rebase' = rebase
      BY <2>1 DEF CheckRepair
    <3> QED BY <1>1, <3>1, RowsStay DEF TypesInv
  <2>2. CASE addrs # {}
    <3>1. rebase = IdleRebase /\ BatchStart("check", addrs, {d \in sound : d[1] \in addrs})
      BY <2>2 DEF CheckRepair
    <3> HIDE DEF addrs, sound
    <3> QED BY <1>1, <1>3, <1>4, <3>1, BatchStarts
  <2> QED BY <2>1, <2>2
<1>8. TypesInv'
  BY <1>1, <1>5, <1>6, <1>7 DEF TypesInv
<1> QED BY <1>1, <1>7, <1>8, DaysStay, AccountsStay

-----------------------------------------------------------------------------
(* A rebase goes on, or is given up *)

\* Strings that tell apart who holds a row.
LEMMA Holders == Writer = {"realtime", "catchup"} /\ "free" \notin Writer /\ "rebase" \notin Writer
BY DEF Writer

\* A block's addresses are addresses.
LEMMA HitIs ==
    ASSUME WritersInv, NEW w \in Writer, writers[w].op # "idle"
    PROVE  /\ Hit(w) \in SUBSET Addr /\ writers[w].block \in Open /\ writers[w].fork \in 1 .. 2
           /\ writers[w].todo \subseteq Hit(w)
           /\ \A a \in Addr : rowLock[a] = w => a \in Hit(w) \ writers[w].todo
<1>1. /\ writers[w].block \in Open /\ writers[w].fork \in 1 .. 2
      /\ writers[w].todo \subseteq Hit(w)
      /\ \A a \in Addr : rowLock[a] = w => a \in Hit(w) \ writers[w].todo
  BY DEF WritersInv
<1>2. Touches[writers[w].fork] \in [Blocks -> SUBSET Addr]
  BY <1>1, RebaseAssumption
<1>3. writers[w].block \in Blocks
  BY <1>1, OpenIs
<1>4. Touches[writers[w].fork][writers[w].block] \in SUBSET Addr
  BY <1>2, <1>3
<1> QED BY <1>1, <1>4 DEF Hit

\* Rows change hands between the rebase and nobody: no writer notices.
LEMMA WritersKeepRows ==
    ASSUME WritersInv, UNCHANGED <<writers, held>>,
           \A a \in Addr, w \in Writer : rowLock'[a] = w <=> rowLock[a] = w,
           TypesInv
    PROVE  WritersInv'
<1> SUFFICES ASSUME NEW w \in Writer
             PROVE  (/\ writers[w].op = "idle" => writers[w] = IdleWriter /\ \A a \in Addr : rowLock[a] # w
                     /\ writers[w].op # "idle" => /\ writers[w].block \in Open /\ writers[w].fork \in 1 .. 2
                                                  /\ writers[w].todo \subseteq Hit(w)
                                                  /\ \A a \in Addr : rowLock[a] = w => a \in Hit(w) \ writers[w].todo
                                                  /\ \A v \in Writer \ {w} : writers[v].op # "idle" => writers[v].block # writers[w].block
                     /\ writers[w].op = "ingest" => /\ held[writers[w].block] = 0
                                                    /\ \A a \in Hit(w) \ writers[w].todo : rowLock[a] = w
                     /\ writers[w].op = "revert" => w = "realtime")'
  BY DEF WritersInv
<1>1. Hit(w)' = Hit(w)
  BY DEF Hit
<1>2. writers[w].op # "idle" => Hit(w) \subseteq Addr
  BY HitIs
<1> QED BY <1>1, <1>2 DEF WritersInv

LEMMA RevertKeepsRows ==
    ASSUME RevertInv, WritersInv, UNCHANGED <<writers, held, ledger, stats>>, past'.passed = past.passed,
           \A a \in Addr, w \in Writer : rowLock'[a] = w <=> rowLock[a] = w,
           rebase'.revertLock => rebase.revertLock
    PROVE  RevertInv'
<1>1. \A a : OpenBlocks(a)' = OpenBlocks(a)
  BY TruthStays
<1>2. \A a \in Addr : Decided(a)' <=> Decided(a)
  BY <1>1, Holders DEF Decided
<1>3. writers["realtime"].op = "revert" => Hit("realtime") \subseteq Addr
  BY HitIs, Holders
<1>4. Hit("realtime")' = Hit("realtime")
  BY DEF Hit
<1> QED BY <1>2, <1>3, <1>4 DEF RevertInv

LEMMA ReadTyped ==
    ASSUME TypesInv
    PROVE  /\ rebase.read \in Reads /\ DOMAIN rebase.read \subseteq Addr
           /\ \A a \in DOMAIN rebase.read : rebase.read[a] \in ReadRecord
<1>1. rebase.read \in Reads
  BY DEF TypesInv, RebaseType
<1> QED BY <1>1, ReadsIs

LEMMA SpanNextBatchStep ==
    ASSUME RebaseInv, SpanNextBatch
    PROVE  RebaseInv'
<1> USE DEF RebaseInv
<1>1. UNCHANGED <<held, ledger, stats, addresses, txsTotal, recorded, version, rowLock, writers, index, check, walk, moves, days, past, toCome>>
  BY DEF SpanNextBatch, rowVars, verifyVars, dayVars
<1> DEFINE S == FirstOf(DOMAIN rebase.read, SpanBatch)
<1>2. S \subseteq DOMAIN rebase.read /\ DOMAIN rebase.read \subseteq Addr
  BY ReadTyped DEF FirstOf
<1>3. rebase \in RebaseType /\ rebase.batch = {} /\ rebase' = [rebase EXCEPT !.batch = S, !.todo = S]
  BY DEF SpanNextBatch, TypesInv
<1> HIDE DEF S
<1>4. /\ rebase' \in RebaseType /\ rebase'.batch = S /\ rebase'.todo = S
      /\ rebase'.read = rebase.read /\ rebase'.made = rebase.made /\ rebase'.stale = rebase.stale
      /\ rebase'.ready = rebase.ready /\ rebase'.revertLock = rebase.revertLock
  BY <1>2, <1>3 DEF RebaseType
<1>5. ~rebase.ready /\ ~rebase.revertLock /\ rebase.made = {} /\ rebase.stale = {} /\ \A a \in Addr : rowLock[a] # "rebase"
  BY <1>3 DEF BatchInv
<1>6. WritersInv' /\ RevertInv'
  BY <1>1, <1>4, WritersStay, RevertStays
<1>7. BatchInv'
  BY <1>1, <1>2, <1>4, <1>5 DEF BatchInv
<1>8. \A a : Late(a)' = Late(a) /\ Truth(a)' = Truth(a)
  BY <1>1, <1>4, <1>5, TruthStays DEF Late
<1>9. KeptInv' /\ MovedInv'
  BY <1>1, <1>4, <1>8 DEF KeptInv, MovedInv
<1>10. TypesInv'
  BY <1>1, <1>4 DEF TypesInv
<1> QED BY <1>1, <1>6, <1>7, <1>9, <1>10, DaysStay, AccountsStay

LEMMA RevertLockStep ==
    ASSUME RebaseInv, RebaseRevertLock
    PROVE  RebaseInv'
<1> USE DEF RebaseInv
<1>1. UNCHANGED <<held, ledger, stats, addresses, txsTotal, recorded, version, rowLock, writers, index, check, walk, moves, days, past, toCome>>
  BY DEF RebaseRevertLock, rowVars, verifyVars, dayVars
<1>2. rebase \in RebaseType /\ rebase.batch # {} /\ rebase' = [rebase EXCEPT !.revertLock = TRUE] /\ writers["realtime"].op # "revert"
  BY DEF RebaseRevertLock, TypesInv
<1>3. /\ rebase' \in RebaseType /\ rebase'.batch = rebase.batch /\ rebase'.todo = rebase.todo
      /\ rebase'.read = rebase.read /\ rebase'.made = rebase.made /\ rebase'.stale = rebase.stale
      /\ rebase'.ready = rebase.ready /\ rebase'.revertLock
  BY <1>2 DEF RebaseType
<1>4. WritersInv'
  BY <1>1, WritersStay
<1>5. RevertInv'
  BY <1>1, <1>2 DEF RevertInv
<1>6. BatchInv'
  BY <1>1, <1>2, <1>3 DEF BatchInv
<1>7. \A a : Late(a)' = Late(a) /\ Truth(a)' = Truth(a)
  BY <1>1, <1>3, TruthStays DEF Late
<1>8. KeptInv' /\ MovedInv'
  BY <1>1, <1>3, <1>7 DEF KeptInv, MovedInv
<1>9. TypesInv'
  BY <1>1, <1>3 DEF TypesInv
<1> QED BY <1>1, <1>4, <1>5, <1>6, <1>8, <1>9, DaysStay, AccountsStay

LEMMA MinIn ==
    ASSUME NEW S \in SUBSET Addr, S # {}
    PROVE  Min(S) \in S
<1>1. S \in SUBSET Nat /\ S \in SUBSET Int
  BY RebaseAssumption
<1>2. PICK x \in S : \A y \in S : x <= y
  BY <1>1, LeastNatural
<1> QED BY <1>1, <1>2, MinIs

LEMMA LockRowStep ==
    ASSUME RebaseInv, RebaseLockRow
    PROVE  RebaseInv'
<1> USE DEF RebaseInv
<1>1. UNCHANGED <<held, ledger, stats, addresses, txsTotal, recorded, version, writers, index, check, walk, moves, days, past, toCome>>
  BY DEF RebaseLockRow, rowVars, verifyVars, dayVars
<1> DEFINE a == Min(rebase.todo)
<1> DEFINE v == rebase.read[a]
<1>2. rebase \in RebaseType /\ rowLock \in [Addr -> Writer \cup {"free", "rebase"}] /\ stats \in [Addr -> StatRow]
  BY DEF TypesInv
<1>3. a \in rebase.todo /\ a \in rebase.batch /\ a \in DOMAIN rebase.read /\ a \in Addr
  <2>1. rebase.todo \in SUBSET Addr /\ rebase.todo # {}
    BY <1>2 DEF RebaseType, RebaseLockRow
  <2>2. a \in rebase.todo
    BY <2>1, MinIn
  <2> QED BY <2>1, <2>2 DEF BatchInv
<1>4. /\ Making => rebase.revertLock
      /\ IF (Present(v) /\ stats[a] # NoStat) \/ Creates(v)
         THEN rowLock[a] = "free" /\ rowLock' = [rowLock EXCEPT ![a] = "rebase"]
         ELSE rowLock' = rowLock
      /\ rebase' = [rebase EXCEPT !.todo = rebase.todo \ {a},
                                  !.made = IF Creates(v) /\ stats[a] = NoStat THEN rebase.made \cup {a} ELSE rebase.made]
  BY DEF RebaseLockRow
<1> HIDE DEF a
<1>5. /\ rebase' \in RebaseType /\ rebase'.batch = rebase.batch /\ rebase'.todo = rebase.todo \ {a}
      /\ rebase'.read = rebase.read /\ rebase'.stale = rebase.stale
      /\ rebase'.made = (IF Creates(v) /\ stats[a] = NoStat THEN rebase.made \cup {a} ELSE rebase.made)
      /\ rebase'.ready = rebase.ready /\ rebase'.revertLock = rebase.revertLock
  BY <1>2, <1>3, <1>4 DEF RebaseType
<1>6. ~rebase.ready
  BY <1>3 DEF BatchInv
<1>7. /\ rowLock' \in [Addr -> Writer \cup {"free", "rebase"}]
      /\ \A b \in Addr : b # a => rowLock'[b] = rowLock[b]
      /\ (Present(v) /\ stats[a] # NoStat) \/ Creates(v) => rowLock[a] = "free" /\ rowLock'[a] = "rebase"
      /\ ~((Present(v) /\ stats[a] # NoStat) \/ Creates(v)) => rowLock'[a] = rowLock[a]
  BY <1>2, <1>3, <1>4
<1>8. \A b \in Addr, w \in Writer : rowLock'[b] = w <=> rowLock[b] = w
  BY <1>7, Holders
<1>9. WritersInv' /\ RevertInv'
  BY <1>1, <1>5, <1>8, WritersKeepRows, RevertKeepsRows
<1>10. BatchInv'
  <2>1. rebase.todo \subseteq rebase.batch /\ rebase.batch \subseteq DOMAIN rebase.read /\ DOMAIN rebase.read \subseteq Addr
    BY ReadTyped DEF BatchInv
  <2>2. Making' <=> Making
    BY <1>5 DEF Making
  <2>3. \A b \in Addr : rowLock'[b] = "rebase" => b \in rebase'.batch \ rebase'.todo
    BY <1>3, <1>5, <1>7 DEF BatchInv
  <2>4. \A b \in rebase.batch : Creates(rebase.read[b]) /\ b \notin rebase'.todo => rowLock'[b] = "rebase"
    BY <1>3, <1>5, <1>7, <2>1 DEF BatchInv
  <2>5. \A b \in rebase.batch : b \in rebase'.made <=> Creates(rebase.read[b]) /\ b \notin rebase'.todo /\ stats[b] = NoStat
    BY <1>3, <1>5 DEF BatchInv
  <2>6. rebase'.made \subseteq rebase'.batch
    BY <1>3, <1>5 DEF BatchInv
  <2>7. \A b \in Addr : rowLock'[b] = "rebase" /\ stats[b] = NoStat => b \in rebase'.made
    BY <1>3, <1>5, <1>7 DEF BatchInv
  <2>8. \A b \in Addr : rowLock'[b] = "rebase" => Present(rebase.read[b]) \/ Creates(rebase.read[b])
    BY <1>3, <1>7 DEF BatchInv
  <2> QED BY <1>1, <1>4, <1>5, <1>6, <2>1, <2>2, <2>3, <2>4, <2>5, <2>6, <2>7, <2>8 DEF BatchInv
<1>11. \A b : Late(b)' = Late(b) /\ Truth(b)' = Truth(b)
  BY <1>1, <1>5, TruthStays DEF Late
<1>12. KeptInv'
  <2>1. \A b \in DOMAIN rebase.read :
            Present(rebase.read[b]) /\ ~Late(b) /\ b \in rebase'.batch \ rebase'.todo => rowLock'[b] = "rebase"
    BY <1>3, <1>5, <1>7, ReadTyped DEF KeptInv
  <2> QED BY <1>1, <1>5, <1>11, <2>1 DEF KeptInv
<1>13. MovedInv'
  BY <1>1, <1>5, <1>11 DEF MovedInv
<1>14. TypesInv'
  BY <1>1, <1>5, <1>7 DEF TypesInv
<1> QED BY <1>1, <1>9, <1>10, <1>12, <1>13, <1>14, DaysStay, AccountsStay

LEMMA VersionsStep ==
    ASSUME RebaseInv, RebaseVersions
    PROVE  RebaseInv'
<1> USE DEF RebaseInv
<1>1. UNCHANGED <<held, ledger, stats, addresses, txsTotal, recorded, version, rowLock, writers, index, check, walk, moves, days, past, toCome>>
  BY DEF RebaseVersions, rowVars, verifyVars, dayVars
<1> DEFINE S == {a \in rebase.batch : RevertedSince(a)}
<1>2. /\ rebase \in RebaseType /\ rebase.batch # {} /\ rebase.todo = {} /\ ~rebase.ready
      /\ rebase' = [rebase EXCEPT !.ready = TRUE, !.stale = S]
  BY DEF RebaseVersions, TypesInv
<1>3. S \subseteq rebase.batch
  OBVIOUS
<1>4. \A a \in rebase.batch : a \in S <=> RevertedSince(a)
  OBVIOUS
<1> HIDE DEF S
<1>5. /\ rebase' \in RebaseType /\ rebase'.batch = rebase.batch /\ rebase'.todo = {}
      /\ rebase'.read = rebase.read /\ rebase'.made = rebase.made /\ rebase'.stale = S
      /\ rebase'.ready /\ rebase'.revertLock = rebase.revertLock
  BY <1>2, <1>3 DEF RebaseType
<1>6. WritersInv' /\ RevertInv'
  BY <1>1, <1>5, WritersStay, RevertStays
<1>7. BatchInv'
  BY <1>1, <1>2, <1>3, <1>5 DEF BatchInv, Making
<1>8. \A a \in DOMAIN rebase.read : Late(a)' <=> recorded[a] # rebase.read[a].reverted
  <2> SUFFICES ASSUME NEW a \in DOMAIN rebase.read
               PROVE  Late(a)' <=> recorded[a] # rebase.read[a].reverted
    OBVIOUS
  <2>1. recorded[a] \in Nat /\ rebase.read[a].reverted \in Nat /\ rebase.read[a].reverted <= recorded[a]
    BY ReadTyped DEF TypesInv, BatchInv, ReadRecord
  <2>2. CASE a \in rebase.batch
    BY <1>1, <1>4, <1>5, <2>1, <2>2 DEF Late, RevertedSince
  <2>3. CASE a \notin rebase.batch
    BY <1>1, <1>5, <2>3 DEF Late
  <2> QED BY <2>2, <2>3
<1>9. \A a \in DOMAIN rebase.read : Late(a) <=> recorded[a] # rebase.read[a].reverted
  BY <1>2 DEF Late
<1>10. \A a : Truth(a)' = Truth(a)
  BY <1>1, TruthStays
<1>11. KeptInv'
  BY <1>1, <1>2, <1>5, <1>8, <1>9, <1>10 DEF KeptInv
<1>12. MovedInv'
  BY <1>1, <1>5, <1>10 DEF MovedInv
<1>13. TypesInv'
  BY <1>1, <1>5 DEF TypesInv
<1> QED BY <1>1, <1>6, <1>7, <1>11, <1>12, <1>13, DaysStay, AccountsStay

\* Letting go: the rows a holder had are free, the others are as they were.
LEMMA ReleasedIs ==
    ASSUME TypesInv, NEW p \in Writer \cup {"rebase"}, rowLock' = Released(p)
    PROVE  /\ rowLock' \in [Addr -> Writer \cup {"free", "rebase"}]
           /\ \A a \in Addr : rowLock'[a] = IF rowLock[a] = p THEN "free" ELSE rowLock[a]
<1>1. rowLock \in [Addr -> Writer \cup {"free", "rebase"}]
  BY DEF TypesInv
<1> QED BY <1>1 DEF Released

LEMMA IdleRebaseIs ==
    /\ IdleRebase.read = <<>> /\ DOMAIN IdleRebase.read = {} /\ IdleRebase.batch = {} /\ IdleRebase.todo = {}
    /\ IdleRebase.made = {} /\ IdleRebase.stale = {} /\ ~IdleRebase.ready /\ ~IdleRebase.revertLock
BY EmptyIs DEF IdleRebase

\* An idle rebase that holds nothing.
LEMMA IdleHolds ==
    ASSUME rebase' = IdleRebase, \A a \in Addr : rowLock'[a] # "rebase"
    PROVE  BatchInv' /\ KeptInv' /\ MovedInv'
<1>1. BatchInv'
  BY IdleRebaseIs DEF BatchInv, Making
<1> QED BY <1>1, IdleRebaseIs DEF KeptInv, MovedInv

\* The rebase is over, and its rows are free.
LEMMA GoesIdle ==
    ASSUME RebaseInv, rebase' = IdleRebase, rowLock' = Released("rebase"),
           UNCHANGED <<held, ledger, stats, writers>>, past'.passed = past.passed
    PROVE  /\ rebase' \in RebaseType /\ rowLock' \in [Addr -> Writer \cup {"free", "rebase"}]
           /\ WritersInv' /\ RevertInv' /\ BatchInv' /\ KeptInv' /\ MovedInv'
<1> USE DEF RebaseInv
<1>1. /\ rowLock' \in [Addr -> Writer \cup {"free", "rebase"}]
      /\ \A a \in Addr : rowLock'[a] = IF rowLock[a] = "rebase" THEN "free" ELSE rowLock[a]
  BY ReleasedIs
<1>2. \A a \in Addr, w \in Writer : rowLock'[a] = w <=> rowLock[a] = w
  BY <1>1, Holders
<1>3. WritersInv' /\ RevertInv'
  BY <1>2, IdleRebaseIs, WritersKeepRows, RevertKeepsRows
<1>4. \A a \in Addr : rowLock'[a] # "rebase"
  BY <1>1
<1>5. BatchInv' /\ KeptInv' /\ MovedInv'
  BY <1>4, IdleHolds
<1> QED BY <1>1, <1>3, <1>5, IdleIs

LEMMA SpanRebasedStep ==
    ASSUME RebaseInv, SpanRebased
    PROVE  RebaseInv'
<1> USE DEF RebaseInv
<1>1. UNCHANGED <<held, ledger, stats, addresses, txsTotal, recorded, version, rowLock, writers, index, check, walk, moves, days, past, toCome>>
  BY DEF SpanRebased, rowVars, verifyVars, dayVars
<1>2. DOMAIN rebase.read = {} /\ rebase' = IdleRebase
  BY DEF SpanRebased
<1>3. \A a \in Addr : rowLock[a] # "rebase"
  BY <1>2 DEF BatchInv
<1>4. rowLock \in [Addr -> Writer \cup {"free", "rebase"}]
  BY DEF TypesInv
<1>5. rowLock' = Released("rebase")
  BY <1>1, <1>3, <1>4 DEF Released
<1>6. rebase' \in RebaseType /\ WritersInv' /\ RevertInv' /\ BatchInv' /\ KeptInv' /\ MovedInv'
  BY <1>1, <1>2, <1>5, GoesIdle
<1>7. TypesInv'
  BY <1>1, <1>6 DEF TypesInv
<1> QED BY <1>1, <1>6, <1>7, DaysStay, AccountsStay

\* A bucket given up, or halved, is a bucket's place.
LEMMA WalkLeft ==
    ASSUME TypesInv, NEW k \in Walker, NEW n \in Nat
    PROVE  Interrupted(k) \in WalkType /\ [walk[k] EXCEPT !.size = n] \in WalkType /\ walk[k] \in WalkType
<1>1. walk[k] \in WalkType
  BY DEF TypesInv
<1> QED BY <1>1 DEF WalkType, Interrupted

LEMMA RebaseFailsStep ==
    ASSUME RebaseInv, RebaseFails
    PROVE  RebaseInv'
<1> USE DEF RebaseInv
<1>1. UNCHANGED <<held, ledger, stats, addresses, txsTotal, recorded, version, writers, index, moves, days, past>>
  BY DEF RebaseFails, rowVars, dayVars
<1>2. rebase' = IdleRebase /\ rowLock' = Released("rebase")
  BY DEF RebaseFails
<1>3. /\ rebase' \in RebaseType /\ rowLock' \in [Addr -> Writer \cup {"free", "rebase"}]
      /\ WritersInv' /\ RevertInv' /\ BatchInv' /\ KeptInv' /\ MovedInv'
  BY <1>1, <1>2, GoesIdle
<1>4. toCome' \in RebaseTrouble
  BY TroubleLess DEF TypesInv, RebaseFails
<1>5. check' \in [found : SUBSET Key, off : Int]
  BY DEF TypesInv, RebaseFails, NoDrift
<1>6. walk' \in [Walker -> WalkType]
  <2> DEFINE half == Cardinality(rebase.batch) \div 2
  <2>1. half \in Nat
    <3>1. rebase.batch \in SUBSET Addr
      BY DEF TypesInv, RebaseType
    <3>2. Cardinality(rebase.batch) \in Nat
      BY <3>1, RebaseAssumption, FS_Subset, FS_CardinalityType
    <3> QED BY <3>2
  <2>2. walk' = [k \in Walker |-> IF k # rebase.kind THEN walk[k]
                                  ELSE IF k = "repair" /\ Cardinality(rebase.batch) > 1 THEN [walk[k] EXCEPT !.size = half]
                                  ELSE Interrupted(k)]
    BY DEF RebaseFails
  <2> HIDE DEF half
  <2>3. \A k \in Walker : Interrupted(k) \in WalkType /\ [walk[k] EXCEPT !.size = half] \in WalkType /\ walk[k] \in WalkType
    BY <2>1, WalkLeft
  <2> QED BY <2>2, <2>3
<1>7. TypesInv'
  BY <1>1, <1>3, <1>4, <1>5, <1>6 DEF TypesInv
<1> QED BY <1>1, <1>3, <1>7, DaysStay, AccountsStay

LEMMA CrashStep ==
    ASSUME RebaseInv, RebaseCrash
    PROVE  RebaseInv'
<1> USE DEF RebaseInv
<1>1. UNCHANGED <<held, ledger, stats, addresses, txsTotal, recorded, version, index, moves, past>>
  BY DEF RebaseCrash, rowVars
<1>2. /\ rebase' = IdleRebase /\ rowLock' = [a \in Addr |-> "free"] /\ writers' = [w \in Writer |-> IdleWriter]
      /\ check' = NoDrift /\ days' = IdleDays /\ walk' = [k \in Walker |-> Interrupted(k)]
  BY DEF RebaseCrash
<1>3. /\ rebase' \in RebaseType /\ writers' \in [Writer -> WriterType] /\ rowLock' \in [Addr -> Writer \cup {"free", "rebase"}]
  BY <1>2, IdleIs
<1>4. check' \in [found : SUBSET Key, off : Int] /\ days' \in [on : BOOLEAN, pending : Nat, upto : Nat]
  BY <1>2 DEF NoDrift, IdleDays
<1>5. walk' \in [Walker -> WalkType]
  BY <1>2, WalkLeft
<1>6. toCome' \in RebaseTrouble
  BY TroubleLess DEF TypesInv, RebaseCrash
<1>7. TypesInv'
  BY <1>1, <1>3, <1>4, <1>5, <1>6 DEF TypesInv
<1>8. WritersInv'
  BY <1>2, Holders DEF WritersInv, IdleWriter
<1>9. RevertInv'
  BY <1>2, Holders DEF RevertInv, IdleWriter
<1>10. BatchInv' /\ KeptInv' /\ MovedInv'
  BY <1>2, IdleHolds
<1>11. DaysInv'
  BY <1>2 DEF DaysInv, IdleDays
<1> QED BY <1>1, <1>7, <1>8, <1>9, <1>10, <1>11, AccountsStay

-----------------------------------------------------------------------------
(* Block writes and reverts, up to their commits *)

\* A writer starts on a block no other is at.
LEMMA WriterStarts ==
    ASSUME RebaseInv, NEW w \in Writer, NEW op \in {"ingest", "revert"}, NEW n \in Open, NEW f \in 1 .. 2,
           writers[w] = IdleWriter,
           writers' = [writers EXCEPT ![w] = [op |-> op, block |-> n, fork |-> f, todo |-> Touches[f][n], row |-> <<>>]],
           \A v \in Writer : writers[v].op = "idle" \/ writers[v].block # n,
           op = "ingest" => held[n] = 0, op = "revert" => w = "realtime",
           UNCHANGED <<held, rowLock>>
    PROVE  writers' \in [Writer -> WriterType] /\ WritersInv' /\ Touches[f][n] \in SUBSET Addr
<1> USE DEF RebaseInv
<1>1. writers \in [Writer -> WriterType]
  BY DEF TypesInv
<1>2. n \in Blocks /\ f \in 0 .. 2
  BY OpenIs
<1>3. Touches[f][n] \in SUBSET Addr
  <2>1. Touches[f] \in [Blocks -> SUBSET Addr]
    BY RebaseAssumption
  <2> QED BY <1>2, <2>1
<1> DEFINE r == [op |-> op, block |-> n, fork |-> f, todo |-> Touches[f][n], row |-> <<>>]
<1>4. r \in WriterType
  BY <1>2, <1>3, EmptyIs DEF WriterType
<1>5. r.op = op /\ r.block = n /\ r.fork = f /\ r.todo = Touches[f][n]
  OBVIOUS
<1> HIDE DEF r
<1>6. writers' = [writers EXCEPT ![w] = r]
  BY DEF r
<1>7. writers'[w] = r /\ \A v \in Writer : v # w => writers'[v] = writers[v]
  BY <1>1, <1>6
<1>8. \A a \in Addr : rowLock[a] # w
  BY DEF WritersInv, IdleWriter
<1>9. Hit(w)' = Touches[f][n] /\ \A v \in Writer : v # w => Hit(v)' = Hit(v)
  BY <1>5, <1>7 DEF Hit
<1>10. WritersInv'
  <2> SUFFICES ASSUME NEW v \in Writer
               PROVE  (/\ writers[v].op = "idle" => writers[v] = IdleWriter /\ \A a \in Addr : rowLock[a] # v
                       /\ writers[v].op # "idle" => /\ writers[v].block \in Open /\ writers[v].fork \in 1 .. 2
                                                    /\ writers[v].todo \subseteq Hit(v)
                                                    /\ \A a \in Addr : rowLock[a] = v => a \in Hit(v) \ writers[v].todo
                                                    /\ \A u \in Writer \ {v} : writers[u].op # "idle" => writers[u].block # writers[v].block
                       /\ writers[v].op = "ingest" => /\ held[writers[v].block] = 0
                                                      /\ \A a \in Hit(v) \ writers[v].todo : rowLock[a] = v
                       /\ writers[v].op = "revert" => v = "realtime")'
    BY DEF WritersInv
  <2>1. CASE v = w
    BY <1>5, <1>7, <1>8, <1>9, <2>1
  <2>2. CASE v # w
    BY <1>5, <1>7, <1>9, <2>2 DEF WritersInv
  <2> QED BY <2>1, <2>2
<1> QED BY <1>1, <1>3, <1>4, <1>6, <1>10

LEMMA IngestStartStep ==
    ASSUME RebaseInv, NEW w \in Writer, NEW n \in Open, NEW f \in 1 .. 2, IngestStart(w, n, f)
    PROVE  RebaseInv'
<1> USE DEF RebaseInv
<1>1. UNCHANGED <<held, ledger, stats, addresses, txsTotal, recorded, version, rowLock, rebase, index, check, walk, moves, days, past>>
  BY DEF IngestStart, rowVars, verifyVars, dayVars
<1>2. /\ writers[w] = IdleWriter /\ held[n] = 0
      /\ \A v \in Writer : writers[v].op = "idle" \/ writers[v].block # n
      /\ writers' = [writers EXCEPT ![w] = [op |-> "ingest", block |-> n, fork |-> f, todo |-> Touches[f][n], row |-> <<>>]]
  BY DEF IngestStart
<1>3. writers' \in [Writer -> WriterType] /\ WritersInv'
  BY <1>1, <1>2, WriterStarts
<1>4. RevertInv'
  <2>1. CASE w = "realtime"
    <3>1. writers'["realtime"].op = "ingest"
      BY <1>2, <2>1 DEF TypesInv
    <3> QED BY <3>1 DEF RevertInv
  <2>2. CASE w # "realtime"
    <3>1. writers'["realtime"] = writers["realtime"]
      BY <1>2, <2>2, Holders DEF TypesInv
    <3>2. \A a : OpenBlocks(a)' = OpenBlocks(a)
      BY <1>1, TruthStays
    <3>3. \A a : Decided(a)' = Decided(a)
      BY <1>1, <3>1, <3>2 DEF Decided
    <3> QED BY <1>1, <3>1, <3>3 DEF RevertInv, Hit
  <2> QED BY <2>1, <2>2
<1>5. BatchInv' /\ KeptInv' /\ MovedInv'
  BY <1>1, BatchStays, KeptStays, MovedStays
<1>6. toCome' \in RebaseTrouble
  BY TroubleLess DEF TypesInv, IngestStart
<1>7. TypesInv'
  BY <1>1, <1>3, <1>6 DEF TypesInv
<1> QED BY <1>1, <1>3, <1>4, <1>5, <1>7, DaysStay, AccountsStay

LEMMA RevertStartStep ==
    ASSUME RebaseInv, NEW n \in Open, RevertStart(n)
    PROVE  RebaseInv'
<1> USE DEF RebaseInv
<1> DEFINE w == "realtime"
<1>0. w \in Writer
  BY Holders
<1>1. UNCHANGED <<held, ledger, stats, addresses, txsTotal, recorded, version, rowLock, rebase, index, check, walk, moves, days, past>>
  BY DEF RevertStart, rowVars, verifyVars, dayVars
<1>2. /\ writers[w] = IdleWriter /\ held[n] # 0 /\ ~rebase.revertLock
      /\ writers' = [writers EXCEPT ![w] = [op |-> "revert", block |-> n, fork |-> held[n], todo |-> Touches[held[n]][n], row |-> <<>>]]
  BY DEF RevertStart, RevertLockShared
<1>3. held[n] \in 1 .. 2
  BY <1>2 DEF TypesInv
<1>4. \A v \in Writer : writers[v].op = "idle" \/ writers[v].block # n
  <2> SUFFICES ASSUME NEW v \in Writer, writers[v].op # "idle"
               PROVE  writers[v].block # n
    OBVIOUS
  <2>1. v # w
    BY <1>2 DEF IdleWriter
  <2>2. writers[v].op \in {"ingest", "revert"}
    BY DEF TypesInv, WriterType
  <2>3. held[writers[v].block] = 0
    BY <2>1, <2>2 DEF WritersInv
  <2> QED BY <1>2, <2>3
<1>5. writers' \in [Writer -> WriterType] /\ WritersInv'
  <2> HIDE DEF w
  <2> DEFINE f == held[n]
  <2>1. f \in 1 .. 2 /\ writers' = [writers EXCEPT ![w] = [op |-> "revert", block |-> n, fork |-> f, todo |-> Touches[f][n], row |-> <<>>]]
    BY <1>2, <1>3
  <2>2. w = "realtime"
    BY DEF w
  <2> HIDE DEF f
  <2> QED BY <1>0, <1>1, <1>2, <1>4, <2>1, <2>2, WriterStarts
<1>6. writers'[w] = [op |-> "revert", block |-> n, fork |-> held[n], todo |-> Touches[held[n]][n], row |-> <<>>]
  BY <1>0, <1>2 DEF TypesInv
<1>7. RevertInv'
  BY <1>1, <1>2, <1>6 DEF RevertInv, Hit
<1>8. BatchInv' /\ KeptInv' /\ MovedInv'
  BY <1>1, BatchStays, KeptStays, MovedStays
<1>9. toCome' \in RebaseTrouble
  BY TroubleLess DEF TypesInv, RevertStart
<1>10. TypesInv'
  BY <1>1, <1>5, <1>9 DEF TypesInv
<1> QED BY <1>1, <1>5, <1>7, <1>8, <1>10, DaysStay, AccountsStay

\* Rows change hands between a writer and nobody: the rebase does not notice.
LEMMA RebaseKeepsRows ==
    ASSUME BatchInv, KeptInv, MovedInv, TypesInv, UNCHANGED <<held, ledger, stats, recorded, rebase>>,
           past.passed \subseteq past'.passed,
           \A a \in Addr : rowLock'[a] = "rebase" <=> rowLock[a] = "rebase"
    PROVE  BatchInv' /\ KeptInv' /\ MovedInv'
<1>1. DOMAIN rebase.read \subseteq Addr
  BY ReadTyped
<1>2. rebase.batch \subseteq Addr
  BY <1>1 DEF BatchInv
<1>3. BatchInv'
  BY <1>2 DEF BatchInv, Making
<1>4. \A a : Late(a)' = Late(a) /\ Truth(a)' = Truth(a)
  BY TruthStays DEF Late
<1>5. KeptInv'
  BY <1>1, <1>4 DEF KeptInv
<1> QED BY <1>3, <1>5, MovedStays

\* A writer goes past one address, whose row it takes or leaves.
LEMMA WriterTakes ==
    ASSUME RebaseInv, NEW w \in Writer, writers[w].op # "idle", NEW a \in writers[w].todo, NEW r \in WriterType,
           writers' = [writers EXCEPT ![w] = r],
           r.op = writers[w].op, r.block = writers[w].block, r.fork = writers[w].fork, r.todo = writers[w].todo \ {a},
           \A b \in Addr : b # a => rowLock'[b] = rowLock[b],
           (rowLock'[a] = w /\ rowLock[a] = "free") \/ (rowLock'[a] = rowLock[a] /\ r.op # "ingest"),
           UNCHANGED held
    PROVE  /\ writers' \in [Writer -> WriterType] /\ WritersInv'
           /\ writers'[w] = r /\ Hit(w)' = Hit(w) /\ \A v \in Writer : v # w => writers'[v] = writers[v]
<1> USE DEF RebaseInv
<1>1. writers \in [Writer -> WriterType]
  BY DEF TypesInv
<1>2. writers'[w] = r /\ \A v \in Writer : v # w => writers'[v] = writers[v]
  BY <1>1
<1>3. /\ Hit(w) \in SUBSET Addr /\ writers[w].block \in Open /\ writers[w].fork \in 1 .. 2
      /\ writers[w].todo \subseteq Hit(w)
      /\ \A b \in Addr : rowLock[b] = w => b \in Hit(w) \ writers[w].todo
  BY HitIs
<1>4. \A v \in Writer : Hit(v)' = Hit(v)
  BY <1>2 DEF Hit
<1>5. a \in Addr /\ rowLock[a] # w /\ w # "free"
  BY <1>3, Holders
<1>6. WritersInv'
  <2> SUFFICES ASSUME NEW v \in Writer
               PROVE  (/\ writers[v].op = "idle" => writers[v] = IdleWriter /\ \A b \in Addr : rowLock[b] # v
                       /\ writers[v].op # "idle" => /\ writers[v].block \in Open /\ writers[v].fork \in 1 .. 2
                                                    /\ writers[v].todo \subseteq Hit(v)
                                                    /\ \A b \in Addr : rowLock[b] = v => b \in Hit(v) \ writers[v].todo
                                                    /\ \A u \in Writer \ {v} : writers[u].op # "idle" => writers[u].block # writers[v].block
                       /\ writers[v].op = "ingest" => /\ held[writers[v].block] = 0
                                                      /\ \A b \in Hit(v) \ writers[v].todo : rowLock[b] = v
                       /\ writers[v].op = "revert" => v = "realtime")'
    BY DEF WritersInv
  <2>1. CASE v = w
    <3>1. writers[w].op = "ingest" => held[writers[w].block] = 0 /\ \A b \in Hit(w) \ writers[w].todo : rowLock[b] = w
      BY DEF WritersInv
    <3>2. writers[w].op = "revert" => w = "realtime"
      BY DEF WritersInv
    <3>3. \A u \in Writer \ {w} : writers[u].op # "idle" => writers[u].block # writers[w].block
      BY DEF WritersInv
    <3>4. \A b \in Addr : rowLock'[b] = w => b \in Hit(w) \ r.todo
      BY <1>3, <1>5
    <3>5. writers[w].op = "ingest" => \A b \in Hit(w) \ r.todo : rowLock'[b] = w
      BY <1>3, <1>5, <3>1
    <3> QED BY <1>2, <1>3, <1>4, <2>1, <3>1, <3>2, <3>3, <3>4, <3>5
  <2>2. CASE v # w
    <3>1. \A b \in Addr : rowLock'[b] = v <=> rowLock[b] = v
      BY <1>5, <2>2, Holders
    <3>2. writers[v].op # "idle" => Hit(v) \subseteq Addr
      BY HitIs
    <3> QED BY <1>2, <1>4, <2>2, <3>1, <3>2 DEF WritersInv
  <2> QED BY <2>1, <2>2
<1> QED BY <1>1, <1>2, <1>4, <1>6

LEMMA IngestTakeStep ==
    ASSUME RebaseInv, NEW w \in Writer, IngestTake(w)
    PROVE  RebaseInv'
<1> USE DEF RebaseInv
<1>1. UNCHANGED <<held, ledger, stats, addresses, txsTotal, recorded, version, rebase, index, check, walk, moves, days, past, toCome>>
  BY DEF IngestTake, rowVars, verifyVars, dayVars
<1> DEFINE a == Min(writers[w].todo)
<1> DEFINE r == [writers[w] EXCEPT !.todo = writers[w].todo \ {a}]
<1>2. writers[w] \in WriterType /\ writers \in [Writer -> WriterType] /\ rowLock \in [Addr -> Writer \cup {"free", "rebase"}]
  BY DEF TypesInv
<1>3. /\ writers[w].op = "ingest" /\ writers[w].todo # {} /\ rowLock[a] = "free" /\ rowLock' = [rowLock EXCEPT ![a] = w]
      /\ writers' = [writers EXCEPT ![w] = r]
  BY DEF IngestTake
<1>4. a \in writers[w].todo /\ a \in Addr
  <2>1. writers[w].todo \in SUBSET Addr
    BY <1>2 DEF WriterType
  <2> QED BY <1>3, <2>1, MinIn
<1> HIDE DEF a
<1>5. /\ r \in WriterType /\ r.op = writers[w].op /\ r.block = writers[w].block /\ r.fork = writers[w].fork
      /\ r.todo = writers[w].todo \ {a}
  BY <1>2 DEF WriterType
<1> HIDE DEF r
<1>6. /\ rowLock' \in [Addr -> Writer \cup {"free", "rebase"}] /\ rowLock'[a] = w
      /\ \A b \in Addr : b # a => rowLock'[b] = rowLock[b]
  BY <1>2, <1>3, <1>4
<1>7. /\ writers' \in [Writer -> WriterType] /\ WritersInv'
      /\ writers'[w] = r /\ \A v \in Writer : v # w => writers'[v] = writers[v]
  <2>1. writers[w].op # "idle" /\ writers' = [writers EXCEPT ![w] = r]
    BY <1>3
  <2>2. (rowLock'[a] = w /\ rowLock[a] = "free") \/ (rowLock'[a] = rowLock[a] /\ r.op # "ingest")
    BY <1>3, <1>6
  <2> QED BY <1>1, <1>4, <1>5, <1>6, <2>1, <2>2, WriterTakes
<1>8. RevertInv'
  <2>1. CASE w = "realtime"
    <3>1. writers'["realtime"].op = "ingest"
      BY <1>3, <1>5, <1>7, <2>1
    <3> QED BY <3>1 DEF RevertInv
  <2>2. CASE w # "realtime"
    <3>1. writers'["realtime"] = writers["realtime"]
      BY <1>7, <2>2, Holders
    <3>2. \A b : OpenBlocks(b)' = OpenBlocks(b)
      BY <1>1, TruthStays
    <3>3. \A b \in Addr : rowLock'[b] = "realtime" <=> rowLock[b] = "realtime"
      BY <1>3, <1>6, <2>2
    <3>4. \A b \in Addr : Decided(b)' <=> Decided(b)
      BY <1>1, <3>1, <3>2, <3>3 DEF Decided
    <3>5. writers["realtime"].op = "revert" => Hit("realtime") \subseteq Addr
      BY HitIs, Holders
    <3>6. Hit("realtime")' = Hit("realtime")
      BY <3>1 DEF Hit
    <3> QED BY <1>1, <3>1, <3>4, <3>5, <3>6 DEF RevertInv
  <2> QED BY <2>1, <2>2
<1>9. \A b \in Addr : rowLock'[b] = "rebase" <=> rowLock[b] = "rebase"
  BY <1>3, <1>6, Holders
<1>10. BatchInv' /\ KeptInv' /\ MovedInv'
  BY <1>1, <1>9, RebaseKeepsRows
<1>11. TypesInv'
  BY <1>1, <1>6, <1>7 DEF TypesInv
<1> QED BY <1>1, <1>7, <1>8, <1>10, <1>11, DaysStay, AccountsStay

LEMMA EdgesIn ==
    ASSUME NEW S \in SUBSET Blocks, S # {}
    PROVE  Min(S) \in S /\ Max(S) \in S
<1>1. S \in SUBSET Nat /\ S \in SUBSET Int /\ IsFiniteSet(S)
  <2>1. IsFiniteSet(S)
    BY OpenIs, FS_Subset
  <2> QED BY <2>1, OpenIs
<1>2. PICK x \in S : \A y \in S : x <= y
  BY <1>1, LeastNatural
<1>3. PICK z \in S : \A y \in S : y <= z
  BY <1>1, GreatestOfFinite
<1> QED BY <1>1, <1>2, <1>3, MinIs, MaxIs

LEMMA OneLessIs ==
    ASSUME NEW n \in Nat
    PROVE  OneLess(n) \in Nat
<1>1. CASE n = 0
  <2>1. {n - 1, 0} \in SUBSET Int /\ 0 \in {n - 1, 0} /\ \A y \in {n - 1, 0} : y <= 0
    BY <1>1
  <2>2. Max({n - 1, 0}) = 0
    BY <2>1, MaxIs
  <2> QED BY <2>2 DEF OneLess
<1>2. CASE n # 0
  <2>1. {n - 1, 0} \in SUBSET Int /\ n - 1 \in {n - 1, 0} /\ \A y \in {n - 1, 0} : y <= n - 1
    BY <1>2
  <2>2. Max({n - 1, 0}) = n - 1
    BY <2>1, MaxIs
  <2> QED BY <1>2, <2>2 DEF OneLess
<1> QED BY <1>1, <1>2

LEMMA ClosedBlocksIs == \A a : ClosedBlocks(a) \in SUBSET Blocks
BY RebaseAssumption DEF ClosedBlocks, Blocks

\* What a revert leaves is a row, or none.
LEMMA RevertedRowIs ==
    ASSUME TypesInv, NEW a \in Addr, NEW n \in Open
    PROVE  RevertedRow(a, n) \in StatRow
<1> DEFINE others == (OpenBlocks(a) \ {n}) \cup (IF toCome.pruned THEN {} ELSE ClosedBlocks(a))
<1> DEFINE row == stats[a]
<1> DEFINE last == IF others = {} THEN ledger[a].last ELSE Max(others)
<1> DEFINE known == row.first # Unseen /\ row.first < n
<1> DEFINE first == IF row.first >= n /\ others # {} THEN Min(others) ELSE row.first
<1> DEFINE left == IF row.last >= n /\ last # Unseen THEN last ELSE row.last
<1>1. RevertedRow(a, n) = IF row = NoStat \/ (others = {} /\ ~known) THEN NoStat
                          ELSE [txs |-> OneLess(row.txs), first |-> first, last |-> left]
  BY DEF RevertedRow
<1>2. row \in StatRow /\ ledger[a] \in StatRow
  BY DEF TypesInv
<1>3. others \in SUBSET Blocks
  BY OpenBlocksIs, ClosedBlocksIs, OpenIs
<1>4. others # {} => Min(others) \in Blocks /\ Max(others) \in Blocks
  <2> HIDE DEF others
  <2> QED BY <1>3, EdgesIn
<1>5. ledger[a].last = Unseen \/ ledger[a].last \in Blocks
  BY <1>2, RowIs, UnseenIs
<1>6. CASE row = NoStat
  BY <1>1, <1>6, UnseenIs
<1>7. CASE row # NoStat
  <2>1. row.txs \in Nat /\ row.first \in Blocks /\ row.last \in Blocks
    BY <1>2, <1>7, RowIs
  <2>2. last = Unseen \/ last \in Blocks
    BY <1>4, <1>5
  <2>3. OneLess(row.txs) \in Nat
    BY <2>1, OneLessIs
  <2> HIDE DEF others, row, last
  <2>4. first \in Blocks /\ left \in Blocks
    BY <1>4, <2>1, <2>2
  <2> HIDE DEF first, left
  <2>5. [txs |-> OneLess(row.txs), first |-> first, last |-> left] \in StatRow
    BY <2>3, <2>4, RowMade
  <2> QED BY <1>1, <2>5, UnseenIs
<1> QED BY <1>6, <1>7

LEMMA LeavesIs ==
    ASSUME NEW f \in Leaves, NEW a \in Addr, NEW s \in StatRow
    PROVE  /\ [b \in DOMAIN f \cup {a} |-> IF b = a THEN s ELSE f[b]] \in Leaves
           /\ \A b \in DOMAIN f : f[b] \in StatRow /\ b \in Addr
<1>1. DOMAIN f \in SUBSET Addr /\ \A b \in DOMAIN f : f[b] \in StatRow
  BY DEF Leaves
<1> DEFINE D == DOMAIN f \cup {a}
<1>2. D \in SUBSET Addr
  BY <1>1
<1>3. [b \in D |-> IF b = a THEN s ELSE f[b]] \in [D -> StatRow]
  BY <1>1
<1>4. [b \in D |-> IF b = a THEN s ELSE f[b]] \in Leaves
  <2> HIDE DEF D
  <2> QED BY <1>2, <1>3 DEF Leaves
<1> QED BY <1>1, <1>4

LEMMA RevertTakeStep ==
    ASSUME RebaseInv, RevertTake
    PROVE  RebaseInv'
<1> USE DEF RebaseInv
<1>1. UNCHANGED <<held, ledger, stats, addresses, txsTotal, recorded, version, rebase, index, check, walk, moves, days, toCome>>
  BY DEF RevertTake, rowVars, verifyVars
<1> DEFINE w == "realtime"
<1> DEFINE a == Min(writers[w].todo)
<1> DEFINE s == RevertedRow(a, writers[w].block)
<1> DEFINE f == writers[w].row
<1> DEFINE g == [b \in DOMAIN f \cup {a} |-> IF b = a THEN s ELSE f[b]]
<1> DEFINE r == [writers[w] EXCEPT !.todo = writers[w].todo \ {a}, !.row = g]
<1>0. w \in Writer
  BY Holders
<1>2. writers[w] \in WriterType /\ writers \in [Writer -> WriterType] /\ rowLock \in [Addr -> Writer \cup {"free", "rebase"}]
  BY <1>0 DEF TypesInv
<1>3. /\ writers[w].op = "revert" /\ writers[w].todo # {}
      /\ stats[a] = NoStat => rowLock' = rowLock
      /\ stats[a] # NoStat => rowLock[a] = "free" /\ rowLock' = [rowLock EXCEPT ![a] = w]
      /\ past' = IF stats[a] = NoStat /\ rowLock[a] # "rebase" THEN [past EXCEPT !.passed = past.passed \cup {a}] ELSE past
  BY DEF RevertTake
<1>4. writers' = [writers EXCEPT ![w] = r]
  BY <1>0, <1>2 DEF RevertTake, WriterType
<1>5. a \in writers[w].todo /\ a \in Addr
  <2>1. writers[w].todo \in SUBSET Addr
    BY <1>2 DEF WriterType
  <2> QED BY <1>3, <2>1, MinIn
<1>6. s \in StatRow
  <2>1. writers[w].block \in Open
    BY <1>0, <1>3, HitIs
  <2> HIDE DEF a
  <2> QED BY <1>5, <2>1, RevertedRowIs
<1>7. f \in Leaves
  BY <1>2 DEF WriterType
<1> HIDE DEF s, f, a
<1>8. g \in Leaves /\ DOMAIN g = DOMAIN f \cup {a}
  BY <1>5, <1>6, <1>7, LeavesIs
<1> HIDE DEF g
<1>9. /\ r \in WriterType /\ r.op = writers[w].op /\ r.block = writers[w].block /\ r.fork = writers[w].fork
      /\ r.todo = writers[w].todo \ {a} /\ r.row = g
  BY <1>2, <1>8 DEF WriterType
<1> HIDE DEF r
<1>10. /\ rowLock' \in [Addr -> Writer \cup {"free", "rebase"}]
       /\ \A b \in Addr : b # a => rowLock'[b] = rowLock[b]
       /\ stats[a] = NoStat => rowLock'[a] = rowLock[a]
       /\ stats[a] # NoStat => rowLock'[a] = w /\ rowLock[a] = "free"
  BY <1>0, <1>2, <1>3, <1>5
<1>11. /\ writers' \in [Writer -> WriterType] /\ WritersInv'
       /\ writers'[w] = r /\ Hit(w)' = Hit(w)
  <2>1. (rowLock'[a] = w /\ rowLock[a] = "free") \/ (rowLock'[a] = rowLock[a] /\ r.op # "ingest")
    BY <1>3, <1>9, <1>10
  <2>2. writers[w].op # "idle"
    BY <1>3
  <2> HIDE DEF w
  <2> QED BY <1>0, <1>1, <1>4, <1>5, <1>9, <1>10, <2>1, <2>2, WriterTakes
<1>12. /\ past \in [made : Nat, seen : Nat, lost : SUBSET Addr, passed : SUBSET Addr]
       /\ past' \in [made : Nat, seen : Nat, lost : SUBSET Addr, passed : SUBSET Addr]
       /\ past'.made = past.made /\ past'.seen = past.seen /\ past.passed \subseteq past'.passed
       /\ stats[a] = NoStat /\ rowLock[a] # "rebase" => a \in past'.passed
  BY <1>3, <1>5 DEF TypesInv
<1>13. stats[a] = NoStat => rowLock[a] # "rebase"
  <2> SUFFICES ASSUME stats[a] = NoStat, rowLock[a] = "rebase"
               PROVE  FALSE
    OBVIOUS
  <2>1. a \in rebase.made /\ a \in rebase.batch /\ a \notin rebase.todo
    BY <1>5 DEF BatchInv
  <2>2. Creates(rebase.read[a])
    BY <2>1 DEF BatchInv
  <2>3. rebase.revertLock
    BY <2>1, <2>2 DEF BatchInv, Making
  <2> QED BY <1>3, <2>3 DEF RevertInv
<1>14. RevertInv'
  <2>1. held'[r.block] = r.fork /\ ~rebase'.revertLock
    BY <1>1, <1>3, <1>9 DEF RevertInv
  <2>2. \A b : OpenBlocks(b)' = OpenBlocks(b)
    BY <1>1, TruthStays
  <2>3. rowLock[a] # w
    BY <1>0, <1>3, <1>5, HitIs
  <2>4. ASSUME NEW b \in Addr, b = a
        PROVE  Decided(b)'
    <3>1. stats[b] = NoStat => rowLock'[b] # w /\ b \in past'.passed /\ stats'[b] = NoStat
      BY <1>1, <1>10, <1>12, <1>13, <2>3, <2>4
    <3>2. stats[b] # NoStat => rowLock'[b] = w /\ stats'[b] # NoStat /\ b \in DOMAIN writers'[w].row
      BY <1>1, <1>8, <1>9, <1>10, <1>11, <2>4
    <3> QED BY <3>1, <3>2 DEF Decided
  <2>5. Hit(w) \subseteq Addr
    BY <1>0, <1>3, HitIs
  <2>6. ASSUME NEW b \in Hit(w) \ r.todo, b # a
        PROVE  Decided(b)'
    <3>1. Decided(b)
      BY <1>3, <1>9, <2>6 DEF RevertInv
    <3>2. b \in Addr /\ rowLock'[b] = rowLock[b]
      BY <1>10, <2>5, <2>6
    <3> QED BY <1>1, <1>8, <1>9, <1>11, <1>12, <2>2, <3>1, <3>2 DEF Decided, f
  <2>7. \A b \in Hit(w)' \ writers'[w].todo : Decided(b)'
    BY <1>9, <1>11, <2>4, <2>5, <2>6
  <2>8. held'[writers'[w].block] = writers'[w].fork
    BY <1>11, <2>1
  <2> QED BY <2>1, <2>7, <2>8 DEF RevertInv
<1>15. \A b \in Addr : rowLock'[b] = "rebase" <=> rowLock[b] = "rebase"
  BY <1>10
<1>16. BatchInv' /\ KeptInv' /\ MovedInv'
  BY <1>1, <1>12, <1>15, RebaseKeepsRows
<1>17. TypesInv'
  BY <1>1, <1>10, <1>11, <1>12 DEF TypesInv
<1> QED BY <1>1, <1>11, <1>12, <1>14, <1>16, <1>17, DaysStay, AccountsStay

-----------------------------------------------------------------------------
(* A block write commits *)

\* Rows that come and rows that go, counted.
LEMMA RowsChange ==
    ASSUME NEW A \in SUBSET Addr, NEW come \in SUBSET Addr, NEW gone \in SUBSET A, come \cap A = {}
    PROVE  /\ Cardinality((A \ gone) \cup come) = Cardinality(A) - Cardinality(gone) + Cardinality(come)
           /\ Cardinality(A) \in Nat /\ Cardinality(come) \in Nat /\ Cardinality(gone) \in Nat
           /\ Cardinality(gone) <= Cardinality(A) /\ Cardinality((A \ gone) \cup come) \in Nat
<1>1. IsFiniteSet(A) /\ IsFiniteSet(come) /\ IsFiniteSet(Addr)
  BY RebaseAssumption, FS_Subset
<1>2. IsFiniteSet(gone) /\ Cardinality(gone) <= Cardinality(A)
  BY <1>1, FS_Subset
<1> DEFINE B == A \ gone
<1>3. B \in SUBSET A
  OBVIOUS
<1>4. IsFiniteSet(B)
  BY <1>1, <1>3, FS_Subset
<1>5. /\ Cardinality(A) \in Nat /\ Cardinality(come) \in Nat /\ Cardinality(gone) \in Nat /\ Cardinality(B) \in Nat
      /\ Cardinality({}) = 0
  BY <1>1, <1>2, <1>4, FS_CardinalityType, FS_EmptySet
<1>6. B \cup gone = A /\ B \cap gone = {} /\ B \cap come = {}
  OBVIOUS
<1> HIDE DEF B
<1>7. Cardinality(B \cup gone) = Cardinality(B) + Cardinality(gone) - Cardinality(B \cap gone)
  BY <1>2, <1>4, FS_Union
<1>8. Cardinality(B \cup come) = Cardinality(B) + Cardinality(come) - Cardinality(B \cap come)
  BY <1>1, <1>4, FS_Union
<1>9. Cardinality(B) = Cardinality(A) - Cardinality(gone)
  <2>1. Cardinality(A) = Cardinality(B) + Cardinality(gone) - 0
    BY <1>5, <1>6, <1>7, Zenon
  <2> QED BY <1>5, <2>1
<1>10. Cardinality(B \cup come) = Cardinality(A) - Cardinality(gone) + Cardinality(come)
  <2>1. Cardinality(B \cup come) = Cardinality(B) + Cardinality(come) - 0
    BY <1>5, <1>6, <1>8, Zenon
  <2> QED BY <1>5, <1>9, <2>1
<1>11. Cardinality(B \cup come) \in Nat
  BY <1>1, <1>4, FS_Union, FS_CardinalityType
<1> QED BY <1>2, <1>5, <1>10, <1>11 DEF B

\* What a commit adds: its block, to the truth and to the row of every address it touches, which it holds.
LEMMA IngestMoves ==
    ASSUME RebaseInv, NEW w \in Writer, IngestCommit(w)
    PROVE  /\ writers[w].op = "ingest" /\ writers[w].block \in Open /\ writers[w].fork \in 1 .. 2
           /\ writers[w].todo = {} /\ Hit(w) \in SUBSET Addr
           /\ \A a \in Hit(w) : rowLock[a] = w
           /\ held' = [held EXCEPT ![writers[w].block] = writers[w].fork] /\ held[writers[w].block] = 0
           /\ \A a \in Addr : a \in Hit(w) => /\ OpenBlocks(a)' = OpenBlocks(a) \cup {writers[w].block}
                                              /\ Truth(a)' = Plus(Truth(a), writers[w].block)
                                              /\ stats'[a] = Plus(stats[a], writers[w].block)
           /\ \A a \in Addr : a \notin Hit(w) => /\ OpenBlocks(a)' = OpenBlocks(a)
                                                 /\ Truth(a)' = Truth(a)
                                                 /\ stats'[a] = stats[a]
           /\ stats' \in [Addr -> StatRow]
<1> USE DEF RebaseInv
<1>1. /\ writers[w].op = "ingest" /\ writers[w].todo = {}
      /\ held' = [held EXCEPT ![writers[w].block] = writers[w].fork]
      /\ stats' = [a \in Addr |-> IF a \notin Hit(w) THEN stats[a] ELSE Plus(stats[a], writers[w].block)]
      /\ UNCHANGED ledger
  BY DEF IngestCommit, Hit, Plus
<1>2. writers[w].block \in Open /\ writers[w].fork \in 1 .. 2 /\ Hit(w) \in SUBSET Addr
  BY <1>1, HitIs
<1>3. held[writers[w].block] = 0 /\ \A a \in Hit(w) : rowLock[a] = w
  BY <1>1 DEF WritersInv
<1>4. held \in [Open -> 0 .. 2] /\ stats \in [Addr -> StatRow] /\ ledger \in [Addr -> StatRow]
  BY DEF TypesInv
<1>5. \A m \in Open : held'[m] = IF m = writers[w].block THEN writers[w].fork ELSE held[m]
  BY <1>1, <1>2, <1>4
<1>6. \A a \in Addr : a \in Hit(w) => OpenBlocks(a)' = OpenBlocks(a) \cup {writers[w].block}
  BY <1>2, <1>3, <1>5 DEF OpenBlocks, Hit
<1>7. \A a \in Addr : a \notin Hit(w) => OpenBlocks(a)' = OpenBlocks(a)
  BY <1>2, <1>3, <1>5 DEF OpenBlocks, Hit
<1>8. \A a : Truth(a)' = TruthOf(ledger[a], OpenBlocks(a)') /\ Truth(a) = TruthOf(ledger[a], OpenBlocks(a))
  BY <1>1 DEF Truth, TruthOf
<1>9. ASSUME NEW a \in Addr, a \in Hit(w)
      PROVE  Truth(a)' = Plus(Truth(a), writers[w].block)
  <2>1. OpenBlocks(a) \in SUBSET Open /\ writers[w].block \notin OpenBlocks(a) /\ ledger[a] \in StatRow
    BY <1>3, <1>4, OpenBlocksIs DEF OpenBlocks
  <2>2. TruthOf(ledger[a], OpenBlocks(a) \cup {writers[w].block}) = Plus(TruthOf(ledger[a], OpenBlocks(a)), writers[w].block)
    BY <1>2, <2>1, TruthGrows
  <2> QED BY <1>6, <1>8, <1>9, <2>2
<1>10. \A a \in Addr : a \notin Hit(w) => Truth(a)' = Truth(a)
  BY <1>7, <1>8
<1>11. writers[w].block \in Blocks
  BY <1>2, OpenIs
<1>12. \A a \in Addr : stats[a] \in StatRow /\ Plus(stats[a], writers[w].block) \in StatRow
  BY <1>4, <1>11, PlusIs
<1>13. stats' \in [Addr -> StatRow]
  BY <1>1, <1>12
<1> QED BY <1>1, <1>2, <1>3, <1>6, <1>7, <1>9, <1>10, <1>13

\* A writer is done: its rows are free, the other writer goes on.
LEMMA WriterEnds ==
    ASSUME RebaseInv, NEW w \in Writer, writers[w].op # "idle", NEW f \in 0 .. 2,
           writers' = [writers EXCEPT ![w] = IdleWriter], rowLock' = Released(w),
           held' = [held EXCEPT ![writers[w].block] = f]
    PROVE  /\ writers' \in [Writer -> WriterType] /\ rowLock' \in [Addr -> Writer \cup {"free", "rebase"}]
           /\ WritersInv' /\ held' \in [Open -> 0 .. 2]
           /\ writers'[w] = IdleWriter /\ \A v \in Writer : v # w => writers'[v] = writers[v] /\ Hit(v)' = Hit(v)
           /\ \A a \in Addr : rowLock'[a] = IF rowLock[a] = w THEN "free" ELSE rowLock[a]
<1> USE DEF RebaseInv
<1>1. writers \in [Writer -> WriterType] /\ held \in [Open -> 0 .. 2]
  BY DEF TypesInv
<1>2. writers[w].block \in Open
  BY HitIs
<1>3. held' \in [Open -> 0 .. 2] /\ \A m \in Open : m # writers[w].block => held'[m] = held[m]
  BY <1>1, <1>2
<1>4. writers' \in [Writer -> WriterType] /\ writers'[w] = IdleWriter /\ \A v \in Writer : v # w => writers'[v] = writers[v]
  BY <1>1, IdleIs
<1>5. /\ rowLock' \in [Addr -> Writer \cup {"free", "rebase"}]
      /\ \A a \in Addr : rowLock'[a] = IF rowLock[a] = w THEN "free" ELSE rowLock[a]
  BY ReleasedIs
<1>6. \A v \in Writer : v # w => Hit(v)' = Hit(v)
  BY <1>4 DEF Hit
<1>7. \A a \in Addr, v \in Writer : rowLock'[a] = v <=> v # w /\ rowLock[a] = v
  BY <1>5, Holders
<1>8. WritersInv'
  <2> SUFFICES ASSUME NEW v \in Writer
               PROVE  (/\ writers[v].op = "idle" => writers[v] = IdleWriter /\ \A b \in Addr : rowLock[b] # v
                       /\ writers[v].op # "idle" => /\ writers[v].block \in Open /\ writers[v].fork \in 1 .. 2
                                                    /\ writers[v].todo \subseteq Hit(v)
                                                    /\ \A b \in Addr : rowLock[b] = v => b \in Hit(v) \ writers[v].todo
                                                    /\ \A u \in Writer \ {v} : writers[u].op # "idle" => writers[u].block # writers[v].block
                       /\ writers[v].op = "ingest" => /\ held[writers[v].block] = 0
                                                      /\ \A b \in Hit(v) \ writers[v].todo : rowLock[b] = v
                       /\ writers[v].op = "revert" => v = "realtime")'
    BY DEF WritersInv
  <2>1. CASE v = w
    BY <1>4, <1>7, <2>1 DEF IdleWriter
  <2>2. CASE v # w
    <3>1. writers[v].op # "idle" => Hit(v) \subseteq Addr /\ writers[v].block \in Open
      BY HitIs
    <3>2. writers[v].op # "idle" => writers[v].block # writers[w].block
      BY <2>2 DEF WritersInv
    <3>3. IdleWriter.op = "idle"
      BY DEF IdleWriter
    <3> QED BY <1>3, <1>4, <1>6, <1>7, <2>2, <3>1, <3>2, <3>3 DEF WritersInv
  <2> QED BY <2>1, <2>2
<1> QED BY <1>3, <1>4, <1>5, <1>6, <1>8

LEMMA IngestCommitStep ==
    ASSUME RebaseInv, NEW w \in Writer, IngestCommit(w)
    PROVE  RebaseInv'
<1> USE DEF RebaseInv
<1>1. UNCHANGED <<ledger, recorded, version, rebase, index, check, walk, moves, days, past, toCome>>
  BY DEF IngestCommit, verifyVars, dayVars
<1>2. PICK n \in Open, H \in SUBSET Addr :
        /\ n = writers[w].block /\ H = Hit(w)
        /\ writers[w].op = "ingest" /\ writers[w].fork \in 1 .. 2
        /\ \A a \in H : rowLock[a] = w
        /\ held' = [held EXCEPT ![n] = writers[w].fork] /\ held[n] = 0
        /\ \A a \in Addr : a \in H => /\ OpenBlocks(a)' = OpenBlocks(a) \cup {n}
                                      /\ Truth(a)' = Plus(Truth(a), n)
                                      /\ stats'[a] = Plus(stats[a], n)
        /\ \A a \in Addr : a \notin H => /\ OpenBlocks(a)' = OpenBlocks(a)
                                         /\ Truth(a)' = Truth(a)
                                         /\ stats'[a] = stats[a]
        /\ stats' \in [Addr -> StatRow]
  <2>1. writers[w].block \in Open /\ Hit(w) \in SUBSET Addr
    BY IngestMoves
  <2> QED BY <2>1, IngestMoves
<1>3. n \in Blocks /\ stats \in [Addr -> StatRow] /\ recorded \in [Addr -> Nat]
  BY OpenIs DEF TypesInv
<1>4. \A a \in Addr : /\ Plus(stats[a], n) # NoStat /\ Plus(stats[a], n).txs = stats[a].txs + 1
                      /\ Plus(stats[a], n).first = IF stats[a] = NoStat \/ n <= stats[a].first THEN n ELSE stats[a].first
                      /\ Plus(Truth(a), n) # NoStat
  BY <1>3, TruthTyped, PlusIs
<1>5. \A a \in Addr : stats[a] # NoStat => stats'[a] # NoStat
  BY <1>2, <1>4
<1>6. /\ writers' \in [Writer -> WriterType] /\ rowLock' \in [Addr -> Writer \cup {"free", "rebase"}]
      /\ WritersInv' /\ held' \in [Open -> 0 .. 2]
      /\ writers'[w] = IdleWriter /\ \A v \in Writer : v # w => writers'[v] = writers[v] /\ Hit(v)' = Hit(v)
      /\ \A a \in Addr : rowLock'[a] = IF rowLock[a] = w THEN "free" ELSE rowLock[a]
  <2>1. writers' = [writers EXCEPT ![w] = IdleWriter] /\ rowLock' = Released(w)
    BY DEF IngestCommit
  <2>2. writers[w].op # "idle"
    BY <1>2
  <2> DEFINE f == writers[w].fork
  <2>3. f \in 0 .. 2 /\ held' = [held EXCEPT ![writers[w].block] = f]
    BY <1>2
  <2> HIDE DEF f
  <2> QED BY <2>1, <2>2, <2>3, WriterEnds
<1>7. RevertInv'
  <2> DEFINE r == writers["realtime"]
  <2> SUFFICES ASSUME writers'["realtime"].op = "revert"
               PROVE  RevertInv'
    BY DEF RevertInv
  <2>1. "realtime" # w /\ "realtime" \in Writer
    BY <1>6, Holders DEF IdleWriter
  <2>2. writers'["realtime"] = r /\ r.op = "revert" /\ Hit("realtime")' = Hit("realtime")
    BY <1>6, <2>1
  <2>3. r.block # n /\ r.block \in Open /\ Hit("realtime") \in SUBSET Addr
    <3>1. r.op # "idle" /\ writers[w].op # "idle"
      BY <1>2, <2>2
    <3>2. r.block # n
      BY <1>2, <2>1, <3>1 DEF WritersInv
    <3> QED BY <2>1, <3>1, <3>2, HitIs
  <2>4. held'[r.block] = r.fork /\ ~rebase'.revertLock
    BY <1>1, <1>2, <2>2, <2>3 DEF RevertInv, TypesInv
  <2>5. ASSUME NEW a \in Hit("realtime") \ r.todo
        PROVE  Decided(a)'
    <3>1. Decided(a) /\ a \in Addr
      BY <2>2, <2>3 DEF RevertInv
    <3>2. rowLock'[a] = "realtime" <=> rowLock[a] = "realtime"
      BY <1>6, <2>1, <3>1
    <3>3. rowLock[a] = "realtime" => stats'[a] # NoStat /\ a \in DOMAIN r.row
      BY <1>5, <3>1 DEF Decided
    <3>4. rowLock[a] # "realtime" => a \in past.passed /\ (stats'[a] # NoStat => OpenBlocks(a)' \ {r.block} # {})
      <4>1. CASE a \in H
        BY <1>2, <2>3, <3>1, <4>1 DEF Decided
      <4>2. CASE a \notin H
        BY <1>2, <3>1, <4>2 DEF Decided
      <4> QED BY <4>1, <4>2
    <3> QED BY <1>1, <2>2, <3>2, <3>3, <3>4 DEF Decided
  <2> QED BY <2>2, <2>4, <2>5 DEF RevertInv
<1>8. /\ DOMAIN rebase.read \subseteq Addr /\ rebase.batch \subseteq Addr
      /\ \A a \in DOMAIN rebase.read : rebase.read[a] \in ReadRecord
  BY ReadTyped DEF BatchInv
<1>9. \A a \in Addr : rowLock'[a] = "rebase" <=> rowLock[a] = "rebase"
  BY <1>6, Holders
<1>10. BatchInv'
  <2>1. \A a \in rebase.batch : Creates(rebase.read[a]) /\ a \notin rebase.todo => rowLock[a] = "rebase" /\ a \notin H
    BY <1>2, Holders DEF BatchInv
  <2>2. \A a \in rebase.batch : a \in rebase.made <=> Creates(rebase.read[a]) /\ a \notin rebase.todo /\ stats'[a] = NoStat
    BY <1>2, <1>8, <2>1 DEF BatchInv
  <2>3. \A a \in Addr : rowLock'[a] = "rebase" /\ stats'[a] = NoStat => a \in rebase.made
    BY <1>5, <1>9 DEF BatchInv
  <2>4. \A a \in Addr : rowLock'[a] = "rebase" => a \in rebase.batch \ rebase.todo
    BY <1>9 DEF BatchInv
  <2>5. \A a \in rebase.batch : Creates(rebase.read[a]) /\ a \notin rebase.todo => rowLock'[a] = "rebase"
    BY <1>8, <1>9 DEF BatchInv
  <2>6. \A a \in Addr : rowLock'[a] = "rebase" => Present(rebase.read[a]) \/ Creates(rebase.read[a])
    BY <1>9 DEF BatchInv
  <2> QED BY <1>1, <2>2, <2>3, <2>4, <2>5, <2>6 DEF BatchInv, Making
<1>11. \A a : Late(a)' = Late(a)
  BY <1>1 DEF Late
<1>12. KeptInv'
  <2>1. ASSUME NEW a \in DOMAIN rebase.read, Present(rebase.read[a]), ~Late(a)
        PROVE  /\ stats'[a] # NoStat
               /\ stats'[a].txs >= rebase.read[a].row.txs /\ stats'[a].first <= rebase.read[a].row.first
               /\ Seen(rebase.read[a]) => Truth(a)' # NoStat
    <3>1. a \in Addr /\ rebase.read[a].row \in StatRow /\ rebase.read[a].row # NoStat
      BY <1>8, <2>1 DEF ReadRecord, Present
    <3>2. /\ stats[a] # NoStat
          /\ stats[a].txs >= rebase.read[a].row.txs /\ stats[a].first <= rebase.read[a].row.first
          /\ Seen(rebase.read[a]) => Truth(a) # NoStat
      BY <2>1 DEF KeptInv
    <3>3. /\ stats[a].txs \in Nat /\ stats[a].first \in Nat
          /\ rebase.read[a].row.txs \in Nat /\ rebase.read[a].row.first \in Nat /\ n \in Nat
      BY <1>3, <3>1, <3>2, RowIs, OpenIs
    <3>4. CASE a \in H
      BY <1>2, <1>4, <3>1, <3>2, <3>3, <3>4
    <3>5. CASE a \notin H
      BY <1>2, <3>1, <3>2, <3>5
    <3> QED BY <3>4, <3>5
  <2> QED BY <1>1, <1>8, <1>9, <1>11, <2>1 DEF KeptInv
<1>13. MovedInv'
  <2> SUFFICES ASSUME NEW a \in DOMAIN rebase.read, Seen(rebase.read[a]), recorded[a] = rebase.read[a].reverted
               PROVE  Moved(rebase.read[a], stats'[a], Truth(a)')
    BY <1>1 DEF MovedInv
  <2>1. Moved(rebase.read[a], stats[a], Truth(a))
    BY DEF MovedInv
  <2>2. a \in Addr /\ rebase.read[a] \in ReadRecord /\ stats[a] \in StatRow /\ Truth(a) \in StatRow
    BY <1>3, <1>8, TruthTyped
  <2>3. CASE a \in H
    <3>1. Moved(rebase.read[a], Plus(stats[a], n), Plus(Truth(a), n))
      <4> DEFINE v == rebase.read[a]
      <4> DEFINE t == Truth(a)
      <4>1. v \in ReadRecord /\ t \in StatRow /\ Seen(v) /\ Moved(v, stats[a], t)
        BY <2>1, <2>2
      <4> HIDE DEF v, t
      <4>2. Moved(v, Plus(stats[a], n), Plus(t, n))
        BY <1>3, <2>2, <4>1, MovedPlus
      <4> QED BY <4>2 DEF v, t
    <3> QED BY <1>2, <2>2, <2>3, <3>1
  <2>4. CASE a \notin H
    BY <1>2, <2>1, <2>2, <2>4
  <2> QED BY <2>3, <2>4
<1>14. addresses' \in Nat /\ RowsAccounted'
  <2> DEFINE A == {a \in Addr : stats[a] # NoStat}
  <2> DEFINE come == {a \in H : stats[a] = NoStat}
  <2> DEFINE gone == {}
  <2>1. addresses' = addresses + Cardinality(come) /\ addresses = Cardinality(A)
    BY <1>2 DEF IngestCommit, Hit, RowsAccounted
  <2>2. A \in SUBSET Addr /\ come \in SUBSET Addr /\ gone \in SUBSET A /\ come \cap A = {}
    BY <1>2
  <2>3. {a \in Addr : stats'[a] # NoStat} = (A \ gone) \cup come
    BY <1>2, <1>4
  <2>4. Cardinality(gone) = 0
    BY FS_EmptySet
  <2> HIDE DEF A, come, gone
  <2>5. /\ Cardinality((A \ gone) \cup come) = Cardinality(A) - Cardinality(gone) + Cardinality(come)
        /\ Cardinality(A) \in Nat /\ Cardinality(come) \in Nat
    BY <2>2, RowsChange
  <2>6. addresses' = Cardinality((A \ gone) \cup come) /\ addresses' \in Nat
    BY <2>1, <2>4, <2>5
  <2> QED BY <1>1, <2>3, <2>6 DEF RowsAccounted
<1>15. DaysInv'
  BY <1>1, DaysStay
<1>16. txsTotal' \in Nat
  BY DEF TypesInv, IngestCommit
<1>17. TypesInv'
  BY <1>1, <1>2, <1>6, <1>14, <1>16 DEF TypesInv
<1> QED BY <1>6, <1>7, <1>10, <1>12, <1>13, <1>14, <1>15, <1>17

-----------------------------------------------------------------------------
(* A revert commits *)

\* What a revert changes: rows it holds, and the truth and the record of its block's addresses.
LEMMA RevertMoves ==
    ASSUME RebaseInv, RevertCommit
    PROVE  /\ writers["realtime"].op = "revert" /\ writers["realtime"].todo = {}
           /\ writers["realtime"].block \in Open /\ Hit("realtime") \in SUBSET Addr
           /\ \A a \in Addr : rowLock[a] = "realtime" => /\ a \in Hit("realtime") /\ stats[a] # NoStat
                                                         /\ writers["realtime"].row[a] \in StatRow
                                                         /\ stats'[a] = writers["realtime"].row[a]
           /\ \A a \in Addr : rowLock[a] # "realtime" => stats'[a] = stats[a]
           /\ stats' \in [Addr -> StatRow]
           /\ \A a \in Addr : OpenBlocks(a)' = OpenBlocks(a) \ {writers["realtime"].block}
           /\ \A a \in Addr : a \notin Hit("realtime") => Truth(a)' = Truth(a) /\ recorded'[a] = recorded[a]
           /\ \A a \in Hit("realtime") : recorded'[a] = version + 1
           /\ recorded' \in [Addr -> Nat] /\ version' = version + 1
<1> USE DEF RebaseInv
<1> DEFINE r == writers["realtime"]
<1> DEFINE H == Hit("realtime")
<1>1. /\ r.op = "revert" /\ r.todo = {} /\ version' = version + 1
      /\ stats' = [a \in Addr |-> IF a \in HeldBy("realtime") THEN r.row[a] ELSE stats[a]]
      /\ held' = [held EXCEPT ![r.block] = 0]
      /\ recorded' = [a \in Addr |-> IF a \in H THEN version' ELSE recorded[a]]
      /\ UNCHANGED ledger
  BY DEF RevertCommit, Hit
<1>2. "realtime" \in Writer /\ r.op # "idle"
  BY <1>1, Holders
<1>3. r.block \in Open /\ r.fork \in 1 .. 2 /\ H \in SUBSET Addr /\ \A a \in Addr : rowLock[a] = "realtime" => a \in H
  BY <1>2, HitIs
<1>4. held[r.block] = r.fork /\ \A a \in H : Decided(a)
  BY <1>1 DEF RevertInv
<1>5. r.row \in Leaves /\ stats \in [Addr -> StatRow] /\ held \in [Open -> 0 .. 2] /\ version \in Nat /\ recorded \in [Addr -> Nat]
  BY <1>2 DEF TypesInv, WriterType
<1>6. \A a \in Addr : rowLock[a] = "realtime" => stats[a] # NoStat /\ r.row[a] \in StatRow
  <2>1. \A b \in DOMAIN r.row : r.row[b] \in StatRow
    BY <1>5 DEF Leaves
  <2> QED BY <1>3, <1>4, <2>1 DEF Decided
<1>7. \A a \in Addr : stats'[a] = IF rowLock[a] = "realtime" THEN r.row[a] ELSE stats[a]
  BY <1>1 DEF HeldBy
<1>8. stats' \in [Addr -> StatRow]
  BY <1>1, <1>5, <1>6 DEF HeldBy
<1>9. \A m \in Open : held'[m] = IF m = r.block THEN 0 ELSE held[m]
  BY <1>1, <1>3, <1>5
<1>10. \A a \in Addr : OpenBlocks(a)' = OpenBlocks(a) \ {r.block}
  BY <1>9 DEF OpenBlocks
<1>11. \A a \in Addr : a \notin H => r.block \notin OpenBlocks(a)
  BY <1>4 DEF OpenBlocks, Hit
<1>12. \A a \in Addr : a \notin H => OpenBlocks(a)' = OpenBlocks(a)
  BY <1>10, <1>11
<1>13. \A a \in Addr : a \notin H => Truth(a)' = Truth(a)
  BY <1>1, <1>12 DEF Truth
<1>14. recorded' \in [Addr -> Nat] /\ \A a \in Addr : recorded'[a] = IF a \in H THEN version + 1 ELSE recorded[a]
  BY <1>1, <1>5
<1> QED BY <1>1, <1>3, <1>6, <1>7, <1>8, <1>10, <1>13, <1>14

LEMMA RevertCommitStep ==
    ASSUME RebaseInv, RevertCommit
    PROVE  RebaseInv'
<1> USE DEF RebaseInv
<1>1. UNCHANGED <<ledger, rebase, index, check, walk, moves, days, toCome>>
  BY DEF RevertCommit, verifyVars
<1>2. PICK n \in Open, H \in SUBSET Addr :
        /\ n = writers["realtime"].block /\ H = Hit("realtime")
        /\ writers["realtime"].op = "revert" /\ writers["realtime"].todo = {}
        /\ \A a \in Addr : rowLock[a] = "realtime" => /\ a \in H /\ stats[a] # NoStat
                                                      /\ writers["realtime"].row[a] \in StatRow
                                                      /\ stats'[a] = writers["realtime"].row[a]
        /\ \A a \in Addr : rowLock[a] # "realtime" => stats'[a] = stats[a]
        /\ stats' \in [Addr -> StatRow]
        /\ \A a \in Addr : OpenBlocks(a)' = OpenBlocks(a) \ {n}
        /\ \A a \in Addr : a \notin H => Truth(a)' = Truth(a) /\ recorded'[a] = recorded[a]
        /\ \A a \in H : recorded'[a] = version + 1
        /\ recorded' \in [Addr -> Nat] /\ version' = version + 1
  <2>1. writers["realtime"].block \in Open /\ Hit("realtime") \in SUBSET Addr
    BY RevertMoves
  <2> QED BY <2>1, RevertMoves
<1>3. version \in Nat /\ recorded \in [Addr -> Nat] /\ \A a \in Addr : recorded[a] <= version
  BY DEF TypesInv
<1>4. ~rebase.revertLock /\ \A a \in H : Decided(a)
  BY <1>2 DEF RevertInv
<1>5. /\ writers' \in [Writer -> WriterType] /\ rowLock' \in [Addr -> Writer \cup {"free", "rebase"}]
      /\ WritersInv' /\ held' \in [Open -> 0 .. 2]
      /\ writers'["realtime"] = IdleWriter
      /\ \A a \in Addr : rowLock'[a] = IF rowLock[a] = "realtime" THEN "free" ELSE rowLock[a]
  <2> DEFINE w == "realtime"
  <2> DEFINE f == 0
  <2>1. /\ writers' = [writers EXCEPT ![w] = IdleWriter] /\ rowLock' = Released(w)
        /\ held' = [held EXCEPT ![writers[w].block] = f] /\ f \in 0 .. 2
    BY DEF RevertCommit
  <2>2. writers[w].op # "idle" /\ w \in Writer
    BY <1>2, Holders
  <2> HIDE DEF w, f
  <2>3. /\ writers' \in [Writer -> WriterType] /\ rowLock' \in [Addr -> Writer \cup {"free", "rebase"}]
        /\ WritersInv' /\ held' \in [Open -> 0 .. 2]
        /\ writers'[w] = IdleWriter
        /\ \A a \in Addr : rowLock'[a] = IF rowLock[a] = w THEN "free" ELSE rowLock[a]
    BY <2>1, <2>2, WriterEnds
  <2> QED BY <2>3 DEF w
<1>6. RevertInv'
  BY <1>5 DEF RevertInv, IdleWriter
<1>7. /\ DOMAIN rebase.read \subseteq Addr /\ rebase.batch \subseteq Addr /\ rebase.batch \subseteq DOMAIN rebase.read
      /\ \A a \in DOMAIN rebase.read : /\ rebase.read[a] \in ReadRecord /\ rebase.read[a].reverted \in Nat
                                       /\ rebase.read[a].reverted <= recorded[a]
  BY ReadTyped DEF BatchInv, ReadRecord
<1>8. \A a \in Addr : rowLock'[a] = "rebase" <=> rowLock[a] = "rebase"
  BY <1>5
<1>9. BatchInv'
  <2>1. \A a \in rebase.batch : Creates(rebase.read[a]) /\ a \notin rebase.todo => rowLock[a] = "rebase"
    BY DEF BatchInv
  <2>2. \A a \in rebase.batch : a \in rebase.made <=> Creates(rebase.read[a]) /\ a \notin rebase.todo /\ stats'[a] = NoStat
    BY <1>2, <1>7, <2>1 DEF BatchInv
  <2>3. \A a \in Addr : rowLock'[a] = "rebase" /\ stats'[a] = NoStat => a \in rebase.made
    BY <1>2, <1>8 DEF BatchInv
  <2>4. \A a \in Addr : rowLock'[a] = "rebase" => a \in rebase.batch \ rebase.todo
    BY <1>8 DEF BatchInv
  <2>5. \A a \in rebase.batch : Creates(rebase.read[a]) /\ a \notin rebase.todo => rowLock'[a] = "rebase"
    BY <1>7, <1>8 DEF BatchInv
  <2>6. \A a \in DOMAIN rebase.read : rebase.read[a].reverted <= recorded'[a]
    <3> SUFFICES ASSUME NEW a \in DOMAIN rebase.read
                 PROVE  rebase.read[a].reverted <= recorded'[a]
      OBVIOUS
    <3>1. a \in Addr /\ recorded[a] \in Nat /\ recorded[a] <= version
      BY <1>3, <1>7
    <3> QED BY <1>2, <1>3, <1>7, <3>1
  <2>7. \A a \in Addr : rowLock'[a] = "rebase" => Present(rebase.read[a]) \/ Creates(rebase.read[a])
    BY <1>8 DEF BatchInv
  <2> QED BY <1>1, <2>2, <2>3, <2>4, <2>5, <2>6, <2>7 DEF BatchInv, Making
<1>10. \A a \in DOMAIN rebase.read : a \in H => recorded'[a] # rebase.read[a].reverted
  <2> SUFFICES ASSUME NEW a \in DOMAIN rebase.read, a \in H
               PROVE  recorded'[a] # rebase.read[a].reverted
    OBVIOUS
  <2>1. a \in Addr /\ recorded[a] \in Nat /\ recorded[a] <= version /\ recorded'[a] = version + 1
    BY <1>2, <1>3, <1>7
  <2> QED BY <1>3, <1>7, <2>1
<1>11. past'.passed = past.passed /\ past'.made = past.made /\ past'.seen = past.seen
       /\ past' \in [made : Nat, seen : Nat, lost : SUBSET Addr, passed : SUBSET Addr]
  <2>1. past \in [made : Nat, seen : Nat, lost : SUBSET Addr, passed : SUBSET Addr]
    BY DEF TypesInv
  <2> DEFINE more == past.lost \cup {a \in HeldBy("realtime") : writers["realtime"].row[a] = NoStat
                                                                     /\ \E d \in check.found : d[1] = a}
  <2>2. more \in SUBSET Addr /\ past' = [past EXCEPT !.lost = more]
    BY <2>1 DEF RevertCommit, HeldBy
  <2> HIDE DEF more
  <2> QED BY <2>1, <2>2
<1>12. KeptInv'
  <2> SUFFICES ASSUME NEW a \in DOMAIN rebase.read
               PROVE  (LET v == rebase.read[a]
                       IN /\ Present(v) /\ ~Late(a) => /\ stats[a] # NoStat
                                                       /\ stats[a].txs >= v.row.txs /\ stats[a].first <= v.row.first
                                                       /\ Seen(v) => Truth(a) # NoStat
                          /\ Present(v) /\ ~Late(a) /\ a \in rebase.batch \ rebase.todo => rowLock[a] = "rebase"
                          /\ (Present(v) \/ Creates(v)) /\ ~Late(a) /\ recorded[a] # v.reverted => Present(v) /\ a \in past.passed)'
    BY <1>1 DEF KeptInv
  <2>1. a \in Addr
    BY <1>7
  <2>2. CASE a \notin H
    <3>1. stats'[a] = stats[a] /\ Truth(a)' = Truth(a) /\ recorded'[a] = recorded[a]
      BY <1>2, <2>1, <2>2
    <3>2. Late(a)' <=> Late(a)
      BY <1>1, <3>1 DEF Late
    <3> QED BY <1>1, <1>8, <1>11, <2>1, <3>1, <3>2 DEF KeptInv
  <2>3. CASE a \in H /\ ~(rebase.ready /\ a \in rebase.batch)
    <3>1. Late(a)'
      BY <1>1, <1>10, <2>3 DEF Late
    <3> QED BY <3>1
  <2>4. CASE a \in H /\ rebase.ready /\ a \in rebase.batch
    <3>1. rebase.todo = {} /\ rebase.batch # {} /\ ~Making
      BY <1>4, <2>4 DEF BatchInv
    <3>2. ~Creates(rebase.read[a])
      BY <2>4, <3>1 DEF Making
    <3>3. Late(a)' <=> Late(a)
      BY <1>1, <2>4 DEF Late
    <3>4. ASSUME Present(rebase.read[a]), ~Late(a)
          PROVE  /\ rowLock[a] = "rebase" /\ stats[a] # NoStat /\ stats'[a] = stats[a] /\ a \in past.passed /\ Truth(a)' # NoStat
                 /\ stats[a].txs >= rebase.read[a].row.txs /\ stats[a].first <= rebase.read[a].row.first
      <4>1. /\ rowLock[a] = "rebase" /\ stats[a] # NoStat
            /\ stats[a].txs >= rebase.read[a].row.txs /\ stats[a].first <= rebase.read[a].row.first
        BY <2>4, <3>1, <3>4 DEF KeptInv
      <4>2. a \in past.passed /\ OpenBlocks(a) \ {n} # {}
        BY <1>2, <1>4, <2>4, <4>1 DEF Decided
      <4>3. stats'[a] = stats[a]
        BY <1>2, <2>1, <4>1
      <4>4. Truth(a)' # NoStat
        <5> DEFINE B == OpenBlocks(a) \ {n}
        <5>1. B \in SUBSET Open /\ B # {} /\ ledger[a] \in StatRow
          BY <2>1, <4>2, OpenBlocksIs DEF TypesInv
        <5>2. Truth(a)' = TruthOf(ledger[a], B)
          BY <1>1, <1>2, <2>1 DEF Truth, TruthOf
        <5> HIDE DEF B
        <5> QED BY <5>1, <5>2, TruthIs
      <4> QED BY <4>1, <4>2, <4>3, <4>4
    <3> QED BY <1>1, <1>8, <1>11, <2>1, <3>2, <3>3, <3>4
  <2> QED BY <2>2, <2>3, <2>4
<1>13. MovedInv'
  BY <1>1, <1>2, <1>7, <1>10 DEF MovedInv
<1>14. addresses' \in Nat /\ RowsAccounted'
  <2> DEFINE A == {a \in Addr : stats[a] # NoStat}
  <2> DEFINE come == {}
  <2> DEFINE gone == {a \in HeldBy("realtime") : writers["realtime"].row[a] = NoStat}
  <2>1. addresses' = Max({addresses - Cardinality(gone), 0}) /\ addresses = Cardinality(A)
    BY DEF RevertCommit, RowsAccounted
  <2>2. A \in SUBSET Addr /\ come \in SUBSET Addr /\ gone \in SUBSET A /\ come \cap A = {}
    BY <1>2 DEF HeldBy
  <2>3. {a \in Addr : stats'[a] # NoStat} = (A \ gone) \cup come
    BY <1>2 DEF HeldBy
  <2>4. Cardinality(come) = 0
    BY FS_EmptySet
  <2> HIDE DEF A, come, gone
  <2>5. /\ Cardinality((A \ gone) \cup come) = Cardinality(A) - Cardinality(gone) + Cardinality(come)
        /\ Cardinality(A) \in Nat /\ Cardinality(gone) \in Nat /\ Cardinality(gone) <= Cardinality(A)
    BY <2>2, RowsChange
  <2> DEFINE k == Cardinality(A) - Cardinality(gone)
  <2>6. k \in Nat /\ Cardinality((A \ gone) \cup come) = k
    BY <2>4, <2>5
  <2>7. addresses' = Max({k, 0})
    BY <2>1
  <2> HIDE DEF k
  <2>8. {k, 0} \in SUBSET Int /\ \A y \in {k, 0} : y <= k
    BY <2>6
  <2>9. Max({k, 0}) = k
    BY <2>8, MaxIs
  <2> QED BY <1>1, <1>11, <2>3, <2>6, <2>7, <2>9 DEF RowsAccounted
<1>15. DaysInv'
  BY <1>1, <1>11, DaysStay
<1>16. txsTotal' \in Nat
  BY OneLessIs DEF TypesInv, RevertCommit
<1>17. \A a \in Addr : recorded'[a] <= version'
  BY <1>2, <1>3
<1>18. TypesInv'
  BY <1>1, <1>2, <1>3, <1>5, <1>11, <1>14, <1>16, <1>17 DEF TypesInv
<1> QED BY <1>5, <1>6, <1>9, <1>12, <1>13, <1>14, <1>15, <1>18

-----------------------------------------------------------------------------
(* A settlement *)

LEMMA TrueLedgerIs == \A a : TrueLedger(a) \in StatRow
<1> TAKE a
<1> DEFINE C == ClosedBlocks(a)
<1>1. C \in SUBSET Blocks
  BY ClosedBlocksIs
<1>2. TrueLedger(a) = [txs |-> Cardinality(C), first |-> Lower(C), last |-> Upper(C)]
  BY DEF TrueLedger
<1> HIDE DEF C
<1>3. IsFiniteSet(C)
  BY <1>1, OpenIs, FS_Subset
<1>4. C \in SUBSET Edge /\ Unseen \notin C
  BY <1>1, OpenIs DEF Edge, Unseen
<1>5. CASE C = {}
  <2>1. C \subseteq {Unseen}
    BY <1>5
  <2>2. Lower(C) = Unseen /\ Upper(C) = Unseen
    BY <1>3, <1>4, <2>1, LowerIs, UpperIs
  <2>3. Cardinality(C) = 0
    BY <1>5, FS_EmptySet
  <2>4. TrueLedger(a) = NoStat
    BY <1>2, <2>2, <2>3 DEF NoStat
  <2> QED BY <2>4, UnseenIs
<1>6. CASE C # {}
  <2>1. ~(C \subseteq {Unseen})
    BY <1>4, <1>6
  <2>2. Lower(C) \in C /\ Upper(C) \in C
    BY <1>3, <1>4, <2>1, LowerIs, UpperIs
  <2>3. Lower(C) \in Blocks /\ Upper(C) \in Blocks /\ Cardinality(C) \in Nat
    BY <1>1, <1>3, <2>2, FS_CardinalityType
  <2> QED BY <1>2, <2>3, RowMade
<1> QED BY <1>5, <1>6

\* What a settlement changes: the ledger rows that drifted, and their record.
LEMMA SettleMoves ==
    ASSUME RebaseInv, Settle
    PROVE  /\ rebase = IdleRebase
           /\ \/ UNCHANGED <<ledger, recorded, version>>
              \/ /\ ledger' = [a \in Addr |-> TrueLedger(a)] /\ version' = version + 1
                 /\ recorded' = [a \in Addr |-> IF ledger[a] # TrueLedger(a) THEN version + 1 ELSE recorded[a]]
<1> DEFINE drifted == {a \in Addr : ledger[a] # TrueLedger(a)}
<1>1. CASE drifted = {} \/ spanState' = "quarantined"
  BY <1>1 DEF Settle
<1>2. CASE ~(drifted = {} \/ spanState' = "quarantined")
  <2>1. rebase = IdleRebase /\ ledger' = [a \in Addr |-> TrueLedger(a)] /\ TruthMoved(drifted)
    BY <1>2 DEF Settle
  <2>2. version' = version + 1 /\ recorded' = [a \in Addr |-> IF a \in drifted THEN version' ELSE recorded[a]]
    BY <2>1 DEF TruthMoved
  <2>3. recorded' = [a \in Addr |-> IF ledger[a] # TrueLedger(a) THEN version + 1 ELSE recorded[a]]
    BY <2>2
  <2> QED BY <2>1, <2>2, <2>3
<1> QED BY <1>1, <1>2

LEMMA SettleStep ==
    ASSUME RebaseInv, Settle
    PROVE  RebaseInv'
<1> USE DEF RebaseInv
<1>1. UNCHANGED <<held, stats, addresses, txsTotal, rowLock, writers, rebase, index, check, walk, moves, days>>
  BY DEF Settle, rowVars, dayVars
<1>2. past' = past
  BY DEF Settle, dayVars
<1>3. version \in Nat /\ recorded \in [Addr -> Nat] /\ \A a \in Addr : recorded[a] <= version
  BY DEF TypesInv
<1>4. ledger' \in [Addr -> StatRow] /\ version' \in Nat /\ recorded' \in [Addr -> Nat] /\ \A a \in Addr : recorded'[a] <= version'
  <2>1. CASE UNCHANGED <<ledger, recorded, version>>
    BY <1>3, <2>1 DEF TypesInv
  <2>2. CASE /\ ledger' = [a \in Addr |-> TrueLedger(a)] /\ version' = version + 1
             /\ recorded' = [a \in Addr |-> IF ledger[a] # TrueLedger(a) THEN version + 1 ELSE recorded[a]]
    <3>1. ledger' \in [Addr -> StatRow]
      BY <2>2, TrueLedgerIs
    <3>2. version' \in Nat /\ recorded' \in [Addr -> Nat] /\ \A a \in Addr : recorded'[a] <= version'
      BY <1>3, <2>2
    <3> QED BY <3>1, <3>2
  <2> QED BY <2>1, <2>2, SettleMoves
<1>5. rebase' = IdleRebase /\ rebase = IdleRebase
  BY <1>1, SettleMoves
<1>6. \A a \in Addr : rowLock'[a] # "rebase"
  BY <1>1, <1>5, IdleRebaseIs DEF BatchInv
<1>7. BatchInv' /\ KeptInv' /\ MovedInv'
  BY <1>5, <1>6, IdleHolds
<1>8. WritersInv'
  BY <1>1, WritersStay
<1>9. RevertInv'
  <2>1. \A a : OpenBlocks(a)' = OpenBlocks(a)
    BY <1>1 DEF OpenBlocks
  <2>2. \A a : Decided(a)' = Decided(a)
    BY <1>1, <1>2, <2>1 DEF Decided
  <2> QED BY <1>1, <2>2 DEF RevertInv, Hit
<1>10. DaysInv' /\ RowsAccounted'
  BY <1>1, <1>2, DaysStay, AccountsStay
<1>11. toCome' \in RebaseTrouble
  BY TroubleLess DEF TypesInv, Settle
<1>12. TypesInv'
  BY <1>1, <1>2, <1>4, <1>11 DEF TypesInv
<1> QED BY <1>7, <1>8, <1>9, <1>10, <1>12

-----------------------------------------------------------------------------
(* A rebase commits *)

LEMMA ReadyIs ==
    ASSUME RebaseInv, rebase.ready, NEW a \in rebase.batch
    PROVE  /\ a \in Addr /\ a \in DOMAIN rebase.read /\ rebase.read[a] \in ReadRecord
           /\ rebase.read[a].row \in StatRow /\ rebase.read[a].want \in StatRow
           /\ stats[a] \in StatRow /\ Truth(a) \in StatRow /\ a \notin rebase.todo
           /\ a \in rebase.made <=> Creates(rebase.read[a]) /\ stats[a] = NoStat
           /\ Late(a) <=> a \in rebase.stale
<1> USE DEF RebaseInv
<1>1. a \in DOMAIN rebase.read /\ a \notin rebase.todo
  BY DEF BatchInv
<1>2. a \in Addr /\ rebase.read[a] \in ReadRecord
  BY <1>1, ReadTyped
<1>3. stats[a] \in StatRow /\ Truth(a) \in StatRow
  BY <1>2, TruthTyped DEF TypesInv
<1>4. rebase.read[a].row \in StatRow /\ rebase.read[a].want \in StatRow
  BY <1>2 DEF ReadRecord
<1>5. a \in rebase.made <=> Creates(rebase.read[a]) /\ stats[a] = NoStat
  BY <1>1 DEF BatchInv
<1> QED BY <1>1, <1>2, <1>3, <1>4, <1>5 DEF Late

\* The row a rebase leaves, by what it read.
LEMMA RebasedCases ==
    ASSUME NEW a
    PROVE  /\ Present(rebase.read[a]) /\ (~Seen(rebase.read[a]) \/ a \in rebase.stale) =>
                Rebased(a) = IF stats[a] = NoStat THEN NoStat ELSE Truth(a)
           /\ Present(rebase.read[a]) /\ Seen(rebase.read[a]) /\ a \notin rebase.stale /\ Differs(rebase.read[a]) /\ stats[a] # NoStat =>
                Rebased(a) = [txs   |-> stats[a].txs + rebase.read[a].want.txs - rebase.read[a].row.txs,
                              first |-> CorrectedEdge(stats[a].first, rebase.read[a].row.first, rebase.read[a].want.first,
                                                      Lower({stats[a].first, rebase.read[a].want.first}), Truth(a).first),
                              last  |-> CorrectedEdge(stats[a].last, rebase.read[a].row.last, rebase.read[a].want.last,
                                                      Upper({stats[a].last, rebase.read[a].want.last}), Truth(a).last)]
           /\ Present(rebase.read[a]) /\ Seen(rebase.read[a]) /\ a \notin rebase.stale /\ (~Differs(rebase.read[a]) \/ stats[a] = NoStat) =>
                Rebased(a) = stats[a]
           /\ Creates(rebase.read[a]) /\ a \in rebase.stale => Rebased(a) = Truth(a)
           /\ Creates(rebase.read[a]) /\ a \notin rebase.stale =>
                Rebased(a) = [txs   |-> stats[a].txs + rebase.read[a].want.txs,
                              first |-> Lower({stats[a].first, rebase.read[a].want.first}),
                              last  |-> Upper({stats[a].last, rebase.read[a].want.last})]
           /\ ~Present(rebase.read[a]) /\ ~Creates(rebase.read[a]) => Rebased(a) = stats[a]
<1> DEFINE v == rebase.read[a]
<1>1. Creates(v) => ~Present(v)
  BY DEF Creates
<1> DEFINE corrected == [txs   |-> stats[a].txs + v.want.txs - v.row.txs,
                         first |-> CorrectedEdge(stats[a].first, v.row.first, v.want.first, Lower({stats[a].first, v.want.first}), Truth(a).first),
                         last  |-> CorrectedEdge(stats[a].last, v.row.last, v.want.last, Upper({stats[a].last, v.want.last}), Truth(a).last)]
<1> DEFINE created == [txs |-> stats[a].txs + v.want.txs, first |-> Lower({stats[a].first, v.want.first}),
                       last |-> Upper({stats[a].last, v.want.last})]
<1>2. Rebased(a) = IF Present(v) /\ (~Seen(v) \/ a \in rebase.stale) THEN (IF stats[a] = NoStat THEN NoStat ELSE Truth(a))
                   ELSE IF Present(v) /\ Differs(v) /\ stats[a] # NoStat THEN corrected
                   ELSE IF Creates(v) /\ a \in rebase.stale THEN Truth(a)
                   ELSE IF Creates(v) THEN created
                   ELSE stats[a]
  BY DEF Rebased
<1>3. /\ Present(v) /\ (~Seen(v) \/ a \in rebase.stale) => Rebased(a) = IF stats[a] = NoStat THEN NoStat ELSE Truth(a)
      /\ Present(v) /\ Seen(v) /\ a \notin rebase.stale /\ Differs(v) /\ stats[a] # NoStat => Rebased(a) = corrected
      /\ Present(v) /\ Seen(v) /\ a \notin rebase.stale /\ (~Differs(v) \/ stats[a] = NoStat) => Rebased(a) = stats[a]
      /\ Creates(v) /\ a \in rebase.stale => Rebased(a) = Truth(a)
      /\ Creates(v) /\ a \notin rebase.stale => Rebased(a) = created
      /\ ~Present(v) /\ ~Creates(v) => Rebased(a) = stats[a]
  <2> HIDE DEF corrected, created, v
  <2> QED BY <1>1, <1>2
<1> QED BY <1>3

\* A row a rebase leaves is a row; one it makes it has inserted, and a first_seen it moves is said.
LEMMA RebasedIs ==
    ASSUME RebaseInv, rebase.ready, NEW a \in rebase.batch
    PROVE  /\ Rebased(a) \in StatRow
           /\ stats[a] = NoStat /\ Rebased(a) # NoStat => a \in rebase.made
           /\ Rebased(a).first # stats[a].first => MovesFirst(a)
<1> USE DEF RebaseInv
<1> DEFINE v == rebase.read[a]
<1>1. /\ a \in Addr /\ a \in DOMAIN rebase.read /\ v \in ReadRecord /\ v.row \in StatRow /\ v.want \in StatRow
      /\ stats[a] \in StatRow /\ Truth(a) \in StatRow /\ a \notin rebase.todo
      /\ a \in rebase.made <=> Creates(v) /\ stats[a] = NoStat
      /\ Late(a) <=> a \in rebase.stale
  BY ReadyIs
<1>2. CASE Present(v) /\ (~Seen(v) \/ a \in rebase.stale)
  <2>1. Rebased(a) = IF stats[a] = NoStat THEN NoStat ELSE Truth(a)
    BY <1>2, RebasedCases
  <2>2. v.row.first # Unseen
    BY <1>1, <1>2, RowIs, OpenIs DEF Present, Unseen
  <2>3. MovesFirst(a)
    BY <1>2, <2>2 DEF MovesFirst
  <2> QED BY <1>1, <2>1, <2>3, UnseenIs
<1>3. CASE Present(v) /\ Seen(v) /\ a \notin rebase.stale /\ Differs(v) /\ stats[a] # NoStat
  <2>1. stats[a].txs >= v.row.txs /\ stats[a].first <= v.row.first /\ Truth(a) # NoStat
    BY <1>1, <1>3 DEF KeptInv
  <2>2. v.row # NoStat /\ v.want # NoStat
    BY <1>3 DEF Present, Seen
  <2>3. /\ stats[a].txs \in Nat /\ stats[a].first \in Blocks /\ stats[a].last \in Blocks
        /\ v.row.txs \in Nat /\ v.row.first \in Blocks /\ v.row.last \in Blocks
        /\ v.want.txs \in Nat /\ v.want.first \in Blocks /\ v.want.last \in Blocks
        /\ Truth(a).first \in Blocks /\ Truth(a).last \in Blocks
    BY <1>1, <1>3, <2>1, <2>2, RowIs
  <2>4. Blocks \subseteq Nat /\ Blocks \subseteq Edge /\ Unseen \notin Blocks
    BY OpenIs DEF Edge, Unseen
  <2>5. /\ Lower({stats[a].first, v.want.first}) = IF v.want.first <= stats[a].first THEN v.want.first ELSE stats[a].first
        /\ Upper({stats[a].last, v.want.last}) = IF v.want.last >= stats[a].last THEN v.want.last ELSE stats[a].last
    <3>1. /\ stats[a].first \in Edge /\ v.want.first \in Edge /\ stats[a].first # Unseen /\ v.want.first # Unseen
          /\ stats[a].last \in Edge /\ v.want.last \in Edge /\ stats[a].last # Unseen /\ v.want.last # Unseen
      BY <2>3, <2>4
    <3>2. Lower({stats[a].first, v.want.first}) =
            IF stats[a].first = Unseen \/ (v.want.first # Unseen /\ v.want.first <= stats[a].first) THEN v.want.first ELSE stats[a].first
      BY <3>1, LowerOfTwo
    <3>3. Upper({stats[a].last, v.want.last}) =
            IF stats[a].last = Unseen \/ (v.want.last # Unseen /\ v.want.last >= stats[a].last) THEN v.want.last ELSE stats[a].last
      BY <3>1, UpperOfTwo
    <3> QED BY <3>1, <3>2, <3>3
  <2> DEFINE f == CorrectedEdge(stats[a].first, v.row.first, v.want.first, Lower({stats[a].first, v.want.first}), Truth(a).first)
  <2> DEFINE l == CorrectedEdge(stats[a].last, v.row.last, v.want.last, Upper({stats[a].last, v.want.last}), Truth(a).last)
  <2> DEFINE k == stats[a].txs + v.want.txs - v.row.txs
  <2>6. Rebased(a) = [txs |-> k, first |-> f, last |-> l]
    BY <1>3, RebasedCases
  <2>7. f \in Blocks /\ l \in Blocks
    BY <2>3, <2>5 DEF CorrectedEdge
  <2>8. k \in Nat
    BY <2>1, <2>3
  <2>9. f # stats[a].first => v.row.first # v.want.first
    <3>1. stats[a].first \in Nat /\ v.row.first \in Nat /\ v.want.first \in Nat
      BY <2>3, <2>4
    <3> HIDE DEF v
    <3> QED BY <2>1, <2>5, <3>1 DEF CorrectedEdge
  <2> HIDE DEF f, l, k
  <2>10. Rebased(a) \in StatRow /\ Rebased(a).first = f
    BY <2>6, <2>7, <2>8, RowMade
  <2>11. Rebased(a).first # stats[a].first => MovesFirst(a)
    BY <1>3, <2>9, <2>10 DEF MovesFirst
  <2> QED BY <1>3, <2>10, <2>11
<1>4. CASE Present(v) /\ Seen(v) /\ a \notin rebase.stale /\ (~Differs(v) \/ stats[a] = NoStat)
  <2>1. Rebased(a) = stats[a]
    BY <1>4, RebasedCases
  <2> QED BY <1>1, <2>1
<1>5. CASE Creates(v)
  <2>1. v.row = NoStat /\ v.want # NoStat
    BY <1>5 DEF Creates, Present, Seen
  <2>2. v.want.txs \in Nat /\ v.want.first \in Blocks /\ v.want.last \in Blocks
    BY <1>1, <2>1, RowIs
  <2>3. Blocks \subseteq Nat /\ Blocks \subseteq Edge /\ Unseen \notin Blocks
    BY OpenIs DEF Edge, Unseen
  <2>4. MovesFirst(a)
    <3>1. v.row.first # v.want.first
      BY <2>1, <2>2, <2>3, UnseenIs
    <3>2. Differs(v)
      BY <2>1 DEF Differs
    <3> QED BY <1>5, <3>1, <3>2 DEF MovesFirst
  <2>5. CASE a \in rebase.stale
    <3>1. Rebased(a) = Truth(a)
      BY <1>5, <2>5, RebasedCases
    <3> QED BY <1>1, <1>5, <2>4, <3>1
  <2>6. CASE a \notin rebase.stale
    <3> DEFINE f == Lower({stats[a].first, v.want.first})
    <3> DEFINE l == Upper({stats[a].last, v.want.last})
    <3> DEFINE k == stats[a].txs + v.want.txs
    <3>1. Rebased(a) = [txs |-> k, first |-> f, last |-> l]
      BY <1>5, <2>6, RebasedCases
    <3>2. /\ stats[a].txs \in Nat /\ stats[a].first \in Edge /\ stats[a].last \in Edge
          /\ stats[a] = NoStat \/ (stats[a].first \in Blocks /\ stats[a].last \in Blocks)
      BY <1>1, RowIs
    <3>3. /\ f = IF stats[a].first = Unseen \/ v.want.first <= stats[a].first THEN v.want.first ELSE stats[a].first
          /\ l = IF stats[a].last = Unseen \/ v.want.last >= stats[a].last THEN v.want.last ELSE stats[a].last
      <4>1. v.want.first \in Edge /\ v.want.last \in Edge /\ v.want.first # Unseen /\ v.want.last # Unseen
        BY <2>2, <2>3
      <4>2. f = IF stats[a].first = Unseen \/ (v.want.first # Unseen /\ v.want.first <= stats[a].first) THEN v.want.first ELSE stats[a].first
        BY <3>2, <4>1, LowerOfTwo
      <4>3. l = IF stats[a].last = Unseen \/ (v.want.last # Unseen /\ v.want.last >= stats[a].last) THEN v.want.last ELSE stats[a].last
        BY <3>2, <4>1, UpperOfTwo
      <4> QED BY <4>1, <4>2, <4>3
    <3>4. f \in Blocks /\ l \in Blocks /\ k \in Nat
      BY <2>2, <3>2, <3>3, UnseenIs
    <3> HIDE DEF f, l, k
    <3>5. Rebased(a) \in StatRow
      BY <3>1, <3>4, RowMade
    <3> QED BY <1>1, <1>5, <2>4, <3>5
  <2> QED BY <2>5, <2>6
<1>6. CASE ~Present(v) /\ ~Creates(v)
  <2>1. Rebased(a) = stats[a]
    BY <1>6, RebasedCases
  <2> QED BY <1>1, <2>1
<1> QED BY <1>2, <1>3, <1>4, <1>5, <1>6

\* A row nothing came across since the read is left at its truth, when there was one to correct or to create.
LEMMA RebasedTrue ==
    ASSUME RebaseInv, rebase.ready, NEW a \in rebase.batch, recorded[a] = rebase.read[a].reverted,
           stats[a] = Truth(a) \/ (stats[a] # NoStat /\ Present(rebase.read[a])) \/ Creates(rebase.read[a])
    PROVE  Rebased(a) = Truth(a)
<1> USE DEF RebaseInv
<1>1. /\ a \in Addr /\ a \in DOMAIN rebase.read /\ rebase.read[a] \in ReadRecord
      /\ stats[a] \in StatRow /\ Truth(a) \in StatRow
  BY ReadyIs
<1>2. Seen(rebase.read[a]) => Moved(rebase.read[a], stats[a], Truth(a))
  BY <1>1 DEF MovedInv
<1>3. CASE Present(rebase.read[a]) /\ (~Seen(rebase.read[a]) \/ a \in rebase.stale)
  <2>1. Rebased(a) = IF stats[a] = NoStat THEN NoStat ELSE Truth(a)
    BY <1>3, RebasedCases
  <2>2. ~Creates(rebase.read[a])
    BY <1>3 DEF Creates
  <2> QED BY <2>1, <2>2
<1>4. CASE Present(rebase.read[a]) /\ Seen(rebase.read[a]) /\ a \notin rebase.stale
  <2>1. ~Creates(rebase.read[a])
    BY <1>4 DEF Creates
  <2>2. stats[a] # NoStat
    BY <1>2, <1>4 DEF Moved
  <2>3. /\ Differs(rebase.read[a]) =>
             [txs   |-> stats[a].txs + rebase.read[a].want.txs - rebase.read[a].row.txs,
              first |-> CorrectedEdge(stats[a].first, rebase.read[a].row.first, rebase.read[a].want.first,
                                      Lower({stats[a].first, rebase.read[a].want.first}), Truth(a).first),
              last  |-> CorrectedEdge(stats[a].last, rebase.read[a].row.last, rebase.read[a].want.last,
                                      Upper({stats[a].last, rebase.read[a].want.last}), Truth(a).last)] = Truth(a)
        /\ ~Differs(rebase.read[a]) => stats[a] = Truth(a)
    BY <1>1, <1>2, <1>4, MovedCorrected
  <2> QED BY <1>4, <2>2, <2>3, RebasedCases
<1>5. CASE Creates(rebase.read[a])
  <2>1. ~Present(rebase.read[a]) /\ Seen(rebase.read[a])
    BY <1>5 DEF Creates
  <2>2. [txs |-> stats[a].txs + rebase.read[a].want.txs, first |-> Lower({stats[a].first, rebase.read[a].want.first}),
         last |-> Upper({stats[a].last, rebase.read[a].want.last})] = Truth(a)
    BY <1>1, <1>2, <2>1, MovedCorrected
  <2> QED BY <1>5, <2>2, RebasedCases
<1>6. CASE ~Present(rebase.read[a]) /\ ~Creates(rebase.read[a])
  BY <1>6, RebasedCases
<1> QED BY <1>3, <1>4, <1>5, <1>6

\* What a rebase's commit changes of rows and record.
LEMMA RebaseMoves ==
    ASSUME RebaseInv, RebaseCommit
    PROVE  /\ rebase.ready /\ UNCHANGED <<held, ledger, version, writers>>
           /\ \A a \in Addr : Truth(a)' = Truth(a) /\ OpenBlocks(a)' = OpenBlocks(a)
           /\ \A a \in rebase.batch : stats'[a] = Rebased(a)
           /\ \A a \in Addr : a \notin rebase.batch => stats'[a] = stats[a]
           /\ \A a \in Addr : recorded'[a] = IF a \in rebase.batch /\ recorded[a] = rebase.read[a].reverted THEN 0 ELSE recorded[a]
           /\ stats' \in [Addr -> StatRow] /\ recorded' \in [Addr -> Nat]
           /\ rebase.batch \in SUBSET Addr
<1> USE DEF RebaseInv
<1>1. /\ rebase.ready /\ UNCHANGED <<held, ledger, version, writers>>
      /\ stats' = [a \in Addr |-> IF a \in rebase.batch THEN Rebased(a) ELSE stats[a]]
      /\ recorded' = [a \in Addr |-> IF a \in rebase.batch /\ recorded[a] = rebase.read[a].reverted THEN 0 ELSE recorded[a]]
  BY DEF RebaseCommit
<1>2. rebase.batch \in SUBSET Addr /\ stats \in [Addr -> StatRow] /\ recorded \in [Addr -> Nat]
  BY DEF TypesInv, RebaseType
<1>3. \A a \in rebase.batch : Rebased(a) \in StatRow
  BY <1>1, RebasedIs
<1>4. stats' \in [Addr -> StatRow] /\ recorded' \in [Addr -> Nat]
  BY <1>1, <1>2, <1>3
<1>5. \A a \in Addr : Truth(a)' = Truth(a) /\ OpenBlocks(a)' = OpenBlocks(a)
  BY <1>1, TruthStays
<1> QED BY <1>1, <1>2, <1>4, <1>5

\* What is left of a span, or nothing.
LEMMA RebaseLeaves ==
    ASSUME RebaseInv, RebaseCommit
    PROVE  /\ rebase' \in RebaseType
           /\ rebase'.batch = {} /\ rebase'.todo = {} /\ rebase'.made = {} /\ rebase'.stale = {}
           /\ ~rebase'.ready /\ ~rebase'.revertLock
           /\ DOMAIN rebase'.read \subseteq DOMAIN rebase.read \ rebase.batch
           /\ \A a \in DOMAIN rebase'.read : rebase'.read[a] = rebase.read[a]
<1> USE DEF RebaseInv
<1> DEFINE rest == DOMAIN rebase.read \ rebase.batch
<1> DEFINE f == [a \in rest |-> rebase.read[a]]
<1>1. rebase' = IF rebase.kind = "span" THEN [IdleRebase EXCEPT !.kind = "span", !.read = f] ELSE IdleRebase
  BY DEF RebaseCommit, Restrict
<1>2. rest \in SUBSET Addr /\ \A a \in rest : rebase.read[a] \in ReadRecord
  BY ReadTyped
<1>3. f \in [rest -> ReadRecord] /\ DOMAIN f = rest /\ \A a \in rest : f[a] = rebase.read[a]
  BY <1>2
<1> HIDE DEF f
<1>4. CASE rebase.kind = "span"
  <2>1. rebase' = [kind |-> "span", read |-> f, batch |-> {}, todo |-> {}, made |-> {}, stale |-> {}, ready |-> FALSE,
                   revertLock |-> FALSE, logs |-> {}]
    BY <1>1, <1>4 DEF IdleRebase
  <2>2. f \in Reads
    <3> HIDE DEF rest
    <3> QED BY <1>2, <1>3, ReadsMade
  <2>3. rebase' \in RebaseType
    BY <2>1, <2>2 DEF RebaseType
  <2> QED BY <1>3, <2>1, <2>3
<1>5. CASE rebase.kind # "span"
  <2>1. rebase' = IdleRebase
    BY <1>1, <1>5
  <2> QED BY <2>1, IdleIs, IdleRebaseIs
<1> QED BY <1>4, <1>5

LEMMA RebaseCommitStep ==
    ASSUME RebaseInv, RebaseCommit
    PROVE  RebaseInv'
<1> USE DEF RebaseInv
<1>1. UNCHANGED <<held, ledger, txsTotal, version, writers, index, days, toCome>>
  BY DEF RebaseCommit
<1>2. PICK S \in SUBSET Addr :
        /\ S = rebase.batch /\ rebase.ready
        /\ \A a \in Addr : Truth(a)' = Truth(a) /\ OpenBlocks(a)' = OpenBlocks(a)
        /\ \A a \in S : stats'[a] = Rebased(a)
        /\ \A a \in Addr : a \notin S => stats'[a] = stats[a]
        /\ \A a \in Addr : recorded'[a] = IF a \in S /\ recorded[a] = rebase.read[a].reverted THEN 0 ELSE recorded[a]
        /\ stats' \in [Addr -> StatRow] /\ recorded' \in [Addr -> Nat]
  <2>1. rebase.batch \in SUBSET Addr
    BY RebaseMoves
  <2> QED BY <2>1, RebaseMoves
<1>3. \A a \in S : /\ Rebased(a) \in StatRow
                   /\ a \in rebase.made <=> Creates(rebase.read[a]) /\ stats[a] = NoStat
                   /\ stats[a] = NoStat /\ Rebased(a) # NoStat => a \in rebase.made
                   /\ Rebased(a).first # stats[a].first => MovesFirst(a)
  BY <1>2, RebasedIs, ReadyIs
<1>4. /\ rebase' \in RebaseType
      /\ rebase'.batch = {} /\ rebase'.todo = {} /\ rebase'.made = {} /\ rebase'.stale = {}
      /\ ~rebase'.ready /\ ~rebase'.revertLock
      /\ DOMAIN rebase'.read \subseteq DOMAIN rebase.read \ S
      /\ \A a \in DOMAIN rebase'.read : rebase'.read[a] = rebase.read[a]
  BY <1>2, RebaseLeaves
<1>5. /\ rowLock' \in [Addr -> Writer \cup {"free", "rebase"}]
      /\ \A a \in Addr : rowLock'[a] = IF rowLock[a] = "rebase" THEN "free" ELSE rowLock[a]
  BY ReleasedIs DEF RebaseCommit
<1>6. \A a \in Addr, w \in Writer : rowLock'[a] = w <=> rowLock[a] = w
  BY <1>5, Holders
<1>7. WritersInv'
  BY <1>1, <1>6, WritersKeepRows
<1> DEFINE moving == \E a \in S : Rebased(a).first # stats[a].first
<1>8. /\ past \in [made : Nat, seen : Nat, lost : SUBSET Addr, passed : SUBSET Addr]
      /\ past' \in [made : Nat, seen : Nat, lost : SUBSET Addr, passed : SUBSET Addr]
      /\ past'.made = (IF moving THEN past.made + 1 ELSE past.made) /\ past'.seen = past.seen
      /\ writers["realtime"].op = "revert" => past'.passed = past.passed
  <2>1. past \in [made : Nat, seen : Nat, lost : SUBSET Addr, passed : SUBSET Addr]
    BY DEF TypesInv
  <2> DEFINE m == IF moving THEN past.made + 1 ELSE past.made
  <2> DEFINE p == IF writers["realtime"].op = "revert" THEN past.passed ELSE past.passed \ S
  <2>2. past' = [past EXCEPT !.made = m, !.passed = p]
    BY <1>2 DEF RebaseCommit
  <2>3. m \in Nat /\ p \in SUBSET Addr
    BY <2>1
  <2>4. writers["realtime"].op = "revert" => p = past.passed
    OBVIOUS
  <2>5. m = IF moving THEN past.made + 1 ELSE past.made
    OBVIOUS
  <2> HIDE DEF m, p, moving
  <2> QED BY <2>1, <2>2, <2>3, <2>4, <2>5
<1>9. moves \in Nat /\ (moves' = moves \/ moves' = moves + 1) /\ (moving => moves' = moves + 1)
  <2>1. moving => \E a \in S : MovesFirst(a)
    BY <1>3
  <2> QED BY <1>2, <2>1 DEF RebaseCommit, TypesInv
<1> HIDE DEF moving
<1>10. DaysInv'
  <2>1. days \in [on : BOOLEAN, pending : Nat, upto : Nat]
    BY DEF TypesInv
  <2> QED BY <1>1, <1>8, <1>9, <2>1 DEF DaysInv
<1>11. addresses' \in Nat /\ addresses' = Cardinality({a \in Addr : stats'[a] # NoStat})
  <2> DEFINE A == {a \in Addr : stats[a] # NoStat}
  <2> DEFINE come == CreatedRows(S)
  <2> DEFINE gone == RemovedRows(S)
  <2>1. addresses' = addresses + Cardinality(come) - Cardinality(gone) /\ addresses = Cardinality(A)
    BY <1>2 DEF RebaseCommit, RowsAccounted
  <2>2. A \in SUBSET Addr /\ come \in SUBSET Addr /\ gone \in SUBSET A /\ come \cap A = {}
    BY <1>3 DEF CreatedRows, RemovedRows
  <2>3. {a \in Addr : stats'[a] # NoStat} = (A \ gone) \cup come
    BY <1>2, <1>3 DEF CreatedRows, RemovedRows
  <2> HIDE DEF A, come, gone
  <2>4. /\ Cardinality((A \ gone) \cup come) = Cardinality(A) - Cardinality(gone) + Cardinality(come)
        /\ Cardinality(A) \in Nat /\ Cardinality(gone) \in Nat /\ Cardinality(come) \in Nat
        /\ Cardinality((A \ gone) \cup come) \in Nat
    BY <2>2, RowsChange
  <2>5. addresses' = Cardinality((A \ gone) \cup come)
    BY <2>1, <2>4
  <2> QED BY <2>3, <2>4, <2>5
<1>12. RowsAccounted'
  <2>1. past'.seen < past'.made => moves' > 0
    BY <1>8, <1>9 DEF RowsAccounted
  <2> QED BY <1>11, <2>1 DEF RowsAccounted
<1>13. RevertInv'
  <2> DEFINE r == writers["realtime"]
  <2> SUFFICES ASSUME r.op = "revert"
               PROVE  RevertInv'
    BY <1>1 DEF RevertInv
  <2>1. Hit("realtime")' = Hit("realtime") /\ Hit("realtime") \in SUBSET Addr
    BY <1>1, HitIs, Holders DEF Hit
  <2>2. ~rebase.revertLock /\ held[r.block] = r.fork
    BY DEF RevertInv
  <2>3. rebase.made = {}
    <3>1. rebase.todo = {} /\ rebase.batch # {} /\ rebase.made \subseteq rebase.batch
      BY <1>2 DEF BatchInv
    <3>2. ~Making
      BY <2>2, <3>1 DEF BatchInv
    <3>3. \A a \in rebase.batch : ~Creates(rebase.read[a])
      BY <3>2 DEF Making
    <3> QED BY <1>2, <1>3, <3>1, <3>3
  <2>4. ASSUME NEW a \in Hit("realtime") \ r.todo
        PROVE  Decided(a)'
    <3>1. Decided(a) /\ a \in Addr
      BY <2>1 DEF RevertInv
    <3>2. rowLock'[a] = "realtime" <=> rowLock[a] = "realtime"
      BY <1>6, <3>1, Holders
    <3>3. rowLock[a] = "realtime" => stats'[a] = stats[a]
      <4>1. a \in S => (Rebased(a) # stats[a] /\ stats[a] # NoStat => rowLock[a] \in {"free", "rebase"})
        BY <1>2 DEF RebaseCommit
      <4>2. rowLock[a] = "realtime" => stats[a] # NoStat
        BY <3>1 DEF Decided
      <4> QED BY <1>2, <3>1, <4>1, <4>2
    <3>4. stats'[a] # NoStat => stats[a] # NoStat
      BY <1>2, <1>3, <2>3, <3>1
    <3> QED BY <1>1, <1>2, <1>8, <3>1, <3>2, <3>3, <3>4 DEF Decided
  <2> QED BY <1>1, <1>4, <2>1, <2>2, <2>4 DEF RevertInv
<1>14. \A a \in Addr : rowLock'[a] # "rebase"
  BY <1>5
<1>15. DOMAIN rebase.read \subseteq Addr
  BY ReadTyped
<1>16. \A a \in DOMAIN rebase'.read : /\ a \in DOMAIN rebase.read /\ a \in Addr /\ a \notin rebase.batch
                                      /\ stats'[a] = stats[a] /\ recorded'[a] = recorded[a] /\ Truth(a)' = Truth(a)
  BY <1>2, <1>4, <1>15
<1>17. BatchInv'
  BY <1>4, <1>14, <1>16 DEF BatchInv, Making
<1>18. \A a \in DOMAIN rebase'.read : (Late(a)' <=> Late(a)) /\ (Late(a) <=> recorded[a] # rebase.read[a].reverted)
  BY <1>4, <1>16 DEF Late
<1>19. KeptInv'
  BY <1>4, <1>16, <1>18 DEF KeptInv
<1>20. MovedInv'
  BY <1>4, <1>16 DEF MovedInv
<1>21. check' \in [found : SUBSET Key, off : Int]
  BY DEF TypesInv, RebaseCommit, NoDrift
<1>22. walk' \in [Walker -> WalkType]
  <2>1. \A k \in Walker : walk[k] \in WalkType
    BY DEF TypesInv
  <2>2. ASSUME NEW k \in Walker
        PROVE  [walk[k] EXCEPT !.found = walk[k].found \ S] \in WalkType
    BY <2>1 DEF WalkType
  <2>3. walk' = [k \in Walker |-> IF k = rebase.kind THEN [walk[k] EXCEPT !.found = walk[k].found \ S] ELSE walk[k]]
    BY <1>2 DEF RebaseCommit
  <2> QED BY <2>1, <2>2, <2>3
<1>23. \A a \in Addr : recorded'[a] <= version'
  BY <1>1, <1>2 DEF TypesInv
<1>24. moves' \in Nat
  BY <1>9
<1>25. TypesInv'
  BY <1>1, <1>2, <1>4, <1>5, <1>8, <1>11, <1>21, <1>22, <1>23, <1>24 DEF TypesInv
<1> QED BY <1>7, <1>10, <1>12, <1>13, <1>17, <1>19, <1>20, <1>25

-----------------------------------------------------------------------------
(* The invariant, and what it shows *)

LEMMA NextInvariant ==
    ASSUME RebaseInv, RebaseNext
    PROVE  RebaseInv'
<1>1. CASE WriterNext
  BY <1>1, IngestStartStep, IngestTakeStep, IngestCommitStep, RevertStartStep, RevertTakeStep, RevertCommitStep DEF WriterNext
<1>2. CASE RebaseStep
  <2>1. \A own \in {{}, {a \in Addr : ledger[a] # NoStat}} : own \in SUBSET Addr
    OBVIOUS
  <2> QED BY <1>2, <2>1, SpanStageStep, SpanNextBatchStep, SpanRebasedStep, QuietSteps, RevertLockStep, LockRowStep,
             VersionsStep, RebaseCommitStep, RebaseFailsStep DEF RebaseStep
<1>3. CASE VerifyNext
  BY <1>3, SettleStep, ReadingSteps, CheckRepairStep, WalkBatchStep, QuietSteps DEF VerifyNext
<1>4. CASE DaysNext
  BY <1>4, DaySteps
<1>5. CASE RebaseCrash
  BY <1>5, CrashStep
<1> QED BY <1>1, <1>2, <1>3, <1>4, <1>5 DEF RebaseNext

\* The invariant names only variables of the specification.
LEMMA StutterInvariant ==
    ASSUME RebaseInv, UNCHANGED rebaseVars
    PROVE  RebaseInv'
<1> USE DEF RebaseInv, rebaseVars
<1>1. WritersInv' /\ RevertInv' /\ BatchInv' /\ KeptInv' /\ MovedInv'
  BY RowsStay
<1>2. DaysInv' /\ RowsAccounted'
  BY DaysStay, AccountsStay
<1>3. TypesInv'
  BY DEF TypesInv
<1> QED BY <1>1, <1>2, <1>3

LEMMA RebaseInvariant == RebaseSpec => []RebaseInv
<1>1. RebaseInit => RebaseInv
  BY InitInvariant
<1>2. RebaseInv /\ [RebaseNext]_rebaseVars => RebaseInv'
  BY NextInvariant, StutterInvariant
<1> QED BY <1>1, <1>2, PTL DEF RebaseSpec

\* The rows, the ledger and the counters keep their types, no counter goes below zero, and no row's record is newer than
\* the last version given (address_stats_revert.go, applyRebaseRows).
THEOREM RebaseTyped == RebaseSpec => []RebaseTypeOK
<1>1. RebaseInv => RebaseTypeOK
  BY DEF RebaseInv, TypesInv, RebaseTypeOK
<1> QED BY <1>1, RebaseInvariant, PTL

\* addresses_total counts the address_stats rows, and a first_seen a rebase moved waits for the day recount, under any
\* interleaving of block writes, a revert, a rebase and the day recount (rebaseAddressBatch, recountPendingDays).
THEOREM AddressesAccounted == RebaseSpec => []RowsAccounted
<1>1. RebaseInv => RowsAccounted
  BY DEF RebaseInv
<1> QED BY <1>1, RebaseInvariant, PTL

\* A batch that is ready ends only with its commit, a failure or a restart.
LEMMA OnlyCommit ==
    ASSUME RebaseInv, RebaseNext, rebase.ready, ~rebase'.ready, toCome' = toCome
    PROVE  RebaseCommit
<1> USE DEF RebaseInv
<1>1. rebase.todo = {} /\ rebase.batch # {} /\ DOMAIN rebase.read # {} /\ rebase # IdleRebase /\ rebase' # rebase
  BY IdleRebaseIs DEF BatchInv
<1>2. CASE WriterNext
  BY <1>1, <1>2 DEF WriterNext, IngestStart, IngestTake, IngestCommit, RevertStart, RevertTake, RevertCommit
<1>3. CASE RebaseStep
  <2>1. ~RebaseFails
    <3>1. toCome.faults \in Nat /\ (RebaseFails => toCome'.faults = toCome.faults - 1)
      BY DEF TypesInv, RebaseTrouble, RebaseFails
    <3>2. toCome.faults # toCome.faults - 1
      BY <3>1
    <3> QED BY <3>1, <3>2
  <2> QED BY <1>1, <1>3, <2>1 DEF RebaseStep, SpanStage, SpanNextBatch, SpanRebased, SpanCloses, RebaseRevertLock, RebaseLockRow,
             RebaseVersions
<1>4. CASE VerifyNext
  BY <1>1, <1>4 DEF VerifyNext, Settle, CheckRead, CheckRepair, WalkRead, WalkBatch, WalkDone, RepairFinish, IndexBuilt, IndexBuildStops
<1>5. CASE DaysNext
  BY <1>1, <1>5 DEF DaysNext, DaysRecount, DaysClear, DaysFail
<1>6. CASE RebaseCrash
  <2>1. toCome.crashes \in Nat /\ toCome'.crashes = toCome.crashes - 1
    BY <1>6 DEF TypesInv, RebaseTrouble, RebaseCrash
  <2>2. toCome.crashes # toCome.crashes - 1
    BY <2>1
  <2> QED BY <2>1, <2>2
<1> QED BY <1>2, <1>3, <1>4, <1>5, <1>6 DEF RebaseNext

\* A rebase batch that commits leaves every row it holds at its truth, whatever block writes and reverts came between its
\* read and its commit, unless a revert in progress found the row missing (rebaseAddressBatch, revertedSinceRead).
THEOREM RebaseTrue == RebaseSpec => RebaseSetsTruth
<1>1. ASSUME RebaseInv, [RebaseNext]_rebaseVars, rebase.ready, ~rebase'.ready, toCome' = toCome,
             NEW a \in HeldBy("rebase") \ past.passed
      PROVE  Right(a)'
  <2>1. RebaseNext
    BY <1>1 DEF rebaseVars
  <2>2. RebaseCommit
    BY <1>1, <2>1, OnlyCommit
  <2>3. a \in Addr /\ rowLock[a] = "rebase" /\ a \notin past.passed
    BY <1>1 DEF HeldBy
  <2>4. a \in rebase.batch /\ (Present(rebase.read[a]) \/ Creates(rebase.read[a]))
    BY <1>1, <2>3 DEF RebaseInv, BatchInv
  <2>5. /\ a \in DOMAIN rebase.read
        /\ a \in rebase.made <=> Creates(rebase.read[a]) /\ stats[a] = NoStat
        /\ Late(a) <=> a \in rebase.stale
    BY <1>1, <2>4, ReadyIs
  <2>6. stats[a] # NoStat \/ Creates(rebase.read[a])
    BY <1>1, <2>3, <2>5 DEF RebaseInv, BatchInv
  <2>7. Rebased(a) = Truth(a)
    <3>1. CASE recorded[a] = rebase.read[a].reverted
      <4>1. (stats[a] # NoStat /\ Present(rebase.read[a])) \/ Creates(rebase.read[a])
        BY <2>4, <2>6 DEF Creates
      <4> QED BY <1>1, <2>4, <3>1, <4>1, RebasedTrue
    <3>2. CASE recorded[a] # rebase.read[a].reverted
      <4>1. a \in rebase.stale
        BY <1>1, <2>3, <2>4, <2>5, <3>2 DEF RebaseInv, KeptInv
      <4> QED BY <2>4, <2>6, <4>1, RebasedCases DEF Creates
    <3> QED BY <3>1, <3>2
  <2>8. stats'[a] = Rebased(a) /\ Truth(a)' = Truth(a)
    BY <1>1, <2>2, <2>3, <2>4, RebaseMoves
  <2> QED BY <2>7, <2>8 DEF Right
<1>2. RebaseInv /\ [RebaseNext]_rebaseVars =>
        [rebase.ready /\ ~rebase'.ready /\ toCome' = toCome => \A a \in HeldBy("rebase") \ past.passed : Right(a)']_rebaseVars
  BY <1>1
<1> QED BY <1>2, RebaseInvariant, PTL DEF RebaseSpec, RebaseSetsTruth

-----------------------------------------------------------------------------
(* The counters implement ExactOrOwed *)

rightNow   == {a \in Addr : Right(a)}
owedNow    == {a \in Addr : recorded[a] # 0}
rowlessNow == {a \in Addr : stats[a] = NoStat \/ ReadMissing(a)}

LEMMA WriteStays ==
    ASSUME UNCHANGED <<held, ledger, stats, recorded>>
    PROVE  ExactOrOwedOf!Write
<1>1. \A a : Truth(a)' = Truth(a)
  BY TruthStays
<1> QED BY <1>1 DEF ExactOrOwedOf!Write, Right

\* A block write moves row and truth alike.
LEMMA IngestWrites ==
    ASSUME RebaseInv, NEW w \in Writer, IngestCommit(w)
    PROVE  ExactOrOwedOf!Write
<1>1. UNCHANGED recorded
  BY DEF IngestCommit
<1>2. \A a \in Addr : Right(a) => Right(a)'
  BY IngestMoves DEF Right
<1> QED BY <1>1, <1>2 DEF ExactOrOwedOf!Write

\* A revert may leave its block's addresses wrong, and records them.
LEMMA RevertRecords ==
    ASSUME RebaseInv, RevertCommit
    PROVE  \E S \in SUBSET Addr : ExactOrOwedOf!Record(S)
<1> USE DEF RebaseInv
<1>1. PICK H \in SUBSET Addr :
        /\ \A a \in Addr : rowLock[a] = "realtime" => a \in H
        /\ \A a \in Addr : rowLock[a] # "realtime" => stats'[a] = stats[a]
        /\ \A a \in Addr : a \notin H => Truth(a)' = Truth(a) /\ recorded'[a] = recorded[a]
        /\ \A a \in H : recorded'[a] = version + 1
  <2>1. Hit("realtime") \in SUBSET Addr
    BY RevertMoves
  <2> QED BY <2>1, RevertMoves
<1>2. version + 1 # 0
  BY DEF TypesInv
<1>3. \A a \in Addr : a \notin H /\ Right(a) => Right(a)'
  BY <1>1 DEF Right
<1>4. {a \in Addr : recorded'[a] # 0} = {a \in Addr : recorded[a] # 0} \cup H
  BY <1>1, <1>2
<1>5. ExactOrOwedOf!Record(H)
  BY <1>3, <1>4 DEF ExactOrOwedOf!Record
<1> QED BY <1>5

\* A settlement moves the truth of the addresses it records.
LEMMA SettleRecords ==
    ASSUME RebaseInv, Settle
    PROVE  \E S \in SUBSET Addr : ExactOrOwedOf!Record(S)
<1> USE DEF RebaseInv
<1>1. UNCHANGED <<held, stats>>
  BY DEF Settle, rowVars, dayVars
<1>2. \A a : OpenBlocks(a)' = OpenBlocks(a)
  BY <1>1 DEF OpenBlocks
<1>3. CASE UNCHANGED <<ledger, recorded, version>>
  <2>1. \A a : Truth(a)' = Truth(a)
    BY <1>1, <1>3, TruthStays
  <2>2. ExactOrOwedOf!Record({})
    BY <1>1, <1>3, <2>1 DEF ExactOrOwedOf!Record, Right
  <2> QED BY <2>2
<1>4. CASE /\ ledger' = [a \in Addr |-> TrueLedger(a)] /\ version' = version + 1
           /\ recorded' = [a \in Addr |-> IF ledger[a] # TrueLedger(a) THEN version + 1 ELSE recorded[a]]
  <2>1. PICK H \in SUBSET Addr : H = {a \in Addr : ledger[a] # TrueLedger(a)}
    OBVIOUS
  <2>2. version + 1 # 0
    BY DEF TypesInv
  <2>3. \A a \in Addr : a \notin H => ledger'[a] = ledger[a]
    BY <1>4, <2>1
  <2>4. \A a \in Addr : a \notin H => Truth(a)' = Truth(a)
    BY <1>2, <2>3 DEF Truth
  <2>5. \A a \in Addr : a \notin H /\ Right(a) => Right(a)'
    BY <1>1, <2>4 DEF Right
  <2>6. {a \in Addr : recorded'[a] # 0} = {a \in Addr : recorded[a] # 0} \cup H
    BY <1>4, <2>1, <2>2
  <2>7. ExactOrOwedOf!Record(H)
    BY <2>5, <2>6 DEF ExactOrOwedOf!Record
  <2> QED BY <2>7
<1> QED BY <1>3, <1>4, SettleMoves

\* A rebase takes an address off the record with its row at the truth, or without a row.
LEMMA RebaseCorrects ==
    ASSUME RebaseInv, RebaseCommit
    PROVE  \E S \in SUBSET Addr : ExactOrOwedOf!Rebase(S)
<1> USE DEF RebaseInv
<1>1. /\ rebase.ready /\ rebase.batch \in SUBSET Addr
      /\ \A a \in Addr : Truth(a)' = Truth(a)
      /\ \A a \in rebase.batch : stats'[a] = Rebased(a)
      /\ \A a \in Addr : a \notin rebase.batch => stats'[a] = stats[a]
      /\ \A a \in Addr : recorded'[a] = IF a \in rebase.batch /\ recorded[a] = rebase.read[a].reverted THEN 0 ELSE recorded[a]
  BY RebaseMoves
<1>2. PICK S \in SUBSET Addr : S = {a \in rebase.batch : recorded[a] = rebase.read[a].reverted /\ recorded[a] # 0}
  BY <1>1
<1>3. ASSUME NEW a \in Addr, Right(a), recorded[a] = 0 \/ a \in S
      PROVE  Right(a)'
  <2>1. CASE a \notin rebase.batch
    BY <1>1, <1>3, <2>1 DEF Right
  <2>2. CASE a \in rebase.batch
    <3>1. recorded[a] = rebase.read[a].reverted
      <4>1. /\ rebase.read[a].reverted \in Nat /\ rebase.read[a].reverted <= recorded[a] /\ recorded[a] \in Nat
        BY <2>2, ReadTyped DEF BatchInv, ReadRecord, TypesInv
      <4> QED BY <1>2, <1>3, <4>1
    <3>2. stats[a] = Truth(a)
      BY <1>3 DEF Right
    <3>3. Rebased(a) = Truth(a)
      BY <1>1, <2>2, <3>1, <3>2, RebasedTrue
    <3> QED BY <1>1, <2>2, <3>3 DEF Right
  <2> QED BY <2>1, <2>2
<1>4. ASSUME NEW a \in S
      PROVE  Right(a)' \/ stats[a] = NoStat \/ ReadMissing(a)
  <2>1. a \in Addr /\ a \in rebase.batch /\ recorded[a] = rebase.read[a].reverted /\ a \in DOMAIN rebase.read
    BY <1>2, <1>4 DEF BatchInv
  <2>2. CASE (stats[a] # NoStat /\ Present(rebase.read[a])) \/ Creates(rebase.read[a])
    <3>1. Rebased(a) = Truth(a)
      BY <1>1, <2>1, <2>2, RebasedTrue
    <3> QED BY <1>1, <2>1, <3>1 DEF Right
  <2>3. CASE ~((stats[a] # NoStat /\ Present(rebase.read[a])) \/ Creates(rebase.read[a]))
    BY <2>1, <2>3 DEF ReadMissing
  <2> QED BY <2>2, <2>3
<1>5. {a \in Addr : recorded'[a] # 0} = {a \in Addr : recorded[a] # 0} \ S
  BY <1>1, <1>2
<1>6. ExactOrOwedOf!Rebase(S)
  BY <1>3, <1>4, <1>5 DEF ExactOrOwedOf!Rebase
<1> QED BY <1>6

\* Every other step leaves the rows, their truth and their record alone.
LEMMA OtherWrites ==
    ASSUME RebaseNext, \A w \in Writer : ~IngestCommit(w), ~RevertCommit, ~Settle, ~RebaseCommit
    PROVE  ExactOrOwedOf!Write
<1>1. CASE WriterNext
  <2>1. UNCHANGED <<held, ledger, stats, recorded>>
    BY <1>1 DEF WriterNext, IngestStart, IngestTake, RevertStart, RevertTake, rowVars
  <2> QED BY <2>1, WriteStays
<1>2. CASE RebaseStep
  <2>1. UNCHANGED <<held, ledger, stats, recorded>>
    BY <1>2 DEF RebaseStep, SpanStage, SpanNextBatch, SpanRebased, SpanCloses, RebaseRevertLock, RebaseLockRow, RebaseVersions,
                RebaseFails, rowVars
  <2> QED BY <2>1, WriteStays
<1>3. CASE VerifyNext
  <2>1. UNCHANGED <<held, ledger, stats, recorded>>
    BY <1>3 DEF VerifyNext, CheckRead, CheckRepair, WalkRead, WalkBatch, WalkDone, RepairFinish, IndexBuilt, IndexBuildStops, rowVars
  <2> QED BY <2>1, WriteStays
<1>4. CASE DaysNext
  <2>1. UNCHANGED <<held, ledger, stats, recorded>>
    BY <1>4 DEF DaysNext, DaysRecount, DaysClear, DaysFail, rowVars
  <2> QED BY <2>1, WriteStays
<1>5. CASE RebaseCrash
  <2>1. UNCHANGED <<held, ledger, stats, recorded>>
    BY <1>5 DEF RebaseCrash, rowVars
  <2> QED BY <2>1, WriteStays
<1> QED BY <1>1, <1>2, <1>3, <1>4, <1>5 DEF RebaseNext

\* The running counters implement ExactOrOwed: a counter that is right and not recorded stays right until a revert or a
\* settlement records it, and a record goes only with a row that is right or absent (address_stats_revert.go,
\* applyRebaseRows, truthMoved).
THEOREM CountersExactOrOwed == RebaseSpec => ExactUntilRecorded
<1>1. RebaseInit => ExactOrOwedOf!Init
  <2> SUFFICES ASSUME RebaseInit
               PROVE  ExactOrOwedOf!Init
    OBVIOUS
  <2>1. PICK s \in RebaseScenarios : RebaseInitWith(s)
    BY DEF RebaseInit
  <2>2. {a \in Addr : recorded[a] # 0} = {}
    BY <2>1 DEF RebaseInitWith
  <2> QED BY <2>2 DEF ExactOrOwedOf!Init
<1>2. RebaseInv /\ [RebaseNext]_rebaseVars => [ExactOrOwedOf!Next]_<<rightNow, owedNow, rowlessNow>>
  <2> SUFFICES ASSUME RebaseInv, [RebaseNext]_rebaseVars
               PROVE  [ExactOrOwedOf!Next]_<<rightNow, owedNow, rowlessNow>>
    OBVIOUS
  <2>1. CASE UNCHANGED rebaseVars
    <3>1. \A a : Truth(a)' = Truth(a)
      BY <2>1, TruthStays DEF rebaseVars
    <3> QED BY <2>1, <3>1 DEF rebaseVars, rightNow, owedNow, rowlessNow, Right, ReadMissing
  <2>2. CASE \E w \in Writer : IngestCommit(w)
    BY <2>2, IngestWrites DEF ExactOrOwedOf!Next
  <2>3. CASE RevertCommit
    BY <2>3, RevertRecords DEF ExactOrOwedOf!Next
  <2>4. CASE Settle
    BY <2>4, SettleRecords DEF ExactOrOwedOf!Next
  <2>5. CASE RebaseCommit
    BY <2>5, RebaseCorrects DEF ExactOrOwedOf!Next
  <2>6. CASE RebaseNext /\ ~(\E w \in Writer : IngestCommit(w)) /\ ~RevertCommit /\ ~Settle /\ ~RebaseCommit
    BY <2>6, OtherWrites DEF ExactOrOwedOf!Next
  <2> QED BY <2>1, <2>2, <2>3, <2>4, <2>5, <2>6
<1> QED BY <1>1, <1>2, RebaseInvariant, PTL DEF RebaseSpec, ExactUntilRecorded, ExactOrOwedOf!Spec, rightNow, owedNow, rowlessNow
=============================================================================
