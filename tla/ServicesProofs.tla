--------------------------- MODULE ServicesProofs ---------------------------
(***************************************************************************)
(* Proofs about the two services that answer clients.                      *)
(*                                                                         *)
(* ReadApi, for every chain, page size and set of callers: the type        *)
(* invariant, that a pruned target is never answered as absent, and that a *)
(* list walked to its end returned what it owed, once.                     *)
(*                                                                         *)
(* NodeLookup, for every set of requests, of heights and of blocks, and    *)
(* every bound of the cache and of the node's slots: the type invariant    *)
(* with the count of slots, that the indexes name cached blocks only, and  *)
(* that a hash answered as missing since the backends agree is never       *)
(* answered so again.                                                      *)
(***************************************************************************)
EXTENDS ReadApi, NodeLookup, NaturalFacts, FiniteSetTheorems, SequenceTheorems, TLAPS

-----------------------------------------------------------------------------
(* ReadApi. Rows: the order of the lists, and the newest rows of a set *)

\* The rows' order is total.
LEMMA OlderOrder ==
    ASSUME NEW x \in ApiBound, NEW y \in ApiBound, NEW z \in ApiBound
    PROVE  /\ ~Older(x, x)
           /\ Older(x, y) => ~Older(y, x)
           /\ x = y \/ Older(x, y) \/ Older(y, x)
           /\ Older(x, y) /\ Older(y, z) => Older(x, z)
<1>1. /\ x[1] \in Nat /\ x[2] \in Nat /\ y[1] \in Nat /\ y[2] \in Nat /\ z[1] \in Nat /\ z[2] \in Nat
      /\ x = <<x[1], x[2]>> /\ y = <<y[1], y[2]>>
  BY ApiAssumption DEF ApiBound
<1> QED BY <1>1 DEF Older

LEMMA RowIsBound == ApiRow \subseteq ApiBound /\ NoBound \in ApiBound
<1>1. HeadBlock \in Nat
  BY ApiAssumption
<1> QED BY <1>1 DEF ApiRow, ApiBound, NoBound

\* The rows newer than one: fewer of them, the newer it is.
LEMMA NewerFewer ==
    ASSUME NEW S \in SUBSET ApiBound, IsFiniteSet(S), NEW x \in S
    PROVE  /\ IsFiniteSet(Newer(S, x)) /\ Cardinality(Newer(S, x)) \in Nat
           /\ Cardinality(Newer(S, x)) < Cardinality(S)
           /\ \A y \in S : Older(x, y) => Newer(S, y) \subseteq Newer(S, x) /\ Cardinality(Newer(S, y)) < Cardinality(Newer(S, x))
<1>1. Newer(S, x) \subseteq S /\ x \notin Newer(S, x)
  BY OlderOrder DEF Newer
<1>2. IsFiniteSet(Newer(S, x)) /\ Cardinality(Newer(S, x)) \in Nat /\ Cardinality(S) \in Nat
  BY <1>1, FS_Subset, FS_CardinalityType
<1>3. Cardinality(Newer(S, x)) < Cardinality(S)
  BY <1>1, <1>2, FS_Subset
<1>4. ASSUME NEW y \in S, Older(x, y)
      PROVE  Newer(S, y) \subseteq Newer(S, x) /\ Cardinality(Newer(S, y)) < Cardinality(Newer(S, x))
  <2>1. Newer(S, y) \subseteq Newer(S, x)
    BY <1>4, OlderOrder DEF Newer
  <2>2. y \in Newer(S, x) /\ y \notin Newer(S, y)
    BY <1>4, OlderOrder DEF Newer
  <2>3. Cardinality(Newer(S, y)) \in Nat
    BY <1>2, <2>1, FS_Subset, FS_CardinalityType
  <2> QED BY <1>2, <2>1, <2>2, <2>3, FS_Subset
<1> QED BY <1>2, <1>3, <1>4

\* A finite set of rows that is not empty has a newest row.
LEMMA HasNewest ==
    ASSUME NEW S \in SUBSET ApiBound, IsFiniteSet(S), S # {}
    PROVE  \E x \in S : Newer(S, x) = {}
<1> DEFINE sizes == {Cardinality(Newer(S, x)) : x \in S}
<1>1. sizes \in SUBSET Nat /\ sizes # {}
  BY NewerFewer
<1>2. PICK n \in sizes : \A m \in sizes : n <= m
  <2> HIDE DEF sizes
  <2> QED BY <1>1, LeastNatural
<1>3. PICK x \in S : n = Cardinality(Newer(S, x))
  BY <1>2
<1>4. ASSUME NEW y \in Newer(S, x) PROVE FALSE
  <2>1. y \in S /\ Older(x, y)
    BY DEF Newer
  <2>2. Cardinality(Newer(S, y)) \in sizes /\ Cardinality(Newer(S, y)) < n /\ n \in Nat
    BY <1>1, <1>3, <2>1, NewerFewer
  <2> QED BY <1>1, <1>2, <2>2
<1> QED BY <1>4

\* And an oldest one, which Oldest names.
LEMMA HasOldest ==
    ASSUME NEW S \in SUBSET ApiBound, IsFiniteSet(S), S # {}
    PROVE  Oldest(S) \in S /\ \A y \in S : ~Older(y, Oldest(S))
<1> DEFINE D == {Cardinality(S) - Cardinality(Newer(S, x)) : x \in S}
<1>0. Cardinality(S) \in Nat
  BY FS_CardinalityType
<1>1. \A x \in S : Cardinality(S) - Cardinality(Newer(S, x)) \in Nat
  BY <1>0, NewerFewer
<1>2. D \in SUBSET Nat /\ D # {}
  BY <1>1
<1>3. PICK n \in D : \A m \in D : n <= m
  <2> HIDE DEF D
  <2> QED BY <1>2, LeastNatural
<1>4. PICK x \in S : n = Cardinality(S) - Cardinality(Newer(S, x))
  BY <1>3
<1>5. ASSUME NEW y \in S \ {x} PROVE Older(x, y)
  <2>1. SUFFICES ASSUME Older(y, x) PROVE FALSE
    BY OlderOrder
  <2>2. /\ Cardinality(Newer(S, x)) < Cardinality(Newer(S, y))
        /\ Cardinality(Newer(S, x)) \in Nat /\ Cardinality(Newer(S, y)) \in Nat
    BY <2>1, NewerFewer
  <2>3. n <= Cardinality(S) - Cardinality(Newer(S, y))
    BY <1>3
  <2> QED BY <1>0, <1>4, <2>2, <2>3
<1>6. Oldest(S) \in S /\ \A y \in S \ {Oldest(S)} : Older(Oldest(S), y)
  BY <1>5 DEF Oldest
<1> QED BY <1>6, OlderOrder

\* Membership in the n newest rows of a set, which are above all its other rows.
LEMMA NewestIs ==
    ASSUME NEW S, NEW n
    PROVE  Newest(S, n) \subseteq S /\ \A x \in S : x \in Newest(S, n) <=> Cardinality(Newer(S, x)) < n
BY DEF Newest, Newer

LEMMA NewestAbove ==
    ASSUME NEW S \in SUBSET ApiBound, IsFiniteSet(S), NEW n \in Nat, NEW x \in S \ Newest(S, n), NEW y \in Newest(S, n)
    PROVE  Older(x, y)
<1>1. y \in S /\ x # y
  BY NewestIs
<1>2. SUFFICES ASSUME Older(y, x) PROVE FALSE
  BY <1>1, OlderOrder
<1>3. /\ Cardinality(Newer(S, x)) < Cardinality(Newer(S, y)) /\ Cardinality(Newer(S, y)) < n
      /\ Cardinality(Newer(S, x)) \in Nat /\ Cardinality(Newer(S, y)) \in Nat
  BY <1>1, <1>2, NewerFewer, NewestIs
<1>4. Cardinality(Newer(S, x)) < n
  BY <1>3
<1> QED BY <1>4, NewestIs

\* How many there are: all of a small set, n of a larger one.
LEMMA NewestCount ==
    ASSUME NEW S \in SUBSET ApiBound, IsFiniteSet(S), NEW n \in Nat
    PROVE  /\ Cardinality(S) <= n => Newest(S, n) = S
           /\ Cardinality(S) >= n => Cardinality(Newest(S, n)) = n
<1> DEFINE P == Newest(S, n)
<1>1. Cardinality(S) \in Nat /\ P \subseteq S /\ IsFiniteSet(P) /\ Cardinality(P) \in Nat
  BY NewestIs, FS_Subset, FS_CardinalityType
<1>2. ASSUME Cardinality(S) <= n PROVE P = S
  <2>1. \A x \in S : Cardinality(Newer(S, x)) < n
    BY <1>1, <1>2, NewerFewer
  <2> QED BY <2>1, NewestIs
<1>3. Cardinality(P) <= n
  <2>1. CASE P = {}
    BY <2>1, FS_EmptySet
  <2>2. CASE P # {}
    <3> DEFINE o == Oldest(P)
    <3>1. o \in P /\ \A y \in P : ~Older(y, o)
      BY <1>1, <2>2, HasOldest
    <3>2. P \ {o} \subseteq Newer(S, o)
      BY <1>1, <3>1, OlderOrder DEF Newer
    <3>3. Cardinality(P \ {o}) = Cardinality(P) - 1
      BY <1>1, <3>1, FS_RemoveElement
    <3>4. Cardinality(Newer(S, o)) < n /\ IsFiniteSet(Newer(S, o)) /\ Cardinality(Newer(S, o)) \in Nat
      BY <1>1, <3>1, NewestIs, NewerFewer
    <3>5. Cardinality(P \ {o}) <= Cardinality(Newer(S, o))
      BY <3>2, <3>4, FS_Subset
    <3> QED BY <1>1, <3>3, <3>4, <3>5
  <2> QED BY <2>1, <2>2
<1>4. ASSUME Cardinality(S) >= n, Cardinality(P) < n PROVE FALSE
  <2>1. S \ P # {} /\ IsFiniteSet(S \ P) /\ S \ P \in SUBSET ApiBound
    <3>1. P # S
      BY <1>1, <1>4
    <3> QED BY <1>1, <3>1, FS_Subset
  <2>2. PICK x \in S \ P : Newer(S \ P, x) = {}
    BY <2>1, HasNewest
  <2>3. Newer(S, x) \subseteq P
    BY <2>2 DEF Newer
  <2>4. Cardinality(Newer(S, x)) <= Cardinality(P) /\ Cardinality(Newer(S, x)) \in Nat
    BY <1>1, <2>3, FS_Subset, NewerFewer
  <2>5. x \in P
    BY <1>1, <1>4, <2>4, NewestIs
  <2> QED BY <2>5
<1> QED BY <1>1, <1>2, <1>3, <1>4

\* Fewer of the newest rows are the newest of more of them.
LEMMA NewestOfNewest ==
    ASSUME NEW S \in SUBSET ApiBound, IsFiniteSet(S), NEW n \in Nat, NEW m \in Nat, n <= m
    PROVE  Newest(Newest(S, m), n) = Newest(S, n)
<1> DEFINE P == Newest(S, m)
<1>1. P \subseteq S
  BY NewestIs
<1>2. ASSUME NEW x \in P PROVE Newer(P, x) = Newer(S, x)
  <2>1. ASSUME NEW y \in Newer(S, x) PROVE y \in P
    <3>1. y \in S /\ Older(x, y) /\ x \in S /\ Cardinality(Newer(S, x)) < m
      BY <1>1, NewestIs DEF Newer
    <3>2. /\ Cardinality(Newer(S, y)) < Cardinality(Newer(S, x))
          /\ Cardinality(Newer(S, y)) \in Nat /\ Cardinality(Newer(S, x)) \in Nat
      BY <3>1, NewerFewer
    <3>3. Cardinality(Newer(S, y)) < m
      BY <3>1, <3>2
    <3> QED BY <3>1, <3>3, NewestIs
  <2> QED BY <1>1, <2>1 DEF Newer
<1>3. ASSUME NEW x \in S, x \in Newest(S, n) PROVE x \in P
  <2>1. Cardinality(Newer(S, x)) < n /\ Cardinality(Newer(S, x)) \in Nat
    BY <1>3, NewestIs, NewerFewer
  <2>2. Cardinality(Newer(S, x)) < m
    BY <2>1
  <2> QED BY <2>2, NewestIs
<1>4. \A x \in P : x \in Newest(P, n) <=> x \in Newest(S, n)
  BY <1>1, <1>2, NewestIs
<1>5. Newest(P, n) \subseteq P /\ Newest(S, n) \subseteq S
  BY NewestIs
<1> QED BY <1>3, <1>4, <1>5

\* The newest rows of a union are among the newest of its parts, as the branches of GetTransactionsByAddress need.
LEMMA NewestOfParts ==
    ASSUME NEW A \in SUBSET ApiBound, NEW B \in SUBSET ApiBound, NEW C \in SUBSET ApiBound, NEW n \in Nat,
           IsFiniteSet(A), IsFiniteSet(B), IsFiniteSet(C)
    PROVE  Newest(Newest(A, n) \cup Newest(B, n) \cup Newest(C, n), n) = Newest(A \cup B \cup C, n)
<1> DEFINE S == A \cup B \cup C
           U == Newest(A, n) \cup Newest(B, n) \cup Newest(C, n)
           P == Newest(S, n)
<1>1. S \in SUBSET ApiBound /\ IsFiniteSet(S)
  BY FS_Union
<1>2. U \subseteq S
  BY NewestIs
<1>3. ASSUME NEW T \in {A, B, C}, NEW x \in T, x \in P PROVE x \in Newest(T, n)
  <2>1. Newer(T, x) \subseteq Newer(S, x) /\ x \in S
    BY DEF Newer
  <2>2. /\ Cardinality(Newer(S, x)) < n /\ IsFiniteSet(Newer(S, x)) /\ Cardinality(Newer(S, x)) \in Nat
    BY <1>1, <1>3, <2>1, NewestIs, NewerFewer
  <2>3. Cardinality(Newer(T, x)) <= Cardinality(Newer(S, x)) /\ Cardinality(Newer(T, x)) \in Nat
    BY <2>1, <2>2, FS_Subset, FS_CardinalityType
  <2>4. Cardinality(Newer(T, x)) < n
    BY <2>2, <2>3
  <2> QED BY <2>4, NewestIs
<1>4. P \subseteq U
  <2>1. P \subseteq S
    BY NewestIs
  <2> HIDE DEF P
  <2> QED BY <1>3, <2>1
<1>5. IsFiniteSet(U) /\ U \in SUBSET ApiBound
  BY <1>1, <1>2, FS_Subset
<1>6. ASSUME NEW x \in P PROVE x \in Newest(U, n)
  <2>1. Newer(U, x) \subseteq Newer(S, x) /\ x \in S /\ x \in U
    BY <1>2, <1>4 DEF Newer
  <2>2. /\ Cardinality(Newer(S, x)) < n /\ IsFiniteSet(Newer(S, x)) /\ Cardinality(Newer(S, x)) \in Nat
    BY <1>1, <2>1, NewestIs, NewerFewer
  <2>3. Cardinality(Newer(U, x)) <= Cardinality(Newer(S, x)) /\ Cardinality(Newer(U, x)) \in Nat
    BY <2>1, <2>2, FS_Subset, FS_CardinalityType
  <2>4. Cardinality(Newer(U, x)) < n
    BY <2>2, <2>3
  <2> HIDE DEF U
  <2> QED BY <2>1, <2>4, NewestIs
<1>7. ASSUME NEW x \in Newest(U, n), x \notin P PROVE FALSE
  <2>1. x \in U /\ x \in S /\ Cardinality(Newer(U, x)) < n
    <3> HIDE DEF U
    <3> QED BY <1>2, NewestIs
  <2>2. \A y \in P : Older(x, y)
    <3> HIDE DEF S
    <3> QED BY <1>1, <1>7, <2>1, NewestAbove
  <2>3. P \subseteq Newer(U, x)
    BY <1>4, <2>2 DEF Newer
  <2>4. Cardinality(P) = n
    <3>1. Cardinality(S) \in Nat /\ (Cardinality(S) <= n => P = S)
      <4> HIDE DEF S
      <4> QED BY <1>1, NewestCount, FS_CardinalityType
    <3>2. Cardinality(S) >= n
      BY <1>7, <2>1, <3>1
    <3> HIDE DEF S
    <3> QED BY <1>1, <3>2, NewestCount
  <2>5. Cardinality(P) <= Cardinality(Newer(U, x)) /\ Cardinality(Newer(U, x)) \in Nat
    <3> HIDE DEF U, P
    <3> QED BY <1>5, <2>1, <2>3, NewerFewer, FS_Subset
  <2> QED BY <2>1, <2>4, <2>5
<1>8. Newest(U, n) \subseteq U
  BY NewestIs
<1> QED BY <1>6, <1>7

\* A page and its cursor: with more rows to come the cursor is the oldest row of the page and the other rows are below
\* it; otherwise the page is all of them.
LEMMA PageTurned ==
    ASSUME NEW S \in SUBSET ApiBound, IsFiniteSet(S),
           NEW rows, rows = Newest(S, PageSize + 1),
           NEW page, page = Newest(rows, PageSize)
    PROVE  /\ rows \subseteq S /\ page \subseteq S
           /\ Cardinality(rows) > PageSize => /\ NextCursor(rows) \in page
                                              /\ \A x \in page : ~Older(x, NextCursor(rows))
                                              /\ \A x \in S \ page : Older(x, NextCursor(rows))
           /\ ~(Cardinality(rows) > PageSize) => page = S
<1> USE ApiAssumption
<1>1. page = Newest(S, PageSize)
  BY NewestOfNewest
<1>2. rows \subseteq S /\ page \subseteq S /\ Cardinality(S) \in Nat /\ IsFiniteSet(page)
  BY <1>1, NewestIs, FS_CardinalityType, FS_Subset
<1>3. ASSUME Cardinality(rows) > PageSize
      PROVE  /\ NextCursor(rows) \in page
             /\ \A x \in page : ~Older(x, NextCursor(rows))
             /\ \A x \in S \ page : Older(x, NextCursor(rows))
  <2>1. Cardinality(S) >= PageSize
    <3>1. Cardinality(rows) <= Cardinality(S) /\ Cardinality(rows) \in Nat
      BY <1>2, FS_Subset, FS_CardinalityType
    <3> QED BY <1>2, <1>3, <3>1
  <2>2. page # {}
    <3>1. Cardinality(page) = PageSize
      BY <1>1, <2>1, NewestCount
    <3> QED BY <3>1, FS_EmptySet
  <2>3. NextCursor(rows) = Oldest(page)
    BY DEF NextCursor
  <2>4. Oldest(page) \in page /\ \A x \in page : ~Older(x, Oldest(page))
    BY <1>2, <2>2, HasOldest
  <2>5. \A x \in S \ page : Older(x, Oldest(page))
    BY <1>1, <2>4, NewestAbove
  <2> QED BY <2>3, <2>4, <2>5
<1>4. ASSUME ~(Cardinality(rows) > PageSize) PROVE page = S
  <2>1. Cardinality(S) <= PageSize
    <3>1. SUFFICES ASSUME Cardinality(S) >= PageSize + 1 PROVE FALSE
      BY <1>2
    <3>2. Cardinality(rows) = PageSize + 1
      BY <3>1, NewestCount
    <3> QED BY <1>4, <3>2
  <2> QED BY <1>1, <2>1, NewestCount
<1> QED BY <1>2, <1>3, <1>4

-----------------------------------------------------------------------------
(* Calls *)

\* One caller's request changes, and its walk.
LEMMA CallSet ==
    ASSUME ApiTypeOK, CallsMatch, NEW c \in ApiClient, NEW r \in ApiCall, NEW w \in ApiWalk, CallMatches(r, w),
           call' = [call EXCEPT ![c] = r], walks' = [walks EXCEPT ![c] = w]
    PROVE  call' \in [ApiClient -> ApiCall] /\ walks' \in [ApiClient -> ApiWalk] /\ CallsMatch'
<1>1. call \in [ApiClient -> ApiCall] /\ walks \in [ApiClient -> ApiWalk]
  BY DEF ApiTypeOK
<1>2. call' \in [ApiClient -> ApiCall] /\ walks' \in [ApiClient -> ApiWalk]
  BY <1>1
<1>3. ASSUME NEW d \in ApiClient PROVE CallMatches(call'[d], walks'[d])
  <2>1. CASE d = c
    BY <1>1, <2>1
  <2>2. CASE d # c
    <3>1. call'[d] = call[d] /\ walks'[d] = walks[d]
      BY <1>1, <2>2
    <3> QED BY <3>1 DEF CallsMatch
  <2> QED BY <2>1, <2>2
<1> QED BY <1>2, <1>3 DEF CallsMatch

\* Replied, BeginRefresh and the other assignments of several fields, as the assignment of one request.
LEMMA AsOne ==
    ASSUME call \in [ApiClient -> ApiCall], NEW c \in ApiClient, NEW a, NEW b, NEW x, NEW y
    PROVE  /\ [call EXCEPT ![c].step = a, ![c].answer = b] = [call EXCEPT ![c] = [call[c] EXCEPT !.step = a, !.answer = b]]
           /\ [call EXCEPT ![c].step = a, ![c].heard = b] = [call EXCEPT ![c] = [call[c] EXCEPT !.step = a, !.heard = b]]
           /\ [call EXCEPT ![c].step = a, ![c].why = b] = [call EXCEPT ![c] = [call[c] EXCEPT !.step = a, !.why = b]]
           /\ [call EXCEPT ![c].step = a] = [call EXCEPT ![c] = [call[c] EXCEPT !.step = a]]
           /\ [call EXCEPT ![c].step = a, ![c].why = b, ![c].ticket = x, ![c].gone = y]
                 = [call EXCEPT ![c] = [call[c] EXCEPT !.step = a, !.why = b, !.ticket = x, !.gone = y]]
BY DEF ApiCall
\* What a handler does once it knows the watermark.
LEMMA JudgedCall ==
    ASSUME NEW c, NEW r \in ApiCall, NEW w, CallMatches(r, w), r.step \in {"check", "heard"}, NEW through
    PROVE  /\ Judged(c, r, through) \in ApiCall /\ CallMatches(Judged(c, r, through), w)
           /\ Judged(c, r, through).step \in {"check", "read", "done"} /\ Judged(c, r, through).gone = r.gone
           /\ Judged(c, r, through).kind = r.kind /\ Judged(c, r, through).at = r.at
           /\ r.why = "recheck" => /\ Judged(c, r, through).step = "done" /\ Judged(c, r, through).why = "recheck"
                                   /\ OutOfRetention(r, through) => Judged(c, r, through).answer = "pruned"
<1> DEFINE j   == Judged(c, r, through)
           out == OutOfRetention(r, through)
<1>1. r.answer = "none" /\ r.kind \in Numbers \cup Hashes \cup Feeds
  BY DEF CallMatches, ApiCall
<1>2. CASE r.why = "node"
  <2>1. r.kind \in Numbers \/ (r.kind \in Hashes /\ r.kind \notin Numbers)
    BY <1>2 DEF CallMatches
  <2>2. \/ j = [r EXCEPT !.step = "done", !.answer = "node"]
        \/ j = [r EXCEPT !.step = "check", !.why = "check"]
        \/ j = [r EXCEPT !.step = "check", !.why = "message"]
    BY <1>2, <2>1 DEF Judged
  <2>3. r.kind \notin Feeds
    BY <2>1 DEF Numbers, Hashes, Feeds, KeyFeeds, CutFeeds, Numbered
  <2> HIDE DEF j
  <2>4. j \in ApiCall /\ CallMatches(j, w) /\ j.step \in {"check", "read", "done"} /\ j.gone = r.gone /\ j.kind = r.kind /\ j.at = r.at
    BY <1>1, <1>2, <2>2, <2>3 DEF ApiCall, CallMatches
  <2> QED BY <1>2, <2>4 DEF j
<1>3. CASE r.why = "message"
  <2>1. j = [r EXCEPT !.step = "done", !.answer = "absent"]
    BY <1>3 DEF Judged
  <2> HIDE DEF j
  <2>2. j \in ApiCall /\ CallMatches(j, w) /\ j.step \in {"check", "read", "done"} /\ j.gone = r.gone /\ j.kind = r.kind /\ j.at = r.at
    BY <1>1, <1>3, <2>1 DEF ApiCall, CallMatches
  <2> QED BY <1>3, <2>2 DEF j
<1>4. CASE r.why = "check"
  <2>1. j = IF out THEN [r EXCEPT !.step = "done", !.answer = "pruned"] ELSE [r EXCEPT !.step = "read"]
    BY <1>4 DEF Judged
  <2> HIDE DEF j
  <2>2. j \in ApiCall /\ CallMatches(j, w) /\ j.step \in {"check", "read", "done"} /\ j.gone = r.gone /\ j.kind = r.kind /\ j.at = r.at
    BY <1>1, <1>4, <2>1 DEF ApiCall, CallMatches
  <2> QED BY <1>4, <2>2 DEF j
<1>5. CASE r.why = "recheck"
  <2>1. j = [r EXCEPT !.step = "done", !.answer = IF out THEN "pruned" ELSE "absent"]
    BY <1>5 DEF Judged
  <2> HIDE DEF j
  <2>2. j \in ApiCall /\ CallMatches(j, w) /\ j.step = "done" /\ j.gone = r.gone /\ j.kind = r.kind /\ j.at = r.at /\ j.why = "recheck"
    BY <1>1, <1>5, <2>1 DEF ApiCall, CallMatches
  <2>3. out => j.answer = "pruned"
    BY <2>1 DEF ApiCall
  <2> QED BY <1>5, <2>2, <2>3 DEF j
<1> QED BY <1>2, <1>3, <1>4, <1>5 DEF ApiCall

\* A refresh begins.
LEMMA RefreshBegins ==
    ASSUME ApiTypeOK, CallsMatch, NEW c \in ApiClient, NEW why \in {"node", "check", "recheck", "message"}, NEW gone \in BOOLEAN,
           call[c].step \in {"check", "read"}, why = "node" => call[c].why = "node",
           BeginRefresh(c, why, gone), UNCHANGED walks
    PROVE  /\ cache' = [cache EXCEPT !.started = @ + 1] /\ cache'.started = cache.started + 1
           /\ cache' \in ApiCache
           /\ \E r \in ApiCall : /\ call' = [call EXCEPT ![c] = r] /\ CallMatches(r, walks[c])
                                 /\ r.step = "asking" /\ r.why = why /\ r.ticket = cache.started + 1 /\ r.gone = gone
                                 /\ r.kind = call[c].kind /\ r.at = call[c].at /\ r.answer = "none"
<1>1. /\ call \in [ApiClient -> ApiCall] /\ call[c] \in ApiCall /\ CallMatches(call[c], walks[c])
      /\ cache \in ApiCache /\ cache.started + 1 \in Nat
  BY DEF ApiTypeOK, CallsMatch, ApiCache
<1> DEFINE t == cache.started + 1
           r == [call[c] EXCEPT !.step = "asking", !.why = why, !.ticket = t, !.gone = gone]
<1>2. call' = [call EXCEPT ![c] = r]
  BY <1>1, AsOne DEF BeginRefresh
<1>3. /\ r \in ApiCall /\ r.step = "asking" /\ r.why = why /\ r.ticket = t /\ r.gone = gone
      /\ r.kind = call[c].kind /\ r.at = call[c].at /\ r.answer = call[c].answer
  <2> HIDE DEF t
  <2> QED BY <1>1 DEF ApiCall, t
<1>4. call[c].answer = "none" /\ call[c].kind # "none"
  BY <1>1 DEF CallMatches
<1>5. CallMatches(r, walks[c])
  <2> HIDE DEF r
  <2> QED BY <1>1, <1>3, <1>4 DEF CallMatches
<1>6. cache' = [cache EXCEPT !.started = @ + 1]
  BY DEF BeginRefresh
<1>7. /\ cache'.started = cache.started + 1
      /\ cache' \in ApiCache
  BY <1>1, <1>6 DEF ApiCache
<1> HIDE DEF r
<1> QED BY <1>2, <1>3, <1>4, <1>5, <1>6, <1>7
LEMMA SpendType == ApiTypeOK /\ (\E t \in ApiTrouble : SpendApi(t)) => apiLeft' \in [ApiTrouble -> Nat]
BY DEF ApiTypeOK, SpendApi

\* A request changes and nothing it is listed from.
LEMMA BaseFrame ==
    ASSUME ApiBase, NEW c \in ApiClient, NEW r \in ApiCall, CallMatches(r, walks[c]), call' = [call EXCEPT ![c] = r],
           UNCHANGED <<tables, deposits, watermark, walks, served>>, cache' \in ApiCache, apiLeft' \in [ApiTrouble -> Nat]
    PROVE  ApiBase'
<1>1. walks \in [ApiClient -> ApiWalk] /\ walks[c] \in ApiWalk
  BY DEF ApiBase, ApiTypeOK
<1>2. walks' = [walks EXCEPT ![c] = walks[c]]
  BY <1>1
<1>3. call' \in [ApiClient -> ApiCall] /\ walks' \in [ApiClient -> ApiWalk] /\ CallsMatch'
  BY <1>1, <1>2, CallSet DEF ApiBase
<1> QED BY <1>3 DEF ApiBase, ApiTypeOK, WalksOpen

\* What a caller's step may do to its request, as the watermark's cache sees it.
Settles(c, r) == /\ UNCHANGED cache /\ ~Refreshing(r)
                 /\ r.gone => r.why = "recheck" /\ r.step = "done" /\ r.answer # "absent"
Begins(c, r)  == /\ cache' = [cache EXCEPT !.started = @ + 1] /\ r.step = "asking" /\ r.ticket = cache.started + 1
                 /\ r.answer = "none"
                 /\ r.gone => r.why = "recheck" /\ OutOfRetention(r, watermark)
Hears(c, r)   == /\ UNCHANGED cache /\ call[c].step = "asking" /\ r = [call[c] EXCEPT !.step = "heard", !.heard = watermark]
Keeps(c, r)   == /\ call[c].step = "heard" /\ ~Refreshing(r)
                 /\ cache' = IF call[c].ticket > cache.applied
                             THEN [cache EXCEPT !.through = call[c].heard, !.applied = call[c].ticket, !.fresh = TRUE] ELSE cache
                 /\ r = Judged(c, call[c], cache'.through)

\* The step of a request for a target, or of a page's check.
CallStep(c) ==
    /\ UNCHANGED <<tables, deposits, watermark, walks, served>>
    /\ \E r \in ApiCall : /\ call' = [call EXCEPT ![c] = r]
                          /\ Settles(c, r) \/ Begins(c, r) \/ Hears(c, r) \/ Keeps(c, r)

LEMMA ReadPrunedStep ==
    ASSUME PrunedInv, NEW c \in ApiClient, ReadPruned(c)
    PROVE  ApiBase' /\ CallStep(c)
<1>1. /\ ApiTypeOK /\ CallsMatch /\ call \in [ApiClient -> ApiCall] /\ call[c] \in ApiCall /\ CallMatches(call[c], walks[c])
      /\ cache \in ApiCache /\ apiLeft \in [ApiTrouble -> Nat]
  BY DEF PrunedInv, ApiBase, ApiTypeOK, CallsMatch
<1>2. call[c].step = "check" /\ ~call[c].gone
  BY DEF ReadPruned, PrunedInv, PrunedHeard
<1>3. UNCHANGED <<tables, deposits, watermark, walks, apiLeft, served>>
  BY DEF ReadPruned
<1>4. CASE cache.fresh
  <2> DEFINE r == Judged(c, call[c], cache.through)
  <2>1. call' = [call EXCEPT ![c] = r] /\ UNCHANGED cache
    BY <1>4 DEF ReadPruned
  <2>2. r \in ApiCall /\ CallMatches(r, walks[c]) /\ r.step \in {"check", "read", "done"} /\ ~r.gone
    BY <1>1, <1>2, JudgedCall
  <2> HIDE DEF r
  <2>3. ApiBase'
    BY <1>1, <1>3, <2>1, <2>2, BaseFrame DEF PrunedInv
  <2>4. Settles(c, r)
    BY <2>1, <2>2 DEF Settles, Refreshing
  <2> QED BY <1>3, <2>1, <2>2, <2>3, <2>4 DEF CallStep
<1>5. CASE ~cache.fresh
  <2>1. BeginRefresh(c, call[c].why, call[c].gone)
    BY <1>5 DEF ReadPruned
  <2>2. call[c].why \in {"node", "check", "recheck", "message"} /\ call[c].gone \in BOOLEAN
    BY <1>1 DEF ApiCall
  <2>3. /\ cache' = [cache EXCEPT !.started = @ + 1] /\ cache' \in ApiCache
        /\ \E r \in ApiCall : /\ call' = [call EXCEPT ![c] = r] /\ CallMatches(r, walks[c])
                              /\ r.step = "asking" /\ r.ticket = cache.started + 1 /\ r.gone = call[c].gone /\ r.answer = "none"
    BY <1>1, <1>2, <1>3, <2>1, <2>2, RefreshBegins
  <2>4. PICK r \in ApiCall : /\ call' = [call EXCEPT ![c] = r] /\ CallMatches(r, walks[c])
                             /\ r.step = "asking" /\ r.ticket = cache.started + 1 /\ r.gone = call[c].gone /\ r.answer = "none"
    BY <2>3
  <2>5. ApiBase'
    BY <1>1, <1>3, <2>3, <2>4, BaseFrame DEF PrunedInv
  <2>6. Begins(c, r)
    BY <1>2, <2>3, <2>4 DEF Begins
  <2> QED BY <1>3, <2>4, <2>5, <2>6 DEF CallStep
<1> QED BY <1>4, <1>5

LEMMA QueryPrunedStep ==
    ASSUME PrunedInv, NEW c \in ApiClient, QueryPruned(c)
    PROVE  ApiBase' /\ CallStep(c)
<1>1. /\ ApiTypeOK /\ CallsMatch /\ call \in [ApiClient -> ApiCall] /\ call[c] \in ApiCall /\ CallMatches(call[c], walks[c])
      /\ cache \in ApiCache /\ apiLeft \in [ApiTrouble -> Nat] /\ watermark \in 0..HeadBlock
  BY DEF PrunedInv, ApiBase, ApiTypeOK, CallsMatch
<1>2. /\ call[c].step = "asking" /\ (call[c].gone => call[c].why = "recheck")
      /\ UNCHANGED <<tables, deposits, watermark, cache, walks, served>>
  BY DEF QueryPruned, PrunedInv, PrunedHeard
<1>3. call[c].answer = "none" /\ call[c].kind # "none"
  BY <1>1, <1>2 DEF CallMatches
<1>4. CASE call' = [call EXCEPT ![c].step = "heard", ![c].heard = watermark] /\ UNCHANGED apiLeft
  <2> DEFINE r == [call[c] EXCEPT !.step = "heard", !.heard = watermark]
  <2>1. call' = [call EXCEPT ![c] = r]
    BY <1>1, <1>4, AsOne
  <2>2. r \in ApiCall /\ CallMatches(r, walks[c])
    BY <1>1, <1>2, <1>3 DEF ApiCall, CallMatches
  <2>3. Hears(c, r)
    BY <1>2 DEF Hears
  <2> HIDE DEF r
  <2>4. ApiBase'
    BY <1>1, <1>2, <1>4, <2>1, <2>2, BaseFrame DEF PrunedInv
  <2> QED BY <1>2, <2>1, <2>2, <2>3, <2>4 DEF CallStep
<1>5. CASE SpendApi("errors") /\ Replied(c, IF call[c].why = "message" THEN "absent" ELSE "error")
  <2> DEFINE a == IF call[c].why = "message" THEN "absent" ELSE "error"
             r == [call[c] EXCEPT !.step = "done", !.answer = a]
  <2>1. call' = [call EXCEPT ![c] = r]
    BY <1>1, <1>5, AsOne DEF Replied
  <2>2. /\ r \in ApiCall /\ CallMatches(r, walks[c]) /\ r.step = "done" /\ r.gone = call[c].gone /\ r.why = call[c].why
        /\ r.answer = a
    BY <1>1, <1>2, <1>3 DEF ApiCall, CallMatches
  <2>3. Settles(c, r)
    <3>1. r.gone => r.why = "recheck" /\ r.answer = "error"
      BY <1>2, <2>2
    <3> HIDE DEF r
    <3> QED BY <1>2, <2>2, <3>1 DEF Settles, Refreshing
  <2>4. apiLeft' \in [ApiTrouble -> Nat]
    BY <1>1, <1>5, SpendType DEF ApiTrouble
  <2> HIDE DEF r
  <2>5. ApiBase'
    BY <1>1, <1>2, <2>1, <2>2, <2>4, BaseFrame DEF PrunedInv
  <2> QED BY <1>2, <2>1, <2>2, <2>3, <2>5 DEF CallStep
<1> QED BY <1>4, <1>5 DEF QueryPruned

LEMMA ApplyPrunedStep ==
    ASSUME PrunedInv, NEW c \in ApiClient, ApplyPruned(c)
    PROVE  ApiBase' /\ CallStep(c)
<1>1. /\ ApiTypeOK /\ CallsMatch /\ call \in [ApiClient -> ApiCall] /\ call[c] \in ApiCall /\ CallMatches(call[c], walks[c])
      /\ cache \in ApiCache /\ apiLeft \in [ApiTrouble -> Nat]
  BY DEF PrunedInv, ApiBase, ApiTypeOK, CallsMatch
<1>2. call[c].step = "heard" /\ UNCHANGED <<tables, deposits, watermark, walks, apiLeft, served>>
  BY DEF ApplyPruned
<1>3. cache' = IF call[c].ticket > cache.applied
               THEN [cache EXCEPT !.through = call[c].heard, !.applied = call[c].ticket, !.fresh = TRUE] ELSE cache
  BY DEF ApplyPruned
<1>4. cache' \in ApiCache
  BY <1>1, <1>3 DEF ApiCache, ApiCall
<1> DEFINE r == Judged(c, call[c], cache'.through)
<1>5. call' = [call EXCEPT ![c] = r]
  BY <1>3 DEF ApplyPruned
<1>6. r \in ApiCall /\ CallMatches(r, walks[c]) /\ r.step \in {"check", "read", "done"}
  BY <1>1, <1>2, JudgedCall
<1>7. Keeps(c, r)
  BY <1>2, <1>3, <1>6 DEF Keeps, Refreshing
<1> HIDE DEF r
<1>8. ApiBase'
  BY <1>1, <1>2, <1>4, <1>5, <1>6, BaseFrame DEF PrunedInv
<1> QED BY <1>2, <1>5, <1>6, <1>7, <1>8 DEF CallStep
\* A caller without a request under way.
LEMMA NoCallMatches ==
    ASSUME NEW w
    PROVE  NoCall \in ApiCall /\ CallMatches(NoCall, w) /\ ~NoCall.gone /\ NoCall.step = "idle" /\ NoCall.kind = "none"
<1>1. NoCall \in ApiCall
  BY ApiAssumption, RowIsBound DEF NoCall, ApiCall
<1>2. "none" \notin Feeds
  BY DEF Feeds, KeyFeeds, CutFeeds, Numbered
<1> QED BY <1>1, <1>2 DEF NoCall, CallMatches

LEMMA AskTargetStep ==
    ASSUME PrunedInv, NEW c \in ApiClient, NEW kind \in Numbers \cup Hashes, NEW b \in ApiBlock, AskTarget(c, kind, b)
    PROVE  ApiBase' /\ CallStep(c)
<1>1. /\ ApiTypeOK /\ CallsMatch /\ call \in [ApiClient -> ApiCall] /\ cache \in ApiCache
  BY DEF PrunedInv, ApiBase, ApiTypeOK
<1> DEFINE node == served.lookup /\ kind \in {"block", "txs"}
           why  == IF node THEN "node" ELSE "check"
           step == IF kind \in Hashes THEN "read" ELSE "check"
           given == kind \in Numbers
           at   == <<b, 0>>
           r    == [NoCall EXCEPT !.kind = kind, !.at = at, !.given = given, !.why = why, !.step = step]
<1>2. call' = [call EXCEPT ![c] = r] /\ UNCHANGED <<tables, deposits, watermark, cache, walks, served>>
  BY DEF AskTarget
<1>3. apiLeft' \in [ApiTrouble -> Nat]
  BY <1>1, SpendType DEF AskTarget, ApiTrouble
<1>4. /\ at \in ApiBound /\ given \in BOOLEAN /\ why \in {"node", "check"} /\ step \in {"check", "read"}
      /\ why = "node" => kind \in Numbers
  BY ApiAssumption DEF ApiBound, ApiBlock, Numbers
<1>5. kind \notin Feeds
  BY DEF Numbers, Hashes, Feeds, KeyFeeds, CutFeeds, Numbered
<1>6. r \in ApiCall /\ CallMatches(r, walks[c]) /\ ~r.gone /\ r.step = step
  <2>1. NoCall \in ApiCall /\ NoCall.answer = "none" /\ ~NoCall.gone
    BY NoCallMatches DEF NoCall
  <2>2. r \in ApiCall /\ r.kind = kind /\ r.at = at /\ r.why = why /\ r.step = step /\ r.answer = "none" /\ ~r.gone
    <3> HIDE DEF at, given, why, step
    <3> QED BY <1>4, <2>1 DEF ApiCall
  <2>3. kind # "none"
    BY DEF Numbers, Hashes
  <2>4. CallMatches(r, walks[c])
    <3> HIDE DEF r, why, step
    <3> QED BY <1>4, <1>5, <2>2, <2>3 DEF CallMatches
  <2> QED BY <2>2, <2>4
<1>7. ~Refreshing(r)
  <2> HIDE DEF r
  <2> QED BY <1>4, <1>6 DEF Refreshing
<1> HIDE DEF r
<1>8. ApiBase'
  BY <1>1, <1>2, <1>3, <1>6, BaseFrame DEF PrunedInv
<1>9. Settles(c, r)
  BY <1>2, <1>6, <1>7 DEF Settles
<1> QED BY <1>2, <1>6, <1>8, <1>9 DEF CallStep

LEMMA AskPageStep ==
    ASSUME PrunedInv, NEW c \in ApiClient, AskPage(c)
    PROVE  ApiBase' /\ CallStep(c)
<1>1. /\ ApiTypeOK /\ CallsMatch /\ call \in [ApiClient -> ApiCall] /\ cache \in ApiCache /\ walks[c] \in ApiWalk
      /\ apiLeft \in [ApiTrouble -> Nat]
  BY DEF PrunedInv, ApiBase, ApiTypeOK
<1> DEFINE w == walks[c]
           given == w.at # NoBound /\ (w.feed = "blocks" \/ w.page = 1)
           step == IF given THEN "check" ELSE "read"
           r    == [NoCall EXCEPT !.kind = w.feed, !.at = w.at, !.given = given, !.step = step]
<1>2. call' = [call EXCEPT ![c] = r] /\ UNCHANGED <<tables, deposits, watermark, cache, walks, apiLeft, served>> /\ w.state = "open"
  BY DEF AskPage
<1>3. w.at \in ApiBound /\ given \in BOOLEAN /\ step \in {"check", "read"}
  BY <1>1 DEF ApiWalk
<1>4. r \in ApiCall /\ CallMatches(r, w) /\ ~r.gone /\ r.step = step
  <2>1. NoCall \in ApiCall /\ NoCall.answer = "none" /\ ~NoCall.gone /\ NoCall.why = "check"
    BY NoCallMatches DEF NoCall
  <2>2. r \in ApiCall /\ r.kind = w.feed /\ r.at = w.at /\ r.why = "check" /\ r.step = step /\ r.answer = "none" /\ ~r.gone
    <3>1. w.feed \in Feeds
      BY <1>2 DEF PrunedInv, ApiBase, WalksOpen
    <3> HIDE DEF given, step, w
    <3> QED BY <1>3, <2>1, <3>1 DEF ApiCall, w
  <2>3. w.feed # "none" /\ w.feed \in Feeds
    <3>1. w.feed \in Feeds
      BY <1>2 DEF PrunedInv, ApiBase, WalksOpen
    <3> QED BY <3>1 DEF Feeds, KeyFeeds, CutFeeds, Numbered
  <2>4. CallMatches(r, w)
    <3> HIDE DEF r, given, step
    <3> QED BY <1>2, <1>3, <2>2, <2>3 DEF CallMatches
  <2> QED BY <2>2, <2>4
<1>5. ~Refreshing(r)
  <2> HIDE DEF r, step
  <2> QED BY <1>3, <1>4 DEF Refreshing
<1> HIDE DEF r
<1>6. ApiBase'
  BY <1>1, <1>2, <1>4, BaseFrame DEF PrunedInv
<1>7. Settles(c, r)
  BY <1>2, <1>4, <1>5 DEF Settles
<1> QED BY <1>2, <1>4, <1>6, <1>7 DEF CallStep

\* A recheck begins, noting whether the target is out of retention already.
LEMMA RecheckStep ==
    ASSUME PrunedInv, NEW c \in ApiClient, call[c].step = "read", RecheckRetained(c, OutOfRetention(call[c], watermark)),
           UNCHANGED <<tables, deposits, watermark, walks, apiLeft, served>>
    PROVE  ApiBase' /\ CallStep(c)
<1>1. ApiTypeOK /\ CallsMatch /\ call[c] \in ApiCall /\ cache \in ApiCache /\ apiLeft \in [ApiTrouble -> Nat]
  BY DEF PrunedInv, ApiBase, ApiTypeOK
<1> DEFINE gone == OutOfRetention(call[c], watermark)
<1>2. gone \in BOOLEAN /\ BeginRefresh(c, "recheck", gone)
  BY DEF RecheckRetained, OutOfRetention
<1>3. /\ cache' = [cache EXCEPT !.started = @ + 1] /\ cache' \in ApiCache
      /\ \E r \in ApiCall : /\ call' = [call EXCEPT ![c] = r] /\ CallMatches(r, walks[c])
                            /\ r.step = "asking" /\ r.why = "recheck" /\ r.ticket = cache.started + 1 /\ r.gone = gone
                            /\ r.kind = call[c].kind /\ r.at = call[c].at /\ r.answer = "none"
  <2> HIDE DEF gone
  <2> QED BY <1>1, <1>2, RefreshBegins
<1>4. PICK r \in ApiCall : /\ call' = [call EXCEPT ![c] = r] /\ CallMatches(r, walks[c])
                           /\ r.step = "asking" /\ r.why = "recheck" /\ r.ticket = cache.started + 1 /\ r.gone = gone
                           /\ r.kind = call[c].kind /\ r.at = call[c].at /\ r.answer = "none"
  BY <1>3
<1>5. ApiBase'
  BY <1>1, <1>3, <1>4, BaseFrame DEF PrunedInv
<1>6. r.gone => OutOfRetention(r, watermark)
  BY <1>4 DEF OutOfRetention, Target
<1>7. Begins(c, r)
  BY <1>3, <1>4, <1>6 DEF Begins
<1> QED BY <1>4, <1>5, <1>7 DEF CallStep

\* A request moves on without the watermark.
LEMMA MovesOn ==
    ASSUME PrunedInv, NEW c \in ApiClient, call[c].step \in {"read", "rows"}, NEW r \in ApiCall, call' = [call EXCEPT ![c] = r],
           CallMatches(r, walks[c]), r.gone = call[c].gone, r.step \in {"check", "rows", "done"},
           UNCHANGED <<tables, deposits, watermark, cache, walks, apiLeft, served>>
    PROVE  ApiBase' /\ CallStep(c)
<1>1. cache \in ApiCache /\ apiLeft \in [ApiTrouble -> Nat]
  BY DEF PrunedInv, ApiBase, ApiTypeOK
<1>2. ApiBase'
  BY <1>1, BaseFrame DEF PrunedInv
<1>3. ~r.gone
  BY DEF PrunedInv, PrunedHeard
<1>4. Settles(c, r)
  BY <1>3 DEF Settles, Refreshing
<1> QED BY <1>2, <1>4 DEF CallStep

LEMMA ReadTargetStep ==
    ASSUME PrunedInv, NEW c \in ApiClient, NEW has \in BOOLEAN, ReadTarget(c, has), call[c].kind \notin Feeds
    PROVE  ApiBase' /\ CallStep(c)
<1>1. call \in [ApiClient -> ApiCall] /\ call[c] \in ApiCall /\ CallMatches(call[c], walks[c])
  BY DEF PrunedInv, ApiBase, ApiTypeOK, CallsMatch
<1>2. call[c].step = "read" /\ UNCHANGED <<tables, deposits, watermark, walks, apiLeft, served>>
  BY DEF ReadTarget
<1>3. call[c].answer = "none" /\ call[c].kind # "none"
  BY <1>1, <1>2 DEF CallMatches
<1>4. CASE call[c].kind = "hashTxs" /\ call' = [call EXCEPT ![c].step = "rows"] /\ UNCHANGED cache
  <2> DEFINE r == [call[c] EXCEPT !.step = "rows"]
  <2>1. call' = [call EXCEPT ![c] = r]
    BY <1>1, <1>4, AsOne
  <2>2. r \in ApiCall /\ CallMatches(r, walks[c]) /\ r.gone = call[c].gone /\ r.step = "rows"
    BY <1>1, <1>2, <1>3, <1>4 DEF ApiCall, CallMatches
  <2> HIDE DEF r
  <2> QED BY <1>2, <1>4, <2>1, <2>2, MovesOn
<1>5. CASE Replied(c, "found") /\ UNCHANGED cache
  <2> DEFINE r == [call[c] EXCEPT !.step = "done", !.answer = "found"]
  <2>1. call' = [call EXCEPT ![c] = r]
    BY <1>1, <1>5, AsOne DEF Replied
  <2>2. r \in ApiCall /\ CallMatches(r, walks[c]) /\ r.gone = call[c].gone /\ r.step = "done"
    BY <1>1, <1>2, <1>3 DEF ApiCall, CallMatches
  <2> HIDE DEF r
  <2> QED BY <1>2, <1>5, <2>1, <2>2, MovesOn
<1>6. CASE RecheckRetained(c, OutOfRetention(call[c], watermark))
  BY <1>2, <1>6, RecheckStep
<1>7. CASE /\ call[c].kind \in Hashes /\ UNCHANGED cache
           /\ call' = [call EXCEPT ![c].step = "check", ![c].why = IF served.lookup THEN "node" ELSE "message"]
  <2> DEFINE why == IF served.lookup THEN "node" ELSE "message"
             r == [call[c] EXCEPT !.step = "check", !.why = why]
  <2>1. call' = [call EXCEPT ![c] = r]
    BY <1>1, <1>7, AsOne
  <2>2. why \in {"node", "message"}
    OBVIOUS
  <2>3. r \in ApiCall /\ CallMatches(r, walks[c]) /\ r.gone = call[c].gone /\ r.step = "check"
    <3> HIDE DEF why
    <3> QED BY <1>1, <1>2, <1>3, <1>7, <2>2 DEF ApiCall, CallMatches
  <2> HIDE DEF r
  <2> QED BY <1>2, <1>7, <2>1, <2>3, MovesOn
<1> QED BY <1>4, <1>5, <1>6, <1>7 DEF ReadTarget

LEMMA ReadRowsStep ==
    ASSUME PrunedInv, NEW c \in ApiClient, ReadRowsOfHash(c)
    PROVE  ApiBase' /\ CallStep(c)
<1>1. call \in [ApiClient -> ApiCall] /\ call[c] \in ApiCall /\ CallMatches(call[c], walks[c])
  BY DEF PrunedInv, ApiBase, ApiTypeOK, CallsMatch
<1>2. call[c].step = "rows" /\ UNCHANGED <<tables, deposits, watermark, cache, walks, apiLeft, served>>
  BY DEF ReadRowsOfHash
<1>3. call[c].answer = "none" /\ call[c].kind = "hashTxs" /\ "hashTxs" \notin Feeds
  BY <1>1, <1>2 DEF CallMatches, Feeds, KeyFeeds, CutFeeds, Numbered
<1> DEFINE a == IF GetTransactionsByBlock(call[c].at[1]) # {} THEN "found" ELSE "empty"
           r == [call[c] EXCEPT !.step = "done", !.answer = a]
<1>4. call' = [call EXCEPT ![c] = r]
  BY <1>1, AsOne DEF ReadRowsOfHash, Replied
<1>5. a \in {"found", "empty"}
  OBVIOUS
<1>6. r \in ApiCall /\ CallMatches(r, walks[c]) /\ r.gone = call[c].gone /\ r.step = "done"
  <2> HIDE DEF a
  <2> QED BY <1>1, <1>2, <1>3, <1>5 DEF ApiCall, CallMatches
<1> HIDE DEF r
<1> QED BY <1>2, <1>4, <1>6, MovesOn
-----------------------------------------------------------------------------
(* History moves *)

\* The walks' bookkeeping keeps everything of a walk but the rows that left the list.
LEMMA Becomes ==
    ASSUME ApiBase, NEW h, NEW d, Become(h, d)
    PROVE  /\ tables' = h /\ deposits' = d /\ walks' \in [ApiClient -> ApiWalk]
           /\ \A c \in ApiClient :
                /\ walks'[c].feed = walks[c].feed /\ walks'[c].at = walks[c].at /\ walks'[c].page = walks[c].page
                /\ walks'[c].seen = walks[c].seen /\ walks'[c].cut = walks[c].cut /\ walks'[c].twice = walks[c].twice
                /\ walks'[c].state = walks[c].state
                /\ walks[c].state # "open" => walks'[c] = walks[c]
                /\ walks[c].state = "open" =>
                     LET now == Listed(h, d, walks[c].feed) IN
                     /\ walks'[c].kept = walks[c].kept \cap now
                     /\ walks'[c].shrunk = (walks[c].shrunk \/ ~(Listed(tables, deposits, walks[c].feed) \subseteq now))
<1> DEFINE now(c) == Listed(h, d, walks[c].feed)
           gone(c) == ~(Listed(tables, deposits, walks[c].feed) \subseteq now(c))
           new(c) == [walks[c] EXCEPT !.kept = walks[c].kept \cap now(c), !.shrunk = walks[c].shrunk \/ gone(c)]
<1>1. walks' = [c \in ApiClient |-> IF walks[c].state # "open" THEN walks[c] ELSE new(c)]
  BY DEF Become
<1>2. ASSUME NEW c \in ApiClient
      PROVE  /\ walks[c] \in ApiWalk /\ new(c) \in ApiWalk /\ new(c).feed = walks[c].feed /\ new(c).at = walks[c].at
             /\ new(c).page = walks[c].page /\ new(c).seen = walks[c].seen /\ new(c).cut = walks[c].cut
             /\ new(c).twice = walks[c].twice /\ new(c).state = walks[c].state
             /\ new(c).kept = walks[c].kept \cap now(c) /\ new(c).shrunk = (walks[c].shrunk \/ gone(c))
  <2>1. walks[c] \in ApiWalk
    BY DEF ApiBase, ApiTypeOK
  <2>2. walks[c].kept \cap now(c) \in SUBSET ApiRow /\ (walks[c].shrunk \/ gone(c)) \in BOOLEAN
    BY <2>1 DEF ApiWalk
  <2> HIDE DEF now, gone
  <2> QED BY <2>1, <2>2 DEF ApiWalk
<1>3. tables' = h /\ deposits' = d
  BY DEF Become
<1>4. walks' \in [ApiClient -> ApiWalk]
  <2> HIDE DEF new
  <2> QED BY <1>1, <1>2
<1>5. ASSUME NEW c \in ApiClient
      PROVE  walks'[c] = IF walks[c].state # "open" THEN walks[c] ELSE new(c)
  BY <1>1
<1> HIDE DEF new
<1> QED BY <1>2, <1>3, <1>4, <1>5

\* What a move of the history does to the cached watermark and to the callers who wait for it.
Aged == /\ UNCHANGED call /\ watermark' >= watermark /\ cache' \in {cache, [cache EXCEPT !.fresh = FALSE]}
Wiped == call' = [c \in ApiClient |-> [call[c] EXCEPT !.gone = FALSE]] /\ UNCHANGED cache

HistoryStep ==
    /\ Aged \/ Wiped
    /\ UNCHANGED served
    /\ \/ \E h \in [Table -> SUBSET ApiBlock], d \in SUBSET DepositRow : Become(h, d)
       \/ UNCHANGED <<tables, deposits, walks>>

LEMMA HistoryMovesStep ==
    ASSUME ApiBase, HistoryMoves
    PROVE  HistoryStep /\ watermark' \in 0..HeadBlock /\ cache' \in ApiCache /\ apiLeft' \in [ApiTrouble -> Nat]
<1>1. /\ tables \in [Table -> SUBSET ApiBlock] /\ deposits \in SUBSET DepositRow /\ watermark \in 0..HeadBlock /\ HeadBlock \in Nat
      /\ cache \in ApiCache /\ apiLeft \in [ApiTrouble -> Nat] /\ ApiTypeOK
  BY ApiAssumption DEF ApiBase, ApiTypeOK
<1>2. ASSUME UNCHANGED call, watermark' \in 0..HeadBlock, watermark' >= watermark, UNCHANGED cache
      PROVE  Aged
  BY <1>2 DEF Aged
<1>3. ASSUME NEW b \in ApiBlock, WriteBlock(b) PROVE HistoryStep /\ watermark' = watermark /\ cache' = cache /\ apiLeft' \in [ApiTrouble -> Nat]
  <2> DEFINE h == [t \in Table |-> tables[t] \cup {b}]
  <2>1. h \in [Table -> SUBSET ApiBlock] /\ Become(h, deposits) /\ UNCHANGED <<watermark, cache, call, served>>
    BY <1>1, <1>3 DEF WriteBlock
  <2>2. apiLeft' \in [ApiTrouble -> Nat]
    BY <1>1, <1>3, SpendType DEF WriteBlock, ApiTrouble
  <2>3. Aged
    BY <1>1, <2>1 DEF Aged
  <2> HIDE DEF h
  <2> QED BY <1>1, <2>1, <2>2, <2>3 DEF HistoryStep
<1>4. ASSUME RevertHead PROVE HistoryStep /\ watermark' = watermark /\ cache' = cache /\ apiLeft' \in [ApiTrouble -> Nat]
  <2> DEFINE h == [t \in Table |-> tables[t] \ {NewestBlock}]
             d == {x \in deposits : DepositTx[x][1] # NewestBlock}
  <2>1. h \in [Table -> SUBSET ApiBlock] /\ d \in SUBSET DepositRow /\ Become(h, d) /\ UNCHANGED <<watermark, cache, call, served>>
    BY <1>1, <1>4 DEF RevertHead
  <2>2. apiLeft' \in [ApiTrouble -> Nat]
    BY <1>1, <1>4, SpendType DEF RevertHead, ApiTrouble
  <2>3. Aged
    BY <1>1, <2>1 DEF Aged
  <2> HIDE DEF h, d
  <2> QED BY <2>1, <2>2, <2>3 DEF HistoryStep
<1>5. ASSUME NEW n \in ApiBlock, AdvanceWatermark(n)
      PROVE  HistoryStep /\ watermark' \in 0..HeadBlock /\ cache' = cache /\ apiLeft' \in [ApiTrouble -> Nat]
  <2>1. watermark' = n /\ n \in (watermark + 1)..(NewestBlock - 1) /\ UNCHANGED <<tables, deposits, cache, call, walks, served>>
    BY <1>5 DEF AdvanceWatermark
  <2>2. apiLeft' \in [ApiTrouble -> Nat]
    BY <1>1, <1>5, SpendType DEF AdvanceWatermark, ApiTrouble
  <2>3. Aged /\ watermark' \in 0..HeadBlock
    BY <1>1, <2>1 DEF Aged, ApiBlock
  <2> QED BY <2>1, <2>2, <2>3 DEF HistoryStep
<1>6. ASSUME NEW t \in Table, DetachTable(t) PROVE HistoryStep /\ watermark' = watermark /\ cache' = cache /\ apiLeft' = apiLeft
  <2> DEFINE h == [tables EXCEPT ![t] = @ \ 1..watermark]
  <2>1. h \in [Table -> SUBSET ApiBlock] /\ Become(h, deposits) /\ UNCHANGED <<watermark, cache, call, apiLeft, served>>
    BY <1>1, <1>6 DEF DetachTable
  <2>2. Aged
    BY <1>1, <2>1 DEF Aged
  <2> HIDE DEF h
  <2> QED BY <1>1, <2>1, <2>2 DEF HistoryStep
<1>7. ASSUME WipeHistory PROVE HistoryStep /\ watermark' = 0 /\ cache' = cache /\ apiLeft' \in [ApiTrouble -> Nat]
  <2> DEFINE h == [t \in Table |-> {}]
  <2>1. /\ h \in [Table -> SUBSET ApiBlock] /\ {} \in SUBSET DepositRow /\ Become(h, {}) /\ UNCHANGED <<cache, served>>
        /\ watermark' = 0 /\ Wiped
    BY <1>7 DEF WipeHistory, Wiped
  <2>2. apiLeft' \in [ApiTrouble -> Nat]
    BY <1>1, <1>7, SpendType DEF WipeHistory, ApiTrouble
  <2> HIDE DEF h
  <2> QED BY <2>1, <2>2 DEF HistoryStep
<1>8. ASSUME StoreDeposits PROVE HistoryStep /\ watermark' = watermark /\ cache' = cache /\ apiLeft' \in [ApiTrouble -> Nat]
  <2>1. DepositRow \in SUBSET DepositRow /\ Become(tables, DepositRow) /\ UNCHANGED <<watermark, cache, call, served>>
    BY <1>8 DEF StoreDeposits
  <2>2. apiLeft' \in [ApiTrouble -> Nat]
    BY <1>1, <1>8, SpendType DEF StoreDeposits, ApiTrouble
  <2>3. Aged
    BY <1>1, <2>1 DEF Aged
  <2> QED BY <1>1, <2>1, <2>2, <2>3 DEF HistoryStep
<1>9. ASSUME CacheExpires PROVE HistoryStep /\ watermark' = watermark /\ cache' \in ApiCache /\ apiLeft' \in [ApiTrouble -> Nat]
  <2>1. cache' = [cache EXCEPT !.fresh = FALSE] /\ UNCHANGED <<tables, deposits, watermark, call, walks, served>>
    BY <1>9 DEF CacheExpires
  <2>2. apiLeft' \in [ApiTrouble -> Nat]
    BY <1>1, <1>9, SpendType DEF CacheExpires, ApiTrouble
  <2>3. cache' \in ApiCache
    BY <1>1, <2>1 DEF ApiCache
  <2>4. Aged
    BY <1>1, <2>1 DEF Aged
  <2> QED BY <2>1, <2>2, <2>3, <2>4 DEF HistoryStep
<1> QED BY <1>1, <1>3, <1>4, <1>5, <1>6, <1>7, <1>8, <1>9 DEF HistoryMoves

LEMMA HistoryBase ==
    ASSUME ApiBase, HistoryMoves
    PROVE  ApiBase'
<1>1. HistoryStep /\ watermark' \in 0..HeadBlock /\ cache' \in ApiCache /\ apiLeft' \in [ApiTrouble -> Nat]
  BY HistoryMovesStep
<1>2. call \in [ApiClient -> ApiCall] /\ walks \in [ApiClient -> ApiWalk] /\ served \in ApiScenario /\ CallsMatch
  BY DEF ApiBase, ApiTypeOK
<1>3. /\ tables' \in [Table -> SUBSET ApiBlock] /\ deposits' \subseteq DepositRow /\ walks' \in [ApiClient -> ApiWalk]
      /\ \A c \in ApiClient : /\ walks'[c].feed = walks[c].feed /\ walks'[c].at = walks[c].at /\ walks'[c].state = walks[c].state
  <2>1. ASSUME NEW h \in [Table -> SUBSET ApiBlock], NEW d \in SUBSET DepositRow, Become(h, d)
        PROVE  /\ tables' \in [Table -> SUBSET ApiBlock] /\ deposits' \subseteq DepositRow /\ walks' \in [ApiClient -> ApiWalk]
               /\ \A c \in ApiClient : /\ walks'[c].feed = walks[c].feed /\ walks'[c].at = walks[c].at
                                       /\ walks'[c].state = walks[c].state
    <3>1. /\ tables' = h /\ deposits' = d /\ walks' \in [ApiClient -> ApiWalk]
          /\ \A c \in ApiClient : /\ walks'[c].feed = walks[c].feed /\ walks'[c].at = walks[c].at
                                  /\ walks'[c].state = walks[c].state
      BY <2>1, Becomes
    <3> QED BY <3>1
  <2>2. CASE UNCHANGED <<tables, deposits, walks>>
    BY <2>2 DEF ApiBase, ApiTypeOK
  <2> QED BY <1>1, <2>1, <2>2 DEF HistoryStep
<1>4. /\ call' \in [ApiClient -> ApiCall]
      /\ \A c \in ApiClient : /\ call'[c].step = call[c].step /\ call'[c].kind = call[c].kind /\ call'[c].at = call[c].at
                              /\ call'[c].why = call[c].why /\ call'[c].answer = call[c].answer
  <2>1. CASE UNCHANGED call
    BY <1>2, <2>1
  <2>2. CASE Wiped
    <3>1. ASSUME NEW c \in ApiClient
          PROVE  /\ [call[c] EXCEPT !.gone = FALSE] \in ApiCall
                 /\ call'[c].step = call[c].step /\ call'[c].kind = call[c].kind /\ call'[c].at = call[c].at
                 /\ call'[c].why = call[c].why /\ call'[c].answer = call[c].answer
      <4>1. call[c] \in ApiCall /\ call'[c] = [call[c] EXCEPT !.gone = FALSE]
        BY <1>2, <2>2 DEF Wiped
      <4> QED BY <4>1 DEF ApiCall
    <3>2. call' = [c \in ApiClient |-> [call[c] EXCEPT !.gone = FALSE]]
      BY <2>2 DEF Wiped
    <3>3. call' \in [ApiClient -> ApiCall]
      BY <3>1, <3>2
    <3> QED BY <3>1, <3>3
  <2> QED BY <1>1, <2>1, <2>2 DEF HistoryStep, Aged
<1>5. ASSUME NEW c \in ApiClient PROVE CallMatches(call'[c], walks'[c])
  <2>1. CallMatches(call[c], walks[c])
    BY <1>2 DEF CallsMatch
  <2> QED BY <1>3, <1>4, <2>1 DEF CallMatches
<1>6. CallsMatch'
  BY <1>5 DEF CallsMatch
<1>7. WalksOpen'
  BY <1>3 DEF ApiBase, WalksOpen
<1> QED BY <1>1, <1>2, <1>3, <1>4, <1>6, <1>7 DEF ApiBase, ApiTypeOK, HistoryStep
-----------------------------------------------------------------------------
(* Pruned targets *)

\* The target of a request is a number, and out of retention stays out as the watermark moves up.
LEMMA OutStays ==
    ASSUME NEW r \in ApiCall, NEW m \in Nat, NEW n \in Nat, m <= n, OutOfRetention(r, m)
    PROVE  OutOfRetention(r, n)
<1>1. Target(r) \in Int
  BY DEF Target, ApiCall, ApiBound
<1> QED BY <1>1 DEF OutOfRetention

\* OutOfRetention looks at the kind and the bound of a request only.
LEMMA OutSame ==
    ASSUME NEW r, NEW s, r.kind = s.kind, r.at = s.at, NEW n
    PROVE  OutOfRetention(r, n) = OutOfRetention(s, n)
BY DEF OutOfRetention, Target

\* The history moves: the watermark of a refresh under way only gets higher, or nothing is pruned any more.
LEMMA PrunedHistory ==
    ASSUME PrunedInv, HistoryMoves
    PROVE  PrunedInv'
<1>1. ApiBase' /\ HistoryStep
  BY HistoryBase, HistoryMovesStep DEF PrunedInv
<1>2. /\ call \in [ApiClient -> ApiCall] /\ cache \in ApiCache /\ watermark \in 0..HeadBlock /\ watermark' \in 0..HeadBlock
      /\ HeadBlock \in Nat
  BY <1>1, ApiAssumption DEF PrunedInv, ApiBase, ApiTypeOK
<1>3. cache'.through = cache.through /\ cache'.started = cache.started /\ cache'.applied = cache.applied
  BY <1>1, <1>2 DEF HistoryStep, Aged, Wiped, ApiCache
<1>4. \A c \in ApiClient : /\ call'[c].step = call[c].step /\ call'[c].ticket = call[c].ticket /\ call'[c].heard = call[c].heard
                           /\ call'[c].why = call[c].why /\ call'[c].answer = call[c].answer
  BY <1>1, <1>2 DEF HistoryStep, Aged, Wiped, ApiCall
<1>5. TicketsDiffer'
  BY <1>3, <1>4 DEF PrunedInv, TicketsDiffer, Refreshing
<1>6. PrunedHeard'
  <2>1. CASE Wiped
    <3>1. \A c \in ApiClient : ~call'[c].gone
      BY <1>2, <2>1 DEF Wiped, ApiCall
    <3> QED BY <3>1 DEF PrunedHeard
  <2>2. CASE Aged
    <3>1. call' = call /\ watermark <= watermark' /\ watermark \in Nat /\ watermark' \in Nat
      BY <1>2, <2>2 DEF Aged
    <3>2. \A c \in ApiClient : OutOfRetention(call[c], watermark) => OutOfRetention(call[c], watermark')
      BY <1>2, <3>1, OutStays
    <3> QED BY <1>3, <3>1, <3>2 DEF PrunedInv, PrunedHeard, Refreshing
  <2> QED BY <1>1, <2>1, <2>2 DEF HistoryStep
<1> QED BY <1>1, <1>5, <1>6 DEF PrunedInv

\* A caller's request changes: what the others wait for stays, and its own refresh hears the watermark or what was
\* kept after it began.
LEMMA PrunedCall ==
    ASSUME PrunedInv, ApiBase', NEW c \in ApiClient, NEW r \in ApiCall, call' = [call EXCEPT ![c] = r], UNCHANGED watermark,
           Settles(c, r) \/ Begins(c, r) \/ Hears(c, r) \/ Keeps(c, r)
    PROVE  PrunedInv'
<1>1. /\ call \in [ApiClient -> ApiCall] /\ cache \in ApiCache /\ watermark \in Nat /\ cache.applied <= cache.started
      /\ cache.applied \in Nat /\ cache.started \in Nat /\ cache.through \in Nat
      /\ \A d \in ApiClient : call[d] \in ApiCall /\ call[d].ticket \in Nat /\ call[d].heard \in Nat
  BY ApiAssumption DEF PrunedInv, ApiBase, ApiTypeOK, TicketsDiffer, ApiCache, ApiCall
<1>2. call'[c] = r /\ \A d \in ApiClient : d # c => call'[d] = call[d]
  BY <1>1
<1>3. CASE Settles(c, r)
  <2>1. UNCHANGED cache /\ ~Refreshing(r) /\ (r.gone => r.why = "recheck" /\ r.step = "done" /\ r.answer # "absent")
    BY <1>3 DEF Settles
  <2>2. TicketsDiffer'
    BY <1>2, <2>1 DEF PrunedInv, TicketsDiffer
  <2>3. PrunedHeard'
    <3>1. ASSUME NEW d \in ApiClient, d # c, call[d].gone
          PROVE  PrunedHeard!(d)'
      BY <1>2, <2>1, <3>1 DEF PrunedInv, PrunedHeard, Refreshing
    <3> QED BY <1>2, <2>1, <3>1 DEF PrunedHeard, Refreshing
  <2> QED BY <2>2, <2>3 DEF PrunedInv
<1>4. CASE Begins(c, r)
  <2>1. /\ cache'.started = cache.started + 1 /\ cache'.applied = cache.applied /\ cache'.through = cache.through
        /\ r.step = "asking" /\ r.ticket = cache.started + 1 /\ r.answer = "none"
        /\ r.gone => r.why = "recheck" /\ OutOfRetention(r, watermark)
    BY <1>1, <1>4 DEF Begins, ApiCache
  <2>2. \A d \in ApiClient : Refreshing(call[d]) => call[d].ticket \in 1..cache.started
    BY DEF PrunedInv, TicketsDiffer
  <2>3. TicketsDiffer'
    <3>1. cache'.applied <= cache'.started
      BY <1>1, <2>1
    <3>2. \A d \in ApiClient : Refreshing(call'[d]) => call'[d].ticket \in 1..cache'.started
      BY <1>1, <1>2, <2>1, <2>2
    <3>3. ASSUME NEW d \in ApiClient, NEW e \in ApiClient, d # e, Refreshing(call'[d]), Refreshing(call'[e])
          PROVE  call'[d].ticket # call'[e].ticket
      <4>1. CASE d = c
        BY <1>1, <1>2, <2>1, <2>2, <3>3, <4>1
      <4>2. CASE e = c
        BY <1>1, <1>2, <2>1, <2>2, <3>3, <4>2
      <4>3. CASE d # c /\ e # c
        BY <1>2, <3>3, <4>3 DEF PrunedInv, TicketsDiffer
      <4> QED BY <4>1, <4>2, <4>3
    <3> QED BY <3>1, <3>2, <3>3 DEF TicketsDiffer
  <2>4. PrunedHeard'
    <3>1. ASSUME NEW d \in ApiClient, d # c, call[d].gone
          PROVE  PrunedHeard!(d)'
      BY <1>2, <2>1, <3>1 DEF PrunedInv, PrunedHeard, Refreshing
    <3>2. ASSUME r.gone
          PROVE  PrunedHeard!(c)'
      <4>1. ~(cache'.applied >= r.ticket)
        BY <1>1, <2>1
      <4>2. \A d \in ApiClient : call'[d].step = "heard" => ~(call'[d].ticket > r.ticket)
        BY <1>1, <1>2, <2>1, <2>2 DEF Refreshing
      <4> QED BY <1>2, <2>1, <3>2, <4>1, <4>2 DEF Refreshing
    <3> QED BY <1>2, <3>1, <3>2 DEF PrunedHeard
  <2> QED BY <2>3, <2>4 DEF PrunedInv
<1>5. CASE Hears(c, r)
  <2>1. /\ UNCHANGED cache /\ call[c].step = "asking" /\ r.step = "heard" /\ r.heard = watermark /\ r.ticket = call[c].ticket
        /\ r.gone = call[c].gone /\ r.why = call[c].why /\ r.answer = call[c].answer /\ r.kind = call[c].kind /\ r.at = call[c].at
    BY <1>1, <1>5 DEF Hears, ApiCall
  <2>2. TicketsDiffer'
    BY <1>2, <2>1 DEF PrunedInv, TicketsDiffer, Refreshing
  <2>3. PrunedHeard'
    <3>1. ASSUME NEW d \in ApiClient, d # c, call[d].gone
          PROVE  PrunedHeard!(d)'
      BY <1>2, <2>1, <3>1 DEF PrunedInv, PrunedHeard, Refreshing
    <3>2. ASSUME r.gone
          PROVE  PrunedHeard!(c)'
      <4>1. \A n : OutOfRetention(r, n) = OutOfRetention(call[c], n)
        BY <2>1, OutSame
      <4>2. /\ r.why = "recheck" /\ OutOfRetention(r, watermark) /\ r.answer # "absent"
            /\ cache.applied >= r.ticket => OutOfRetention(r, cache.through)
            /\ \A d \in ApiClient : call[d].step = "heard" /\ call[d].ticket > r.ticket => OutOfRetention(r, call[d].heard)
        BY <2>1, <3>2, <4>1 DEF PrunedInv, PrunedHeard, Refreshing
      <4> QED BY <1>2, <2>1, <3>2, <4>2 DEF Refreshing
    <3> QED BY <1>2, <3>1, <3>2 DEF PrunedHeard
  <2> QED BY <2>2, <2>3 DEF PrunedInv
<1>6. CASE Keeps(c, r)
  <2>1. call[c].step = "heard" /\ ~Refreshing(r) /\ r = Judged(c, call[c], cache'.through)
    BY <1>6 DEF Keeps
  <2>2. /\ cache'.started = cache.started
        /\ \/ cache'.through = cache.through /\ cache'.applied = cache.applied /\ ~(call[c].ticket > cache.applied)
           \/ cache'.through = call[c].heard /\ cache'.applied = call[c].ticket /\ call[c].ticket > cache.applied
    BY <1>1, <1>6 DEF Keeps, ApiCache
  <2>3. Refreshing(call[c]) /\ call[c].ticket \in 1..cache.started
    BY <2>1 DEF PrunedInv, TicketsDiffer, Refreshing
  <2>4. TicketsDiffer'
    <3>1. cache'.applied <= cache'.started
      BY <1>1, <2>2, <2>3
    <3> QED BY <1>2, <2>1, <2>2, <3>1 DEF PrunedInv, TicketsDiffer
  <2>5. PrunedHeard'
    <3>1. ASSUME NEW d \in ApiClient, d # c, call[d].gone
          PROVE  PrunedHeard!(d)'
      <4>1. ASSUME Refreshing(call[d]), cache'.applied >= call[d].ticket
            PROVE  OutOfRetention(call[d], cache'.through)
        <5>1. call[d].ticket # call[c].ticket
          BY <2>3, <3>1, <4>1 DEF PrunedInv, TicketsDiffer
        <5>2. CASE cache'.through = cache.through /\ cache'.applied = cache.applied
          BY <3>1, <4>1, <5>2 DEF PrunedInv, PrunedHeard
        <5>3. CASE cache'.through = call[c].heard /\ cache'.applied = call[c].ticket
          <6>1. call[c].ticket > call[d].ticket
            BY <1>1, <4>1, <5>1, <5>3
          <6> QED BY <2>1, <3>1, <4>1, <5>3, <6>1 DEF PrunedInv, PrunedHeard
        <5> QED BY <2>2, <5>2, <5>3
      <4> QED BY <1>2, <2>1, <3>1, <4>1 DEF PrunedInv, PrunedHeard, Refreshing
    <3>2. ASSUME r.gone
          PROVE  PrunedHeard!(c)'
      <4>1. CallMatches(call[c], walks[c])
        BY DEF PrunedInv, ApiBase, CallsMatch
      <4>2. /\ r.gone = call[c].gone
            /\ call[c].why = "recheck" => /\ r.step = "done" /\ r.why = "recheck"
                                          /\ OutOfRetention(call[c], cache'.through) => r.answer = "pruned"
        BY <1>1, <2>1, <4>1, JudgedCall
      <4>3. call[c].gone /\ call[c].why = "recheck"
        BY <3>2, <4>2 DEF PrunedInv, PrunedHeard
      <4>4. OutOfRetention(call[c], cache'.through)
        <5>1. /\ OutOfRetention(call[c], call[c].heard)
              /\ cache.applied >= call[c].ticket => OutOfRetention(call[c], cache.through)
          BY <2>1, <2>3, <4>3 DEF PrunedInv, PrunedHeard
        <5>2. cache.applied >= call[c].ticket \/ call[c].ticket > cache.applied
          BY <1>1
        <5> QED BY <2>2, <5>1, <5>2
      <4> QED BY <1>2, <2>1, <4>2, <4>3, <4>4
    <3> QED BY <1>2, <3>1, <3>2 DEF PrunedHeard
  <2> QED BY <2>4, <2>5 DEF PrunedInv
<1> QED BY <1>3, <1>4, <1>5, <1>6
-----------------------------------------------------------------------------
(* Pages *)

\* The rows of a list are rows, and finitely many.
LEMMA ListedRows ==
    ASSUME NEW h \in [Table -> SUBSET ApiBlock], NEW d \in SUBSET DepositRow, NEW feed \in Feeds
    PROVE  Listed(h, d, feed) \subseteq ApiRow /\ IsFiniteSet(Listed(h, d, feed))
<1> DEFINE all == Listed(h, d, feed)
<1>1. /\ HeadBlock \in Nat /\ TxRow \subseteq ApiRow /\ IsFiniteSet(TxRow) /\ DOMAIN TransferTx \subseteq ApiRow
      /\ IsFiniteSet(DOMAIN TransferTx) /\ DepositRow \subseteq ApiRow /\ IsFiniteSet(DepositRow)
  BY ApiAssumption
<1>2. feed \in {"blocks", "mine", "moves", "allMoves", "feed", "paged", "deposits"}
  BY DEF Feeds, KeyFeeds, CutFeeds, Numbered
<1>3. CASE feed = "blocks"
  <2> DEFINE box == ApiBlock \X {0}
  <2>1. all = {<<b, 0>> : b \in h["blocks"]} /\ h["blocks"] \subseteq ApiBlock
    BY <1>3 DEF Listed, Table
  <2>2. all \subseteq box /\ box \subseteq ApiRow
    BY <1>1, <2>1 DEF ApiBlock, ApiRow
  <2>3. IsFiniteSet(box)
    <3>1. IsFiniteSet(ApiBlock)
      <4>1. 1 \in Int /\ HeadBlock \in Int
        BY <1>1
      <4> QED BY <4>1, FS_Interval DEF ApiBlock
    <3>2. IsFiniteSet({0})
      BY FS_Singleton
    <3> QED BY <3>1, <3>2, FS_Product
  <2> HIDE DEF box
  <2> QED BY <2>2, <2>3, FS_Subset
<1>4. CASE feed = "mine" \/ feed = "feed" \/ feed = "paged"
  <2>1. all \subseteq TxRow
    BY <1>4 DEF Listed, TxsOf
  <2> QED BY <1>1, <2>1, FS_Subset
<1>5. CASE feed = "moves" \/ feed = "allMoves"
  <2>1. all \subseteq DOMAIN TransferTx
    BY <1>5 DEF Listed, TransfersOf
  <2> QED BY <1>1, <2>1, FS_Subset
<1>6. CASE feed = "deposits"
  <2>1. all \subseteq DepositRow
    BY <1>6 DEF Listed
  <2> QED BY <1>1, <2>1, FS_Subset
<1> QED BY <1>2, <1>3, <1>4, <1>5, <1>6

\* What a page of a list is to the walk w that asked for it: rows from below where it resumes, the cursor among them,
\* and every other row of the list from below it below the cursor, or in the cursor's block for a list resumed by block.
PageOfWalk(w, all, page, at, more) ==
    /\ page \subseteq all /\ at \in ApiBound /\ more \in BOOLEAN
    /\ w.feed \in KeyFeeds =>
          /\ \A x \in page : Older(x, w.at)
          /\ more => /\ at \in page /\ (w.feed = "blocks" => at[2] = 0)
                     /\ \A x \in page : ~Older(x, at)
                     /\ \A x \in all \ page : Older(x, w.at) => Older(x, at)
          /\ ~more => \A x \in all : Older(x, w.at) => x \in page
    /\ w.feed \in CutFeeds =>
          /\ \A x \in page : x[1] < w.at[1]
          /\ more => /\ at[1] < w.at[1]
                     /\ \A x \in page : x[1] >= at[1]
                     /\ \A x \in all \ page : x[1] < w.at[1] => x[1] <= at[1]
          /\ ~more => \A x \in all : x[1] < w.at[1] => x \in page
    /\ w.feed \in Numbered => page = PageOf(all, w.page) /\ more = (Cardinality(page) = PageSize)

\* A walk that turned such a page, or ended with it.
LEMMA TurnedWalk ==
    ASSUME NEW w \in ApiWalk, w.state = "open", NEW page \in SUBSET ApiRow, NEW at \in ApiBound, NEW more \in BOOLEAN,
           NEW new, new = Turned(w, page, at, more)
    PROVE  /\ new \in ApiWalk /\ new.feed = w.feed /\ new.seen = w.seen \cup page /\ new.kept = w.kept
           /\ new.twice <=> (w.twice \/ page \cap w.seen # {})
           /\ new.shrunk = w.shrunk /\ new.page = w.page + 1 /\ new.at = at
           /\ new.cut = (IF more THEN w.cut \cup {at[1]} ELSE w.cut)
           /\ new.state = (IF more THEN "open" ELSE "whole")
<1> DEFINE seen == w.seen \cup page
           twice == w.twice \/ page \cap w.seen # {}
           p == w.page + 1
           cut == IF more THEN w.cut \cup {at[1]} ELSE w.cut
           state == IF more THEN "open" ELSE "whole"
           t == [w EXCEPT !.seen = seen, !.twice = twice, !.page = p, !.at = at, !.cut = cut, !.state = state]
<1>1. Turned(w, page, at, more) = t
  BY DEF Turned, ApiWalk
<1>2. at[1] \in Nat
  BY DEF ApiBound
<1>3. /\ seen \in SUBSET ApiRow /\ twice \in BOOLEAN /\ p \in Nat /\ cut \in SUBSET Nat /\ state \in {"open", "whole"}
  BY <1>2 DEF ApiWalk
<1>4. /\ t \in ApiWalk /\ t.feed = w.feed /\ t.seen = seen /\ t.kept = w.kept /\ t.twice = twice /\ t.shrunk = w.shrunk
      /\ t.page = p /\ t.at = at /\ t.cut = cut /\ t.state = state
  <2> HIDE DEF seen, twice, p, cut, state
  <2> QED BY <1>3 DEF ApiWalk
<1> QED BY <1>1, <1>4
\* A term of a sum is the sum less the other.
LEMMA DifferenceOf ==
    ASSUME NEW i \in Nat, NEW j \in Nat, NEW k \in Nat, i = j + k
    PROVE  i - j = k
OBVIOUS

\* A page of a numbered list: what it leaves has a page's worth more above it, and a short page leaves nothing.
LEMMA NumberedPage ==
    ASSUME NEW all \in SUBSET ApiRow, IsFiniteSet(all), NEW p \in Nat, p >= 1, NEW page, page = PageOf(all, p),
           NEW x \in all \ page, Cardinality(Newer(all, x)) >= (p - 1) * PageSize
    PROVE  Cardinality(Newer(all, x)) >= p * PageSize /\ Cardinality(page) = PageSize
<1> DEFINE n == p * PageSize
           m == (p - 1) * PageSize
<1>0. PageSize \in Nat
  BY ApiAssumption
<1>1. n \in Nat /\ m \in Nat /\ n = m + PageSize
  <2>1. p - 1 \in Nat /\ p = (p - 1) + 1
    OBVIOUS
  <2>2. m \in Nat
    BY <1>0, <2>1
  <2>3. ASSUME NEW q \in Nat PROVE (q + 1) * PageSize = q * PageSize + PageSize /\ (q + 1) * PageSize \in Nat
    BY <1>0
  <2> QED BY <1>0, <2>1, <2>2, <2>3
<1>2. all \in SUBSET ApiBound
  BY RowIsBound
<1>3. page = Newest(all, n) \ Newest(all, m)
  BY DEF PageOf
<1> HIDE DEF n, m
<1>4. Cardinality(Newer(all, x)) \in Nat /\ Cardinality(Newer(all, x)) < Cardinality(all) /\ Cardinality(all) \in Nat
  BY <1>2, NewerFewer, FS_CardinalityType
<1>5. x \notin Newest(all, m)
  BY <1>1, <1>4, NewestIs DEF m
<1>6. x \notin Newest(all, n)
  BY <1>3, <1>5
<1>7. Cardinality(Newer(all, x)) >= n
  BY <1>1, <1>4, <1>6, NewestIs
<1>8. Cardinality(Newest(all, n)) = n /\ Cardinality(Newest(all, m)) = m
  <2>1. Cardinality(all) >= n /\ Cardinality(all) >= m
    BY <1>0, <1>1, <1>4, <1>7
  <2> QED BY <1>1, <1>2, <2>1, NewestCount
<1>9. Newest(all, m) \subseteq Newest(all, n)
  <2>1. m <= n
    BY <1>0, <1>1
  <2>2. Newest(Newest(all, n), m) = Newest(all, m)
    BY <1>1, <1>2, <2>1, NewestOfNewest
  <2> QED BY <2>2, NewestIs
<1>10. Cardinality(page) = PageSize
  <2>1. IsFiniteSet(Newest(all, n)) /\ Newest(all, n) \cap Newest(all, m) = Newest(all, m)
    BY <1>9, NewestIs, FS_Subset
  <2>2. Cardinality(page) = n - m
    <3>1. Cardinality(Newest(all, n) \ Newest(all, m)) =
            Cardinality(Newest(all, n)) - Cardinality(Newest(all, n) \cap Newest(all, m))
      BY <2>1, FS_Difference, Zenon
    <3> QED BY <1>3, <1>8, <2>1, <3>1, Zenon
  <2>3. n - m = PageSize
    BY <1>0, <1>1, DifferenceOf, Zenon
  <2> QED BY <2>2, <2>3
<1> QED BY <1>7, <1>10 DEF n

\* A walk that owes what WalkOwes says still does after a page, or has returned it with the last one.
WalkWhole(w) ==
    LET unseenRows == w.kept \ w.seen IN
    /\ w.feed \in KeyFeeds => unseenRows = {} /\ ~w.twice
    /\ w.feed \in CutFeeds => ~w.twice /\ \A x \in unseenRows : x[1] \in w.cut
    /\ w.feed \in Numbered /\ ~w.shrunk => unseenRows = {}

LEMMA WalkTurns ==
    ASSUME NEW w \in ApiWalk, w.state = "open", NEW all \in SUBSET ApiRow, IsFiniteSet(all), WalkOwes(w, all),
           NEW page, NEW at, NEW more, PageOfWalk(w, all, page, at, more)
    PROVE  LET t == Turned(w, page, at, more) IN
           /\ t \in ApiWalk /\ t.feed = w.feed
           /\ more => t.state = "open" /\ WalkOwes(t, all)
           /\ ~more => t.state = "whole" /\ WalkWhole(t)
<1> DEFINE t == Turned(w, page, at, more)
<1>1. page \in SUBSET ApiRow /\ at \in ApiBound /\ more \in BOOLEAN
  BY DEF PageOfWalk
<1>2. /\ t \in ApiWalk /\ t.feed = w.feed /\ t.seen = w.seen \cup page /\ t.kept = w.kept
      /\ (t.twice <=> (w.twice \/ page \cap w.seen # {})) /\ t.shrunk = w.shrunk /\ t.page = w.page + 1 /\ t.at = at
      /\ t.cut = (IF more THEN w.cut \cup {at[1]} ELSE w.cut) /\ t.state = (IF more THEN "open" ELSE "whole")
  BY <1>1, TurnedWalk
<1> HIDE DEF t
<1>3. /\ w.seen \in SUBSET ApiRow /\ w.kept \in SUBSET ApiRow /\ w.at \in ApiBound /\ w.page \in Nat /\ w.page >= 1
      /\ w.kept \subseteq all /\ ApiRow \subseteq ApiBound /\ page \subseteq all
  BY RowIsBound DEF ApiWalk, WalkOwes, PageOfWalk
<1>4. ASSUME w.feed \in KeyFeeds
      PROVE  /\ ~t.twice
             /\ more => /\ (t.feed = "blocks" => t.at[2] = 0) /\ \A x \in t.seen : ~Older(x, t.at)
                        /\ \A x \in t.kept \ t.seen : Older(x, t.at)
             /\ ~more => t.kept \ t.seen = {}
  <2>1. /\ ~w.twice /\ (\A x \in w.seen : ~Older(x, w.at)) /\ \A x \in w.kept \ w.seen : Older(x, w.at)
    BY <1>4 DEF WalkOwes
  <2>2. /\ \A x \in page : Older(x, w.at)
        /\ more => /\ at \in page /\ (w.feed = "blocks" => at[2] = 0)
                   /\ \A x \in page : ~Older(x, at)
                   /\ \A x \in all \ page : Older(x, w.at) => Older(x, at)
        /\ ~more => \A x \in all : Older(x, w.at) => x \in page
    BY <1>4 DEF PageOfWalk
  <2>3. ~t.twice
    BY <1>2, <2>1, <2>2
  <2>4. ASSUME more, NEW x \in t.seen PROVE ~Older(x, at)
    <3>1. CASE x \in page
      BY <2>2, <2>4, <3>1
    <3>2. CASE x \in w.seen
      <4>1. x \in ApiBound /\ ~Older(x, w.at) /\ Older(at, w.at)
        BY <1>3, <2>1, <2>2, <2>4, <3>2
      <4> QED BY <1>1, <1>3, <4>1, OlderOrder
    <3> QED BY <1>2, <2>4, <3>1, <3>2
  <2>5. ASSUME more, NEW x \in t.kept \ t.seen PROVE Older(x, at)
    BY <1>2, <1>3, <2>1, <2>2, <2>5
  <2>6. ASSUME ~more, NEW x \in t.kept \ t.seen PROVE FALSE
    BY <1>2, <1>3, <2>1, <2>2, <2>6
  <2> QED BY <1>2, <2>2, <2>3, <2>4, <2>5, <2>6
<1>5. ASSUME w.feed \in CutFeeds
      PROVE  /\ ~t.twice
             /\ more => /\ \A x \in t.seen : x[1] >= t.at[1]
                        /\ \A x \in t.kept \ t.seen : x[1] < t.at[1] \/ x[1] \in t.cut
             /\ ~more => \A x \in t.kept \ t.seen : x[1] \in t.cut
  <2>1. /\ ~w.twice /\ (\A x \in w.seen : x[1] >= w.at[1]) /\ \A x \in w.kept \ w.seen : x[1] < w.at[1] \/ x[1] \in w.cut
    BY <1>5 DEF WalkOwes
  <2>2. /\ \A x \in page : x[1] < w.at[1]
        /\ more => /\ at[1] < w.at[1]
                   /\ \A x \in page : x[1] >= at[1]
                   /\ \A x \in all \ page : x[1] < w.at[1] => x[1] <= at[1]
        /\ ~more => \A x \in all : x[1] < w.at[1] => x \in page
    BY <1>5 DEF PageOfWalk
  <2>3. w.at[1] \in Nat /\ at[1] \in Nat /\ \A x \in ApiRow : x[1] \in Nat
    BY <1>1, <1>3 DEF ApiBound, ApiRow
  <2>4. ~t.twice
    <3>1. ASSUME NEW x \in page, x \in w.seen PROVE FALSE
      <4>1. x[1] \in Nat /\ x[1] < w.at[1] /\ x[1] >= w.at[1]
        BY <1>3, <2>1, <2>2, <2>3, <3>1
      <4> QED BY <2>3, <4>1
    <3> QED BY <1>2, <2>1, <3>1
  <2>5. ASSUME more, NEW x \in t.seen PROVE x[1] >= at[1]
    <3>1. CASE x \in page
      BY <2>2, <2>5, <3>1
    <3>2. CASE x \in w.seen
      <4>1. x[1] \in Nat /\ x[1] >= w.at[1]
        BY <1>3, <2>1, <2>3, <3>2
      <4> QED BY <2>2, <2>3, <2>5, <4>1
    <3> QED BY <1>2, <2>5, <3>1, <3>2
  <2>6. ASSUME more, NEW x \in t.kept \ t.seen PROVE x[1] < at[1] \/ x[1] \in t.cut
    <3>1. x \in all \ page /\ x[1] \in Nat /\ (x[1] < w.at[1] \/ x[1] \in w.cut)
      BY <1>2, <1>3, <2>1, <2>3, <2>6
    <3>2. CASE x[1] \in w.cut
      BY <1>2, <2>6, <3>2
    <3>3. CASE x[1] < w.at[1]
      <4>1. x[1] < at[1] \/ x[1] = at[1]
        BY <2>2, <2>3, <2>6, <3>1, <3>3
      <4> QED BY <1>2, <2>6, <4>1
    <3> QED BY <3>1, <3>2, <3>3
  <2>7. ASSUME ~more, NEW x \in t.kept \ t.seen PROVE x[1] \in t.cut
    BY <1>2, <1>3, <2>1, <2>2, <2>7
  <2> QED BY <1>2, <2>4, <2>5, <2>6, <2>7
<1>6. ASSUME w.feed \in Numbered, ~w.shrunk
      PROVE  /\ \A x \in t.kept \ t.seen : Cardinality(Newer(all, x)) >= (t.page - 1) * PageSize
             /\ ~more => t.kept \ t.seen = {}
  <2>1. page = PageOf(all, w.page) /\ more = (Cardinality(page) = PageSize)
    BY <1>6 DEF PageOfWalk
  <2>2. \A x \in w.kept \ w.seen : Cardinality(Newer(all, x)) >= (w.page - 1) * PageSize
    BY <1>6 DEF WalkOwes
  <2>3. ASSUME NEW x \in t.kept \ t.seen
        PROVE  Cardinality(Newer(all, x)) >= w.page * PageSize /\ more
    <3>1. x \in all \ page /\ Cardinality(Newer(all, x)) >= (w.page - 1) * PageSize
      BY <1>2, <1>3, <2>2
    <3> QED BY <1>3, <2>1, <3>1, NumberedPage
  <2>4. t.page - 1 = w.page
    BY <1>2, <1>3
  <2> QED BY <2>3, <2>4
<1>7. t.page >= 1
  BY <1>2, <1>3
<1>8. ASSUME more PROVE t.state = "open" /\ WalkOwes(t, all)
  BY <1>2, <1>3, <1>4, <1>5, <1>6, <1>7, <1>8 DEF WalkOwes
<1>9. ASSUME ~more PROVE t.state = "whole" /\ WalkWhole(t)
  BY <1>2, <1>4, <1>5, <1>6, <1>9 DEF WalkWhole
<1> QED BY <1>2, <1>8, <1>9 DEF t
\* The queries of the lists resumed by a row's key read the newest rows below it.
LEMMA KeyRows ==
    ASSUME ApiTypeOK, NEW feed \in KeyFeeds, NEW bound \in ApiBound, feed = "blocks" => bound[2] = 0, NEW rows \in PageRows(feed, bound)
    PROVE  rows = Newest(RowBound(Listed(tables, deposits, feed), bound), PageSize + 1)
<1> DEFINE n == PageSize + 1
<1>0. n \in Nat /\ tables \in [Table -> SUBSET ApiBlock] /\ TxRow \subseteq ApiRow /\ IsFiniteSet(TxRow) /\ HeadBlock \in Nat
  BY ApiAssumption DEF ApiTypeOK
<1>1. CASE feed = "blocks"
  <2>1. rows = Newest({<<b, 0>> : b \in {x \in tables["blocks"] : x < bound[1]}}, n)
    BY <1>1 DEF PageRows, GetBlocks
  <2>2. Listed(tables, deposits, feed) = {<<b, 0>> : b \in tables["blocks"]}
    BY <1>1 DEF Listed
  <2>3. bound[1] \in Nat /\ bound[2] = 0 /\ \A b \in tables["blocks"] : b \in Nat
    BY <1>0, <1>1 DEF ApiBound, Table, ApiBlock
  <2>4. \A b \in tables["blocks"] : Older(<<b, 0>>, bound) <=> b < bound[1]
    BY <2>3 DEF Older
  <2>5. RowBound({<<b, 0>> : b \in tables["blocks"]}, bound) = {<<b, 0>> : b \in {x \in tables["blocks"] : x < bound[1]}}
    BY <2>4 DEF RowBound
  <2> QED BY <2>1, <2>2, <2>5
<1>2. CASE feed = "mine"
  <2> DEFINE T == {TransferTx[x] : x \in Transfers}
             A == RowBound(SentTx \cap Txs, bound)
             B == RowBound(ReceivedTx \cap Txs, bound)
             C == RowBound(T \cap Txs, bound)
  <2>1. rows = Newest(Newest(A, n) \cup Newest(B, n) \cup Newest(C, n), n)
    BY <1>2 DEF PageRows, GetTransactionsByAddress, TransferCandidates
  <2>2. Listed(tables, deposits, feed) = (SentTx \cup ReceivedTx \cup T) \cap Txs
    BY <1>2 DEF Listed, Txs, Transfers
  <2>3. /\ A \in SUBSET TxRow /\ B \in SUBSET TxRow /\ C \in SUBSET TxRow
    BY DEF RowBound, Txs, TxsOf
  <2>4. /\ IsFiniteSet(A) /\ IsFiniteSet(B) /\ IsFiniteSet(C)
        /\ A \in SUBSET ApiBound /\ B \in SUBSET ApiBound /\ C \in SUBSET ApiBound
    <3> HIDE DEF A, B, C
    <3> QED BY <1>0, <2>3, FS_Subset, RowIsBound
  <2>5. A \cup B \cup C = RowBound((SentTx \cup ReceivedTx \cup T) \cap Txs, bound)
    <3> HIDE DEF T
    <3> QED BY DEF RowBound, A, B, C
  <2> HIDE DEF A, B, C, n
  <2> QED BY <1>0, <2>1, <2>2, <2>4, <2>5, NewestOfParts DEF n
<1>3. CASE feed = "moves"
  BY <1>3 DEF PageRows, GetTransfersByAddress, Listed, Transfers
<1> QED BY <1>1, <1>2, <1>3 DEF KeyFeeds

\* A page of such a list.
LEMMA KeyPage ==
    ASSUME ApiTypeOK, NEW w \in ApiWalk, w.feed \in KeyFeeds, w.feed = "blocks" => w.at[2] = 0,
           NEW rows \in PageRows(w.feed, w.at), NEW page, page = Newest(rows, PageSize),
           NEW more, more = (Cardinality(rows) > PageSize), NEW at, at = IF ~more THEN NoBound ELSE NextCursor(rows)
    PROVE  PageOfWalk(w, Listed(tables, deposits, w.feed), page, at, more)
<1> DEFINE all == Listed(tables, deposits, w.feed)
           S == RowBound(all, w.at)
<1>1. /\ all \subseteq ApiRow /\ IsFiniteSet(all) /\ all \subseteq ApiBound /\ w.at \in ApiBound
      /\ w.feed \notin CutFeeds /\ w.feed \notin Numbered
  <2>1. w.feed \in Feeds /\ tables \in [Table -> SUBSET ApiBlock] /\ deposits \in SUBSET DepositRow /\ w.at \in ApiBound
    BY DEF ApiTypeOK, Feeds, ApiWalk
  <2>2. w.feed \notin CutFeeds /\ w.feed \notin Numbered
    BY DEF KeyFeeds, CutFeeds, Numbered
  <2>3. all \subseteq ApiRow /\ IsFiniteSet(all)
    BY <2>1, ListedRows
  <2> HIDE DEF all
  <2> QED BY <2>1, <2>2, <2>3, RowIsBound
<1>2. rows = Newest(S, PageSize + 1)
  BY <1>1, KeyRows
<1>3. S \in SUBSET ApiBound /\ IsFiniteSet(S) /\ S \subseteq all /\ \A x \in all : x \in S <=> Older(x, w.at)
  <2>1. S \subseteq all /\ \A x \in all : x \in S <=> Older(x, w.at)
    BY DEF RowBound
  <2> HIDE DEF S, all
  <2> QED BY <1>1, <2>1, FS_Subset
<1> HIDE DEF S, all
<1>4. /\ rows \subseteq S /\ page \subseteq S
      /\ Cardinality(rows) > PageSize => /\ NextCursor(rows) \in page
                                         /\ \A x \in page : ~Older(x, NextCursor(rows))
                                         /\ \A x \in S \ page : Older(x, NextCursor(rows))
      /\ ~(Cardinality(rows) > PageSize) => page = S
  BY <1>2, <1>3, PageTurned
<1>5. at \in ApiBound
  BY <1>3, <1>4, RowIsBound
<1>6. w.feed = "blocks" => \A x \in all : x[2] = 0
  BY DEF Listed, all
<1>7. more => /\ at \in page /\ (w.feed = "blocks" => at[2] = 0)
              /\ \A x \in page : ~Older(x, at)
              /\ \A x \in all \ page : Older(x, w.at) => Older(x, at)
  BY <1>3, <1>4, <1>6
<1>8. ~more => \A x \in all : Older(x, w.at) => x \in page
  BY <1>3, <1>4
<1>9. page \subseteq all /\ more \in BOOLEAN /\ \A x \in page : Older(x, w.at)
  BY <1>3, <1>4
<1>10. PageOfWalk(w, all, page, at, more)
  BY <1>1, <1>5, <1>7, <1>8, <1>9 DEF PageOfWalk
<1> QED BY <1>10 DEF all

\* A page of the main list, which is resumed by block number.
LEMMA FeedPage ==
    ASSUME ApiTypeOK, NEW w \in ApiWalk, w.feed = "feed",
           NEW rows \in PageRows(w.feed, w.at), NEW page, page = Newest(rows, PageSize),
           NEW more, more = (Cardinality(rows) > PageSize), NEW at, at = IF ~more THEN NoBound ELSE NextCursor(rows)
    PROVE  PageOfWalk(w, Listed(tables, deposits, w.feed), page, at, more)
<1> DEFINE all == Listed(tables, deposits, w.feed)
           S == {x \in all : x[1] < w.at[1]}
<1>1. /\ all \subseteq ApiRow /\ IsFiniteSet(all) /\ all \subseteq ApiBound /\ w.at \in ApiBound
      /\ w.feed \notin KeyFeeds /\ w.feed \notin Numbered
  <2>1. w.feed \in Feeds /\ tables \in [Table -> SUBSET ApiBlock] /\ deposits \in SUBSET DepositRow /\ w.at \in ApiBound
    BY DEF ApiTypeOK, Feeds, CutFeeds, ApiWalk
  <2>2. w.feed \notin KeyFeeds /\ w.feed \notin Numbered
    BY DEF KeyFeeds, Numbered
  <2>3. all \subseteq ApiRow /\ IsFiniteSet(all)
    BY <2>1, ListedRows
  <2> HIDE DEF all
  <2> QED BY <2>1, <2>2, <2>3, RowIsBound
<1>2. rows = Newest(S, PageSize + 1)
  BY DEF PageRows, GetTransactionsWithCategories, Listed, Txs
<1>3. S \in SUBSET ApiBound /\ IsFiniteSet(S) /\ S \subseteq all /\ \A x \in all : x \in S <=> x[1] < w.at[1]
  <2> HIDE DEF all
  <2> QED BY <1>1, FS_Subset
<1> HIDE DEF S, all
<1>4. /\ rows \subseteq S /\ page \subseteq S
      /\ Cardinality(rows) > PageSize => /\ NextCursor(rows) \in page
                                         /\ \A x \in page : ~Older(x, NextCursor(rows))
                                         /\ \A x \in S \ page : Older(x, NextCursor(rows))
      /\ ~(Cardinality(rows) > PageSize) => page = S
  BY <1>2, <1>3, PageTurned
<1>5. at \in ApiBound
  BY <1>3, <1>4, RowIsBound
<1>6. ASSUME NEW x \in ApiBound, NEW y \in ApiBound
      PROVE  (~Older(x, y) => x[1] >= y[1]) /\ (Older(x, y) => x[1] <= y[1])
  <2>1. x[1] \in Nat /\ y[1] \in Nat
    BY DEF ApiBound
  <2> QED BY <2>1 DEF Older
<1>7. more => /\ at[1] < w.at[1]
              /\ \A x \in page : x[1] >= at[1]
              /\ \A x \in all \ page : x[1] < w.at[1] => x[1] <= at[1]
  BY <1>1, <1>3, <1>4, <1>5, <1>6
<1>8. ~more => \A x \in all : x[1] < w.at[1] => x \in page
  BY <1>3, <1>4
<1>9. page \subseteq all /\ more \in BOOLEAN /\ \A x \in page : x[1] < w.at[1]
  BY <1>3, <1>4
<1>10. PageOfWalk(w, all, page, at, more)
  BY <1>1, <1>5, <1>7, <1>8, <1>9 DEF PageOfWalk
<1> QED BY <1>10 DEF all
\* The least of a set of naturals, and of two.
LEMMA MinIs ==
    ASSUME NEW T \in SUBSET Nat, T # {}
    PROVE  Min(T) \in T /\ \A n \in T : Min(T) <= n
<1>1. \E m \in T : \A n \in T : m <= n
  BY LeastNatural
<1> QED BY <1>1 DEF Min

LEMMA MinOfTwo ==
    ASSUME NEW m \in Nat, NEW n \in Nat
    PROVE  (m <= n => Min({m, n}) = m) /\ (n <= m => Min({m, n}) = n)
<1>1. {m, n} \in SUBSET Nat /\ {m, n} # {}
  OBVIOUS
<1>2. Min({m, n}) \in {m, n} /\ Min({m, n}) <= m /\ Min({m, n}) <= n
  BY <1>1, MinIs
<1> QED BY <1>2

\* A page of the deposits, which are ordered and resumed by their L1 block alone.
LEMMA DepositsPage ==
    ASSUME ApiTypeOK, NEW w \in ApiWalk, w.feed = "deposits",
           NEW rows \in PageRows(w.feed, w.at), NEW page \in SUBSET rows, Cardinality(page) = Min({PageSize, Cardinality(rows)}),
           \A x \in page, y \in rows \ page : y[1] <= x[1],
           NEW more, more = (Cardinality(rows) > PageSize),
           NEW at, at = IF ~more THEN NoBound ELSE <<Min({x[1] : x \in page}), 0>>
    PROVE  PageOfWalk(w, Listed(tables, deposits, w.feed), page, at, more)
<1> DEFINE all == Listed(tables, deposits, w.feed)
           S == {x \in all : x[1] < w.at[1]}
           n == PageSize + 1
           least == Min({x[1] : x \in page})
<1>0. PageSize \in Nat /\ PageSize >= 1 /\ n \in Nat /\ HeadBlock \in Nat
  BY ApiAssumption
<1>1. /\ all \subseteq ApiRow /\ IsFiniteSet(all) /\ w.at \in ApiBound
      /\ w.feed \notin KeyFeeds /\ w.feed \notin Numbered
  <2>1. w.feed \in Feeds /\ tables \in [Table -> SUBSET ApiBlock] /\ deposits \in SUBSET DepositRow /\ w.at \in ApiBound
    BY DEF ApiTypeOK, Feeds, CutFeeds, ApiWalk
  <2>2. w.feed \notin KeyFeeds /\ w.feed \notin Numbered
    BY DEF KeyFeeds, Numbered
  <2>3. all \subseteq ApiRow /\ IsFiniteSet(all)
    BY <2>1, ListedRows
  <2> QED BY <2>1, <2>2, <2>3
<1>2. rows \in SUBSET S /\ Cardinality(rows) = Min({n, Cardinality(S)}) /\ \A x \in rows, y \in S \ rows : y[1] <= x[1]
  BY DEF PageRows, ListOPDeposits, Listed
<1>3. S \subseteq all /\ \A x \in all : x \in S <=> x[1] < w.at[1]
  OBVIOUS
<1> HIDE DEF S, all
<1>4. /\ IsFiniteSet(S) /\ IsFiniteSet(rows) /\ IsFiniteSet(page)
      /\ Cardinality(S) \in Nat /\ Cardinality(rows) \in Nat /\ Cardinality(page) \in Nat
  <2>1. IsFiniteSet(S)
    BY <1>1, <1>3, FS_Subset
  <2>2. IsFiniteSet(rows)
    BY <1>2, <2>1, FS_Subset
  <2>3. IsFiniteSet(page)
    BY <2>2, FS_Subset
  <2> QED BY <2>1, <2>2, <2>3, FS_CardinalityType
<1>5. \A x \in all : x[1] \in 1..(HeadBlock + 1) /\ x[1] \in Nat
  BY <1>0, <1>1 DEF ApiRow
<1>6. w.at[1] \in Nat
  BY <1>1 DEF ApiBound
<1>7. page \subseteq all /\ \A x \in page : x[1] < w.at[1]
  BY <1>2, <1>3
<1>8. ASSUME more
      PROVE  /\ at \in ApiBound /\ at[1] < w.at[1]
             /\ \A x \in page : x[1] >= at[1]
             /\ \A x \in all \ page : x[1] < w.at[1] => x[1] <= at[1]
  <2>0. Cardinality(rows) > PageSize
    BY <1>8, Zenon
  <2>1. Cardinality(page) = PageSize
    <3>1. PageSize <= Cardinality(rows)
      BY <1>0, <1>4, <2>0
    <3> QED BY <1>0, <1>4, <3>1, MinOfTwo
  <2>2. page # {}
    BY <1>0, <2>1, FS_EmptySet
  <2>3. {x[1] : x \in page} \in SUBSET Nat /\ {x[1] : x \in page} # {}
    BY <1>5, <1>7, <2>2
  <2>4. least \in {x[1] : x \in page} /\ \A m \in {x[1] : x \in page} : least <= m
    BY <2>3, MinIs
  <2>5. PICK z \in page : z[1] = least
    BY <2>4
  <2> HIDE DEF least
  <2>6. at = <<least, 0>> /\ at[1] = least
    BY <1>8 DEF least
  <2>7. least \in 1..(HeadBlock + 1) /\ least \in Nat /\ least < w.at[1]
    BY <1>5, <1>7, <2>5
  <2>8. at \in ApiBound
    BY <1>0, <2>6, <2>7 DEF ApiBound
  <2>9. \A x \in page : x[1] >= least
    BY <1>5, <1>7, <2>4, <2>7
  <2>10. ASSUME NEW x \in all \ page, x[1] < w.at[1] PROVE x[1] <= least
    <3>1. x \in S
      BY <1>3, <2>10
    <3>2. CASE x \in rows
      BY <2>5, <2>10, <3>2
    <3>3. CASE x \notin rows
      BY <1>2, <2>5, <3>1, <3>3
    <3> QED BY <3>2, <3>3
  <2> QED BY <2>6, <2>7, <2>8, <2>9, <2>10
<1>9. ASSUME ~more
      PROVE  at \in ApiBound /\ \A x \in all : x[1] < w.at[1] => x \in page
  <2>0. ~(Cardinality(rows) > PageSize)
    BY <1>9, Zenon
  <2>1. Cardinality(rows) <= PageSize
    BY <1>0, <1>4, <2>0
  <2>2. page = rows
    <3>1. Cardinality(page) = Cardinality(rows)
      BY <1>0, <1>4, <2>1, MinOfTwo
    <3> QED BY <1>4, <3>1, FS_Subset
  <2>3. rows = S
    <3>1. Cardinality(S) <= n
      <4>1. n <= Cardinality(S) => Cardinality(rows) = n
        BY <1>0, <1>2, <1>4, MinOfTwo
      <4> QED BY <1>0, <1>4, <2>1, <4>1
    <3>2. Cardinality(rows) = Cardinality(S)
      BY <1>0, <1>2, <1>4, <3>1, MinOfTwo
    <3> QED BY <1>2, <1>4, <3>2, FS_Subset
  <2> QED BY <1>3, <1>9, <2>2, <2>3, RowIsBound
<1>10. more \in BOOLEAN
  OBVIOUS
<1>11. PageOfWalk(w, all, page, at, more)
  BY <1>1, <1>7, <1>8, <1>9, <1>10 DEF PageOfWalk
<1> QED BY <1>11 DEF all

\* A page of a numbered list.
LEMMA OffsetPage ==
    ASSUME ApiTypeOK, NEW w \in ApiWalk, w.feed \in Numbered, NEW page,
           page = IF w.feed = "paged" THEN GetTransactionsPaginated(w.page) ELSE GetAllTokenTransfers(w.page)
    PROVE  PageOfWalk(w, Listed(tables, deposits, w.feed), page, NoBound, Cardinality(page) = PageSize)
<1> DEFINE all == Listed(tables, deposits, w.feed)
<1>1. w.feed \notin KeyFeeds /\ w.feed \notin CutFeeds /\ w.feed \in {"paged", "allMoves"}
  BY DEF KeyFeeds, CutFeeds, Numbered
<1>2. page = PageOf(all, w.page)
  BY <1>1 DEF GetTransactionsPaginated, GetAllTokenTransfers, Listed, Txs, Transfers
<1>3. page \subseteq all
  <2>1. Newest(all, w.page * PageSize) \subseteq all
    BY NewestIs
  <2> QED BY <1>2, <2>1 DEF PageOf
<1> HIDE DEF all
<1>4. PageOfWalk(w, all, page, NoBound, Cardinality(page) = PageSize)
  BY <1>1, <1>2, <1>3, RowIsBound DEF PageOfWalk
<1> QED BY <1>4 DEF all
-----------------------------------------------------------------------------
(* Walks *)

\* A page answers its call.
TurnStep(c) ==
    /\ UNCHANGED <<tables, deposits, watermark, cache, apiLeft, served>>
    /\ call' = [call EXCEPT ![c] = NoCall] /\ walks[c].state = "open"
    /\ \E page, at, more : /\ PageOfWalk(walks[c], Listed(tables, deposits, walks[c].feed), page, at, more)
                           /\ walks' = [walks EXCEPT ![c] = Turned(walks[c], page, at, more)]

LEMMA ReadPageStep ==
    ASSUME ApiInv, NEW c \in ApiClient, ReadPage(c), call[c].kind \in KeyFeeds \cup CutFeeds
    PROVE  (ApiBase' /\ CallStep(c)) \/ TurnStep(c)
<1> DEFINE w == walks[c]
<1>1. /\ PrunedInv /\ ApiTypeOK /\ walks \in [ApiClient -> ApiWalk] /\ w \in ApiWalk /\ CallMatches(call[c], w)
  BY DEF ApiInv, PrunedInv, ApiBase, ApiTypeOK, CallsMatch
<1>2. call[c].step = "read" /\ UNCHANGED <<tables, deposits, watermark, apiLeft, served>>
  BY DEF ReadPage
<1>3. w.state = "open" /\ w.feed = call[c].kind /\ w.at = call[c].at /\ w.feed \in KeyFeeds \cup CutFeeds
  BY <1>1 DEF CallMatches, Feeds
<1>4. w.feed = "blocks" => w.at[2] = 0
  BY <1>3 DEF ApiInv, WalksOwe, WalkOwes, KeyFeeds
<1>5. PICK rows \in PageRows(w.feed, w.at) :
        IF call[c].given /\ rows = {}
        THEN RecheckRetained(c, OutOfRetention(call[c], watermark)) /\ UNCHANGED walks
        ELSE LET more == Cardinality(rows) > PageSize IN
             /\ \E page \in IF w.feed # "deposits" THEN {Newest(rows, PageSize)}
                            ELSE {S \in SUBSET rows : /\ Cardinality(S) = Min({PageSize, Cardinality(rows)})
                                                      /\ \A x \in S, y \in rows \ S : y[1] <= x[1]} :
                  LET at == IF ~more THEN NoBound
                            ELSE IF w.feed = "deposits" THEN <<Min({x[1] : x \in page}), 0>> ELSE NextCursor(rows)
                  IN  walks' = [walks EXCEPT ![c] = Turned(@, page, at, more)]
             /\ call' = [call EXCEPT ![c] = NoCall] /\ UNCHANGED cache
  BY <1>3 DEF ReadPage
<1>6. CASE call[c].given /\ rows = {}
  <2>1. RecheckRetained(c, OutOfRetention(call[c], watermark)) /\ UNCHANGED walks
    BY <1>5, <1>6
  <2> QED BY <1>1, <1>2, <2>1, RecheckStep
<1>7. CASE ~(call[c].given /\ rows = {})
  <2> DEFINE more == Cardinality(rows) > PageSize
             pages == IF w.feed # "deposits" THEN {Newest(rows, PageSize)}
                      ELSE {S \in SUBSET rows : /\ Cardinality(S) = Min({PageSize, Cardinality(rows)})
                                                /\ \A x \in S, y \in rows \ S : y[1] <= x[1]}
             at(page) == IF ~more THEN NoBound
                         ELSE IF w.feed = "deposits" THEN <<Min({x[1] : x \in page}), 0>> ELSE NextCursor(rows)
  <2>1. /\ \E page \in pages : walks' = [walks EXCEPT ![c] = Turned(walks[c], page, at(page), more)]
        /\ call' = [call EXCEPT ![c] = NoCall] /\ UNCHANGED cache
    BY <1>1, <1>5, <1>7
  <2>2. PICK page \in pages : walks' = [walks EXCEPT ![c] = Turned(walks[c], page, at(page), more)]
    BY <2>1
  <2> DEFINE a == at(page)
  <2>3. PageOfWalk(w, Listed(tables, deposits, w.feed), page, a, more)
    <3>1. CASE w.feed = "deposits"
      <4>1. /\ page \in SUBSET rows /\ Cardinality(page) = Min({PageSize, Cardinality(rows)})
            /\ \A x \in page, y \in rows \ page : y[1] <= x[1]
        BY <2>2, <3>1
      <4>2. a = IF ~more THEN NoBound ELSE <<Min({x[1] : x \in page}), 0>>
        BY <3>1
      <4> HIDE DEF w, a
      <4> QED BY <1>1, <1>5, <3>1, <4>1, <4>2, DepositsPage
    <3>2. CASE w.feed \in KeyFeeds
      <4>1. page = Newest(rows, PageSize) /\ a = IF ~more THEN NoBound ELSE NextCursor(rows)
        BY <2>2, <3>2 DEF KeyFeeds
      <4> HIDE DEF w, a
      <4> QED BY <1>1, <1>4, <1>5, <3>2, <4>1, KeyPage
    <3>3. CASE w.feed = "feed"
      <4>1. page = Newest(rows, PageSize) /\ a = IF ~more THEN NoBound ELSE NextCursor(rows)
        BY <2>2, <3>3
      <4> HIDE DEF w, a
      <4> QED BY <1>1, <1>5, <3>3, <4>1, FeedPage
    <3> QED BY <1>3, <3>1, <3>2, <3>3 DEF CutFeeds
  <2>4. \E pp, aa, mm : /\ PageOfWalk(walks[c], Listed(tables, deposits, walks[c].feed), pp, aa, mm)
                        /\ walks' = [walks EXCEPT ![c] = Turned(walks[c], pp, aa, mm)]
    <3> HIDE DEF more
    <3> QED BY <2>2, <2>3
  <2> QED BY <1>2, <1>3, <2>1, <2>4 DEF TurnStep
<1> QED BY <1>6, <1>7

LEMMA ReadOffsetPageStep ==
    ASSUME ApiInv, NEW c \in ApiClient, ListTransactionsPaginated(c) \/ ListAllTokenTransfers(c)
    PROVE  TurnStep(c)
<1> DEFINE w == walks[c]
           page == IF w.feed = "paged" THEN GetTransactionsPaginated(w.page) ELSE GetAllTokenTransfers(w.page)
<1>1. /\ ApiTypeOK /\ walks \in [ApiClient -> ApiWalk] /\ w \in ApiWalk /\ CallMatches(call[c], w)
  BY DEF ApiInv, PrunedInv, ApiBase, ApiTypeOK, CallsMatch
<1>2. w.state = "open" /\ w.feed = call[c].kind /\ w.feed \in Numbered
  BY <1>1 DEF ListTransactionsPaginated, ListAllTokenTransfers, CallMatches, Feeds, Numbered
<1>3. ReadOffsetPage(c, page)
  BY <1>2 DEF ListTransactionsPaginated, ListAllTokenTransfers
<1> HIDE DEF page
<1>4. PageOfWalk(w, Listed(tables, deposits, w.feed), page, NoBound, Cardinality(page) = PageSize)
  BY <1>1, <1>2, OffsetPage DEF page
<1>5. /\ walks' = [walks EXCEPT ![c] = Turned(walks[c], page, NoBound, Cardinality(page) = PageSize)]
      /\ call' = [call EXCEPT ![c] = NoCall] /\ UNCHANGED <<tables, deposits, watermark, cache, apiLeft, served>>
  BY <1>3 DEF ReadOffsetPage
<1> QED BY <1>2, <1>4, <1>5 DEF TurnStep

\* The steps that change a walk leave the others', and settle their caller's request.
LEMMA WalkFrame ==
    ASSUME ApiInv, NEW c \in ApiClient, NEW r \in ApiCall, NEW w \in ApiWalk, CallMatches(r, w), ~Refreshing(r), ~r.gone,
           call' = [call EXCEPT ![c] = r], walks' = [walks EXCEPT ![c] = w], UNCHANGED <<tables, deposits, watermark, cache>>,
           apiLeft' \in [ApiTrouble -> Nat], served' \in ApiScenario,
           w.state = "open" => w.feed \in Feeds /\ WalkOwes(w, Listed(tables, deposits, w.feed)),
           w.state = "whole" => WalkWhole(w)
    PROVE  ApiInv'
<1>1. ApiTypeOK /\ CallsMatch /\ WalksOpen /\ walks \in [ApiClient -> ApiWalk] /\ PrunedInv
  BY DEF ApiInv, PrunedInv, ApiBase, ApiTypeOK
<1>2. call' \in [ApiClient -> ApiCall] /\ walks' \in [ApiClient -> ApiWalk] /\ CallsMatch'
  BY <1>1, CallSet
<1>3. walks'[c] = w /\ \A d \in ApiClient : d # c => walks'[d] = walks[d]
  BY <1>1
<1>4. WalksOpen'
  BY <1>1, <1>3 DEF WalksOpen
<1>5. ApiBase'
  BY <1>1, <1>2, <1>4 DEF ApiBase, ApiTypeOK
<1>6. Settles(c, r)
  BY DEF Settles
<1>7. PrunedInv'
  BY <1>1, <1>5, <1>6, PrunedCall
<1>8. WalksOwe'
  BY <1>3 DEF ApiInv, WalksOwe
<1>9. PagedOnce'
  <2>1. \A d \in ApiClient : walks'[d].state = "whole" => WalkWhole(walks'[d])
    BY <1>3 DEF ApiInv, PagedOnce, WalkWhole
  <2> QED BY <2>1 DEF PagedOnce, WalkWhole
<1> QED BY <1>7, <1>8, <1>9 DEF ApiInv
LEMMA TurnKeeps ==
    ASSUME ApiInv, NEW c \in ApiClient, TurnStep(c)
    PROVE  ApiInv'
<1> DEFINE w == walks[c]
           all == Listed(tables, deposits, w.feed)
<1>1. /\ ApiTypeOK /\ w \in ApiWalk /\ w.state = "open" /\ apiLeft' \in [ApiTrouble -> Nat] /\ served' \in ApiScenario
      /\ UNCHANGED <<tables, deposits, watermark, cache>>
  BY DEF ApiInv, PrunedInv, ApiBase, ApiTypeOK, TurnStep
<1>2. w.feed \in Feeds /\ WalkOwes(w, all)
  BY <1>1 DEF ApiInv, PrunedInv, ApiBase, WalksOpen, WalksOwe
<1>3. all \in SUBSET ApiRow /\ IsFiniteSet(all)
  <2>1. tables \in [Table -> SUBSET ApiBlock] /\ deposits \in SUBSET DepositRow
    BY <1>1 DEF ApiTypeOK
  <2> QED BY <1>2, <2>1, ListedRows
<1>4. PICK page, at, more : /\ PageOfWalk(w, all, page, at, more)
                            /\ walks' = [walks EXCEPT ![c] = Turned(w, page, at, more)]
  BY DEF TurnStep
<1> DEFINE t == Turned(w, page, at, more)
<1>5. /\ t \in ApiWalk /\ t.feed = w.feed
      /\ more => t.state = "open" /\ WalkOwes(t, all)
      /\ ~more => t.state = "whole" /\ WalkWhole(t)
  <2> HIDE DEF w, all
  <2> QED BY <1>1, <1>2, <1>3, <1>4, WalkTurns
<1>6. NoCall \in ApiCall /\ CallMatches(NoCall, t) /\ ~NoCall.gone /\ ~Refreshing(NoCall)
  BY NoCallMatches DEF Refreshing
<1>7. call' = [call EXCEPT ![c] = NoCall] /\ walks' = [walks EXCEPT ![c] = t]
  BY <1>4 DEF TurnStep
<1>8. t.state = "open" => t.feed \in Feeds /\ WalkOwes(t, Listed(tables, deposits, t.feed))
  <2> HIDE DEF t, all
  <2> QED BY <1>2, <1>5 DEF all
<1>9. t.state = "whole" => WalkWhole(t)
  <2> HIDE DEF t
  <2> QED BY <1>5
<1> HIDE DEF t
<1> QED BY <1>1, <1>5, <1>6, <1>7, <1>8, <1>9, WalkFrame

LEMMA OpenWalkKeeps ==
    ASSUME ApiInv, NEW c \in ApiClient, NEW feed \in Feeds, NEW bound \in served.at, OpenWalk(c, feed, bound)
    PROVE  ApiInv'
<1> DEFINE all == Listed(tables, deposits, feed)
           kept == RowBound(all, bound)
           w == [NoWalk EXCEPT !.feed = feed, !.from = bound, !.at = bound, !.page = 1, !.kept = kept, !.state = "open"]
<1>1. /\ ApiTypeOK /\ CallsMatch /\ call \in [ApiClient -> ApiCall] /\ call[c] \in ApiCall /\ CallMatches(call[c], walks[c])
      /\ HeadBlock \in Nat /\ PageSize \in Nat
  BY ApiAssumption DEF ApiInv, PrunedInv, ApiBase, ApiTypeOK, CallsMatch
<1>2. /\ walks' = [walks EXCEPT ![c] = w] /\ call[c].step = "idle" /\ (bound # NoBound => feed \in KeyFeeds)
      /\ UNCHANGED <<tables, deposits, watermark, cache, call, apiLeft, served>>
  BY DEF OpenWalk
<1>3. bound \in ApiBound /\ bound[2] = 0
  <2>1. served.at \in SUBSET ((1..(HeadBlock + 2)) \X {0})
    BY <1>1 DEF ApiTypeOK, ApiScenario
  <2> QED BY <2>1 DEF ApiBound
<1>4. all \subseteq ApiRow
  <2>1. tables \in [Table -> SUBSET ApiBlock] /\ deposits \in SUBSET DepositRow
    BY <1>1 DEF ApiTypeOK
  <2> QED BY <2>1, ListedRows
<1>5. kept \in SUBSET ApiRow /\ kept \subseteq all /\ \A x \in kept : Older(x, bound)
  <2> HIDE DEF all
  <2> QED BY <1>4 DEF RowBound
<1>6. /\ w \in ApiWalk /\ w.feed = feed /\ w.at = bound /\ w.page = 1 /\ w.seen = {} /\ w.kept = kept /\ w.cut = {}
      /\ ~w.twice /\ w.state = "open"
  <2> HIDE DEF kept
  <2> QED BY <1>1, <1>3, <1>5, RowIsBound DEF ApiWalk, NoWalk
<1>7. feed \in CutFeeds => \A x \in kept : x[1] < bound[1]
  <2>1. feed \in CutFeeds => bound = NoBound
    BY <1>2 DEF CutFeeds, KeyFeeds
  <2>2. \A x \in ApiRow : x[1] \in 1..(HeadBlock + 1)
    BY <1>1 DEF ApiRow
  <2>3. NoBound[1] = HeadBlock + 2
    BY DEF NoBound
  <2> HIDE DEF kept
  <2> QED BY <1>1, <1>5, <2>1, <2>2, <2>3
<1>8. \A x \in kept : Cardinality(Newer(all, x)) >= 0
  <2>0. all \in SUBSET ApiBound /\ IsFiniteSet(all)
    <3>1. tables \in [Table -> SUBSET ApiBlock] /\ deposits \in SUBSET DepositRow
      BY <1>1 DEF ApiTypeOK
    <3> QED BY <1>4, <3>1, ListedRows, RowIsBound
  <2> HIDE DEF all, kept
  <2>1. \A x \in kept : Cardinality(Newer(all, x)) \in Nat
    BY <1>5, <2>0, NewerFewer
  <2> QED BY <2>1
<1>9. (w.page - 1) * PageSize = 0
  BY <1>1, <1>6
<1> HIDE DEF w, kept, all
<1>10. WalkOwes(w, all)
  BY <1>3, <1>5, <1>6, <1>7, <1>8, <1>9 DEF WalkOwes
<1>11. ~call[c].gone /\ ~Refreshing(call[c])
  BY <1>2 DEF ApiInv, PrunedInv, PrunedHeard, Refreshing
<1>12. CallMatches(call[c], w)
  <2>1. call[c].kind = "none" /\ "none" \notin Feeds
    BY <1>1, <1>2 DEF CallMatches, Feeds, KeyFeeds, CutFeeds, Numbered
  <2> QED BY <1>1, <2>1 DEF CallMatches
<1>13. call' = [call EXCEPT ![c] = call[c]]
  BY <1>1, <1>2
<1>14. apiLeft' \in [ApiTrouble -> Nat] /\ served' \in ApiScenario
  BY <1>1, <1>2 DEF ApiTypeOK
<1>15. w.feed \in Feeds /\ WalkOwes(w, Listed(tables, deposits, w.feed))
  BY <1>6, <1>10 DEF all
<1> QED BY <1>1, <1>2, <1>6, <1>11, <1>12, <1>13, <1>14, <1>15, WalkFrame

LEMMA TakeAnswerKeeps ==
    ASSUME ApiInv, NEW c \in ApiClient, TakeAnswer(c)
    PROVE  ApiInv'
<1> DEFINE s == IF call[c].kind \in Feeds THEN call[c].answer ELSE walks[c].state
           w == [walks[c] EXCEPT !.state = s]
<1>1. /\ ApiTypeOK /\ walks \in [ApiClient -> ApiWalk] /\ walks[c] \in ApiWalk /\ call[c] \in ApiCall /\ served \in ApiScenario
      /\ CallMatches(call[c], walks[c]) /\ apiLeft \in [ApiTrouble -> Nat]
  BY DEF ApiInv, PrunedInv, ApiBase, ApiTypeOK, CallsMatch
<1>2. /\ call[c].step = "done" /\ call' = [call EXCEPT ![c] = NoCall] /\ UNCHANGED <<tables, deposits, watermark, cache, apiLeft>>
      /\ served' = [served EXCEPT !.asks[c] = IF call[c].kind \in Feeds THEN {} ELSE @]
  BY DEF TakeAnswer
<1>3. walks' = [walks EXCEPT ![c] = w]
  BY <1>1 DEF TakeAnswer, ApiWalk
<1>4. s \in {"none", "open", "whole", "pruned", "absent", "error"} /\ (s \in {"open", "whole"} => s = walks[c].state)
  BY <1>1, <1>2 DEF CallMatches, ApiWalk
<1>5. /\ w \in ApiWalk /\ w.feed = walks[c].feed /\ w.at = walks[c].at /\ w.page = walks[c].page /\ w.seen = walks[c].seen
      /\ w.kept = walks[c].kept /\ w.cut = walks[c].cut /\ w.twice = walks[c].twice /\ w.shrunk = walks[c].shrunk /\ w.state = s
  <2> HIDE DEF s
  <2> QED BY <1>1, <1>4 DEF ApiWalk
<1> HIDE DEF w, s
<1>6. w.state = "open" => w.feed \in Feeds /\ WalkOwes(w, Listed(tables, deposits, w.feed))
  <2>1. walks[c].state = "open" => walks[c].feed \in Feeds /\ WalkOwes(walks[c], Listed(tables, deposits, walks[c].feed))
    BY DEF ApiInv, PrunedInv, ApiBase, WalksOpen, WalksOwe
  <2> QED BY <1>4, <1>5, <2>1 DEF WalkOwes
<1>7. w.state = "whole" => WalkWhole(w)
  <2>1. walks[c].state = "whole" => WalkWhole(walks[c])
    BY DEF ApiInv, PagedOnce, WalkWhole
  <2> QED BY <1>4, <1>5, <2>1 DEF WalkWhole
<1>8. served' \in ApiScenario
  <2> DEFINE asks == [served.asks EXCEPT ![c] = IF call[c].kind \in Feeds THEN {} ELSE @]
  <2>1. asks \in [ApiClient -> SUBSET (Numbers \cup Hashes \cup Feeds)]
    BY <1>1 DEF ApiScenario
  <2>2. served' = [served EXCEPT !.asks = asks]
    BY <1>1, <1>2 DEF ApiScenario
  <2> HIDE DEF asks
  <2> QED BY <1>1, <2>1, <2>2 DEF ApiScenario
<1>9. NoCall \in ApiCall /\ CallMatches(NoCall, w) /\ ~NoCall.gone /\ ~Refreshing(NoCall)
  BY NoCallMatches DEF Refreshing
<1>10. apiLeft' \in [ApiTrouble -> Nat]
  BY <1>1, <1>2
<1> QED BY <1>2, <1>3, <1>5, <1>6, <1>7, <1>8, <1>9, <1>10, WalkFrame

LEMMA CallKeeps ==
    ASSUME ApiInv, NEW c \in ApiClient, ApiBase', CallStep(c)
    PROVE  ApiInv'
<1>1. PrunedInv'
  BY PrunedCall DEF ApiInv, CallStep
<1>2. UNCHANGED <<tables, deposits, walks>>
  BY DEF CallStep
<1>3. WalksOwe' /\ PagedOnce'
  BY <1>2 DEF ApiInv, WalksOwe, PagedOnce
<1> QED BY <1>1, <1>3 DEF ApiInv

\* The history moves under the walks: what left a list is no longer owed, and what is above a row of a list that lost
\* nothing only grows.
LEMMA HistoryKeeps ==
    ASSUME ApiInv, HistoryMoves
    PROVE  ApiInv'
<1>1. PrunedInv /\ ApiBase /\ PrunedInv' /\ HistoryStep
  BY PrunedHistory, HistoryMovesStep DEF ApiInv, PrunedInv
<1>2. CASE UNCHANGED <<tables, deposits, walks>>
  <2>1. WalksOwe' /\ PagedOnce'
    BY <1>2 DEF ApiInv, WalksOwe, PagedOnce
  <2> QED BY <1>1, <2>1 DEF ApiInv
<1>3. ASSUME NEW h \in [Table -> SUBSET ApiBlock], NEW d \in SUBSET DepositRow, Become(h, d)
      PROVE  ApiInv'
  <2>1. /\ tables' = h /\ deposits' = d
        /\ \A c \in ApiClient :
                /\ walks'[c].feed = walks[c].feed /\ walks'[c].at = walks[c].at /\ walks'[c].page = walks[c].page
                /\ walks'[c].seen = walks[c].seen /\ walks'[c].cut = walks[c].cut /\ walks'[c].twice = walks[c].twice
                /\ walks'[c].state = walks[c].state
                /\ walks[c].state # "open" => walks'[c] = walks[c]
                /\ walks[c].state = "open" =>
                     LET now == Listed(h, d, walks[c].feed) IN
                     /\ walks'[c].kept = walks[c].kept \cap now
                     /\ walks'[c].shrunk = (walks[c].shrunk \/ ~(Listed(tables, deposits, walks[c].feed) \subseteq now))
    BY <1>1, <1>3, Becomes
  <2>2. PagedOnce'
    BY <2>1 DEF ApiInv, PagedOnce
  <2>3. ASSUME NEW c \in ApiClient, walks[c].state = "open"
        PROVE  WalkOwes(walks'[c], Listed(h, d, walks[c].feed))
    <3> DEFINE w == walks[c]
               v == walks'[c]
               all == Listed(tables, deposits, w.feed)
               now == Listed(h, d, w.feed)
    <3>1. w.feed \in Feeds /\ WalkOwes(w, all) /\ tables \in [Table -> SUBSET ApiBlock] /\ deposits \in SUBSET DepositRow
      BY <1>1, <2>3 DEF ApiInv, ApiBase, ApiTypeOK, WalksOpen, WalksOwe
    <3>2. now \in SUBSET ApiBound /\ IsFiniteSet(now)
      BY <3>1, ListedRows, RowIsBound
    <3>3. /\ v.feed = w.feed /\ v.at = w.at /\ v.page = w.page /\ v.seen = w.seen /\ v.cut = w.cut /\ v.twice = w.twice
          /\ v.kept = w.kept \cap now /\ v.shrunk = (w.shrunk \/ ~(all \subseteq now))
      BY <2>1, <2>3
    <3> HIDE DEF w, v, all, now
    <3>4. ASSUME v.feed \in Numbered, ~v.shrunk, NEW x \in v.kept \ v.seen
          PROVE  Cardinality(Newer(now, x)) >= (v.page - 1) * PageSize
      <4>1. ~w.shrunk /\ all \subseteq now /\ x \in w.kept \ w.seen /\ x \in now
        BY <3>3, <3>4
      <4>2. Cardinality(Newer(all, x)) >= (w.page - 1) * PageSize
        BY <3>1, <3>3, <3>4, <4>1 DEF WalkOwes
      <4>3. Newer(all, x) \subseteq Newer(now, x)
        BY <4>1 DEF Newer
      <4>4. IsFiniteSet(Newer(now, x)) /\ Cardinality(Newer(now, x)) \in Nat
        BY <3>2, <4>1, NewerFewer
      <4>5. Cardinality(Newer(all, x)) <= Cardinality(Newer(now, x)) /\ Cardinality(Newer(all, x)) \in Nat
        BY <4>3, <4>4, FS_Subset, FS_CardinalityType
      <4>6. (w.page - 1) * PageSize \in Int
        <5>1. w.page - 1 \in Int /\ PageSize \in Int
          BY <1>1, ApiAssumption DEF ApiBase, ApiTypeOK, ApiWalk, w
        <5> QED BY <5>1
      <4> DEFINE n == (w.page - 1) * PageSize
      <4>7. Cardinality(Newer(now, x)) >= n
        <5> HIDE DEF n
        <5> QED BY <4>2, <4>4, <4>5, <4>6 DEF n
      <4> QED BY <3>3, <4>7
    <3>5. /\ v.page >= 1 /\ v.kept \subseteq now
          /\ v.feed \in KeyFeeds => /\ ~v.twice
                                    /\ v.feed = "blocks" => v.at[2] = 0
                                    /\ \A x \in v.seen : ~Older(x, v.at)
                                    /\ \A x \in v.kept \ v.seen : Older(x, v.at)
          /\ v.feed \in CutFeeds => /\ ~v.twice
                                    /\ \A x \in v.seen : x[1] >= v.at[1]
                                    /\ \A x \in v.kept \ v.seen : x[1] < v.at[1] \/ x[1] \in v.cut
      BY <3>1, <3>3 DEF WalkOwes
    <3>6. WalkOwes(v, now)
      BY <3>4, <3>5 DEF WalkOwes
    <3> QED BY <3>6 DEF v, now, w
  <2>4. WalksOwe'
    BY <2>1, <2>3 DEF WalksOwe
  <2> QED BY <1>1, <2>2, <2>4 DEF ApiInv
<1> QED BY <1>1, <1>2, <1>3 DEF HistoryStep
-----------------------------------------------------------------------------
(* The theorems about ReadApi *)

LEMMA ClientKeeps ==
    ASSUME ApiInv, NEW c \in ApiClient, ClientSteps(c)
    PROVE  ApiInv'
<1>1. PrunedInv
  BY DEF ApiInv
<1>2. ASSUME NEW kind \in Numbers \cup Hashes, NEW b \in ApiBlock, AskTarget(c, kind, b) PROVE ApiInv'
  BY <1>1, <1>2, AskTargetStep, CallKeeps
<1>3. CASE ReadPruned(c)
  BY <1>1, <1>3, ReadPrunedStep, CallKeeps
<1>4. CASE QueryPruned(c)
  BY <1>1, <1>4, QueryPrunedStep, CallKeeps
<1>5. CASE ApplyPruned(c)
  BY <1>1, <1>5, ApplyPrunedStep, CallKeeps
<1>6. CASE \/ GetBlock(c) \/ GetTransaction(c) \/ ListBlockTransactions(c)
           \/ ListInternalTransactions(c) \/ BatchGetBlockTransactionCounts(c) \/ ListLogs(c)
  <2>2. call[c].kind \in {"block", "hash", "tx", "txs", "hashTxs", "internal", "counts", "logs"}
    BY <1>6 DEF GetBlock, GetTransaction, ListBlockTransactions, ListInternalTransactions, BatchGetBlockTransactionCounts, ListLogs
  <2>3. call[c].kind \notin Feeds
    BY <2>2 DEF Feeds, KeyFeeds, CutFeeds, Numbered
  <2>4. ASSUME NEW has \in BOOLEAN, ReadTarget(c, has) PROVE ApiInv'
    BY <1>1, <2>3, <2>4, ReadTargetStep, CallKeeps
  <2>5. CASE ReadTarget(c, call[c].at[1] \in tables["blocks"])
    <3> DEFINE has == call[c].at[1] \in tables["blocks"]
    <3>1. has \in BOOLEAN /\ ReadTarget(c, has)
      BY <2>5
    <3> HIDE DEF has
    <3> QED BY <2>4, <3>1
  <2>6. CASE ReadTarget(c, call[c].at \in Txs)
    <3> DEFINE has == call[c].at \in Txs
    <3>1. has \in BOOLEAN /\ ReadTarget(c, has)
      BY <2>6
    <3> HIDE DEF has
    <3> QED BY <2>4, <3>1
  <2>7. CASE ReadTarget(c, GetTransactionsByBlock(call[c].at[1]) # {})
    BY <2>4, <2>7
  <2>8. CASE ReadTarget(c, GetInternalTransactionsByBlock(call[c].at[1]) # {})
    BY <2>4, <2>8
  <2>9. CASE ReadTarget(c, GetLogs(call[c].at[1], PageSize) # {})
    BY <2>4, <2>9
  <2> QED BY <1>6, <2>5, <2>6, <2>7, <2>8, <2>9
          DEF GetBlock, GetTransaction, ListBlockTransactions, ListInternalTransactions, BatchGetBlockTransactionCounts, ListLogs
<1>7. CASE ReadRowsOfHash(c)
  BY <1>1, <1>7, ReadRowsStep, CallKeeps
<1>8. ASSUME NEW feed \in Feeds, NEW bound \in served.at, OpenWalk(c, feed, bound) PROVE ApiInv'
  BY <1>8, OpenWalkKeeps
<1>9. CASE AskPage(c)
  BY <1>1, <1>9, AskPageStep, CallKeeps
<1>10. CASE ListBlocks(c) \/ ListTransactions(c) \/ ListTokenTransfers(c) \/ ListDeposits(c)
  <2>1. ReadPage(c) /\ call[c].kind \in KeyFeeds \cup CutFeeds
    BY <1>10 DEF ListBlocks, ListTransactions, ListTokenTransfers, ListDeposits, KeyFeeds, CutFeeds
  <2> QED BY <2>1, ReadPageStep, TurnKeeps, CallKeeps
<1>11. CASE ListTransactionsPaginated(c) \/ ListAllTokenTransfers(c)
  BY <1>11, ReadOffsetPageStep, TurnKeeps
<1>12. CASE TakeAnswer(c)
  BY <1>12, TakeAnswerKeeps
<1> QED BY <1>2, <1>3, <1>4, <1>5, <1>6, <1>7, <1>8, <1>9, <1>10, <1>11, <1>12 DEF ClientSteps

LEMMA ApiInitial == ApiInit => ApiInv
<1>1. SUFFICES ASSUME NEW s \in ApiScenarios, ApiInitWith(s) PROVE ApiInv
  BY DEF ApiInit
<1>2. s \in ApiScenario /\ HeadBlock \in Nat
  BY ApiAssumption
<1>3. NoWalk \in ApiWalk /\ NoWalk.state = "none"
  BY <1>2, RowIsBound DEF NoWalk, ApiWalk
<1>4. NoCall \in ApiCall /\ CallMatches(NoCall, NoWalk) /\ ~NoCall.gone /\ NoCall.step = "idle"
  BY NoCallMatches
<1>5. (\A c \in ApiClient : call[c] = NoCall /\ walks[c] = NoWalk) /\ cache.applied = 0 /\ cache.started = 0
  BY <1>1 DEF ApiInitWith
<1>6. ApiTypeOK
  <2>1. tables \in [Table -> SUBSET ApiBlock] /\ deposits \subseteq DepositRow /\ served \in ApiScenario /\ apiLeft \in [ApiTrouble -> Nat]
    BY <1>1, <1>2 DEF ApiInitWith, ApiScenario
  <2>2. watermark \in 0..HeadBlock /\ cache \in ApiCache
    BY <1>1, <1>2 DEF ApiInitWith, ApiCache
  <2>3. call \in [ApiClient -> ApiCall] /\ walks \in [ApiClient -> ApiWalk]
    BY <1>1, <1>3, <1>4 DEF ApiInitWith
  <2> QED BY <2>1, <2>2, <2>3 DEF ApiTypeOK
<1>7. CallsMatch /\ WalksOpen
  BY <1>3, <1>4, <1>5 DEF CallsMatch, WalksOpen
<1>8. TicketsDiffer /\ PrunedHeard
  BY <1>4, <1>5 DEF TicketsDiffer, PrunedHeard, Refreshing
<1>9. WalksOwe /\ PagedOnce
  BY <1>3, <1>5 DEF WalksOwe, PagedOnce
<1> QED BY <1>6, <1>7, <1>8, <1>9 DEF ApiInv, PrunedInv, ApiBase

\* The inductive invariant: requests and walks match, refreshes of the watermark have numbers of their own, a recheck of
\* a pruned target is going to hear so, and a walk under way owes only what it will still come to.
THEOREM ApiInvariant == ApiSpec => []ApiInv
<1>1. ApiInit => ApiInv
  BY ApiInitial
<1>2. ApiInv /\ [ApiNext]_apiVars => ApiInv'
  <2> SUFFICES ASSUME ApiInv, [ApiNext]_apiVars PROVE ApiInv'
    OBVIOUS
  <2>1. CASE UNCHANGED apiVars
    <3>1. ApiBase'
      BY <2>1 DEF ApiInv, PrunedInv, ApiBase, ApiTypeOK, CallsMatch, WalksOpen, apiVars
    <3>2. TicketsDiffer' /\ PrunedHeard'
      BY <2>1 DEF ApiInv, PrunedInv, TicketsDiffer, PrunedHeard, apiVars
    <3>3. WalksOwe' /\ PagedOnce'
      BY <2>1 DEF ApiInv, WalksOwe, PagedOnce, apiVars
    <3> QED BY <3>1, <3>2, <3>3 DEF ApiInv, PrunedInv
  <2>2. CASE HistoryMoves
    BY <2>2, HistoryKeeps
  <2>3. ASSUME NEW c \in ApiClient, ClientSteps(c) PROVE ApiInv'
    BY <2>3, ClientKeeps
  <2> QED BY <2>1, <2>2, <2>3 DEF ApiNext
<1> QED BY <1>1, <1>2, PTL DEF ApiSpec

\* Type correctness of the read API.
THEOREM ApiTyped == ApiSpec => []ApiTypeOK
<1>1. ApiInv => ApiTypeOK
  BY DEF ApiInv, PrunedInv, ApiBase
<1> QED BY <1>1, ApiInvariant, PTL

\* A target that was out of retention when its rows were read as missing is answered as pruned (recheckRetained and
\* refreshPrunedThrough), whatever the callers, the refreshes that overtake each other and the moves of the watermark.
THEOREM ApiSaysPruned == ApiSpec => []PrunedSaidSo
<1>1. ApiInv => PrunedSaidSo
  BY DEF ApiInv, PrunedInv, PrunedHeard, PrunedSaidSo
<1> QED BY <1>1, ApiInvariant, PTL

\* A list walked to its end has returned every row listed throughout, and none twice, up to what its kind of cursor
\* admits (ListBlocks, ListTransactions, ListTokenTransfers, ListDeposits and the numbered lists).
THEOREM ApiPagesOnce == ApiSpec => []PagedOnce
<1>1. ApiInv => PagedOnce
  BY DEF ApiInv
<1> QED BY <1>1, ApiInvariant, PTL

-----------------------------------------------------------------------------
(* NodeLookup. The inductive invariant *)

\* Blocks at the height of their hash.
Kept == {b \in Hit : b.hash[2] = b.number}

FetchRecord ==
    [leader : Asker \cup {0}, with : SUBSET Asker, step : {"none", "queued", "block", "receipts"},
     block : Kept \cup {NoBlock}, receipts : {{}}, old : BOOLEAN]

Step == {"idle", "resolve", "resolving", "block", "fetch", "waiting", "judge", "done"}
Answer == {"none", "missing", "error", "served"}

Request ==
    [want : Wants \cup {NoTarget}, step : Step, number : NodeBlock \cup {0}, block : Kept \cup {NoBlock},
     answer : Answer, late : BOOLEAN, again : BOOLEAN]

LookShape ==
    /\ fetches \in [NodeBlock -> FetchRecord]
    /\ req \in [Asker -> Request]
    /\ stale \in BOOLEAN
    /\ lookLeft \in [wanted : [Asker -> SUBSET Wants], busy : Nat, errors : Nat, settles : Nat]

\* A slot for each fetch that has left the queue and each height being asked for.
InNode == {n \in NodeBlock : fetches[n].step \in {"block", "receipts"}}
Resolving == {a \in Asker : req[a].step = "resolving"}
SlotsCounted == taken \in 0..Concurrency /\ Cardinality(InNode) + Cardinality(Resolving) = taken

\* A fetch is its followers', who wait for its height; what it read since the backends agree is the chain's.
FetchesOwned ==
    \A n \in NodeBlock :
        /\ \A a \in fetches[n].with : req[a].step = "waiting" /\ req[a].number = n
        /\ fetches[n].step = "receipts" => /\ fetches[n].block \in Kept /\ fetches[n].block.number = n
                                           /\ fetches[n].old \/ fetches[n].block.hash[1] = "main"
        /\ fetches[n].old => fetches[n].step = "receipts"

\* A request knows what it wants, its height once it is resolved, and its block when it judges it.
ReqsOwned ==
    \A a \in Asker :
        /\ req[a].step \in {"resolve", "resolving"} => req[a].want \in Wants /\ req[a].want.kind \in {"hash", "tx"}
        /\ req[a].step \in {"block", "fetch", "waiting", "judge"} =>
             /\ req[a].want \in Wants /\ req[a].number \in NodeBlock
             /\ req[a].want.kind = "hash" => req[a].number = req[a].want.of[2]
        /\ req[a].step = "judge" => req[a].block \in Kept /\ req[a].block.number = req[a].number

\* The backends agree, and no fetch goes on with what it read before they did.
Settled == ~stale /\ \A n \in NodeBlock : ~fetches[n].old

\* Once they do no orphan enters the cache: the one a late request has met is the only one of its height, and where a
\* hash of the chain was answered as missing there is none.
LateMet ==
    /\ \A a \in Asker : req[a].late => Settled
    /\ missed # {} => Settled
    /\ missed \subseteq Hash
    /\ \A a \in Asker : req[a].late /\ req[a].step = "judge" /\ req[a].block.hash[1] = "orphan" =>
          \A i \in DOMAIN order : order[i].number = req[a].number /\ order[i].hash[1] = "orphan" => order[i] = req[a].block
    /\ \A h \in missed : h[1] = "main" => \A i \in DOMAIN order : order[i].number = h[2] => order[i].hash[1] = "main"

\* A request for such a hash is never shown another block.
AgainServed ==
    \A a \in Asker : req[a].again =>
        /\ req[a].want.kind = "hash" /\ req[a].want.of \in missed
        /\ req[a].want.of[1] = "main" =>
             /\ req[a].answer # "missing"
             /\ req[a].step = "judge" => req[a].block.hash[1] = "main"

\* The cache: its blocks, and the indexes of them.
CacheOK ==
    /\ order \in Seq(Kept)
    /\ hashBlock \in [DOMAIN hashBlock -> NodeBlock] /\ txBlock \in [DOMAIN txBlock -> NodeBlock]
    /\ IndexBacked

LookInv == LookShape /\ CacheOK /\ SlotsCounted /\ FetchesOwned /\ ReqsOwned /\ LateMet /\ AgainServed
-----------------------------------------------------------------------------
(* The cache *)

\* A sequence without one of its elements.
LEMMA Removed ==
    ASSUME NEW S, NEW s \in Seq(S), NEW i \in DOMAIN s
    PROVE  /\ Seqs!RemoveAt(s, i) \in Seq(S)
           /\ Len(Seqs!RemoveAt(s, i)) = Len(s) - 1
           /\ \A j \in 1 .. Len(s) - 1 : Seqs!RemoveAt(s, i)[j] = s[IF j < i THEN j ELSE j + 1]
<1> DEFINE p == SubSeq(s, 1, i - 1)
           q == SubSeq(s, i + 1, Len(s))
<1>1. Len(s) \in Nat /\ DOMAIN s = 1 .. Len(s) /\ i \in 1 .. Len(s) /\ \A k \in 1 .. Len(s) : s[k] \in S
  BY LenProperties
<1>2. p \in Seq(S) /\ Len(p) = i - 1 /\ \A k \in 1 .. i - 1 : p[k] = s[k]
  <2>1. \A k \in 1 .. i - 1 : s[k] \in S
    BY <1>1
  <2>2. /\ p \in Seq(S) /\ Len(p) = IF 1 <= i - 1 THEN (i - 1) - 1 + 1 ELSE 0
        /\ \A k \in 1 .. (i - 1) - 1 + 1 : p[k] = s[1 + k - 1]
    BY <1>1, <2>1, SubSeqProperties
  <2> QED BY <1>1, <2>2
<1>3. q \in Seq(S) /\ Len(q) = Len(s) - i /\ \A k \in 1 .. Len(s) - i : q[k] = s[i + k]
  <2>1. \A k \in i + 1 .. Len(s) : s[k] \in S
    BY <1>1
  <2>2. /\ q \in Seq(S) /\ Len(q) = IF i + 1 <= Len(s) THEN Len(s) - (i + 1) + 1 ELSE 0
        /\ \A k \in 1 .. Len(s) - (i + 1) + 1 : q[k] = s[(i + 1) + k - 1]
    BY <1>1, <2>1, SubSeqProperties
  <2>3. Len(q) = Len(s) - i
    BY <1>1, <2>2
  <2>4. ASSUME NEW k \in 1 .. Len(s) - i PROVE q[k] = s[i + k]
    <3>1. k \in 1 .. Len(s) - (i + 1) + 1 /\ (i + 1) + k - 1 = i + k
      BY <1>1
    <3> QED BY <2>2, <3>1
  <2> QED BY <2>2, <2>3, <2>4
<1>4. Seqs!RemoveAt(s, i) = p \o q
  BY DEF Seqs!RemoveAt
<1> HIDE DEF p, q
<1>5. /\ p \o q \in Seq(S) /\ Len(p \o q) = Len(p) + Len(q)
      /\ \A k \in 1 .. Len(p) + Len(q) : (p \o q)[k] = IF k <= Len(p) THEN p[k] ELSE q[k - Len(p)]
  BY <1>2, <1>3, ConcatProperties
<1>6. Len(p) + Len(q) = Len(s) - 1
  BY <1>1, <1>2, <1>3
<1>7. ASSUME NEW j \in 1 .. Len(s) - 1
      PROVE  (p \o q)[j] = s[IF j < i THEN j ELSE j + 1]
  <2>1. CASE j < i
    BY <1>1, <1>2, <1>5, <1>6, <2>1
  <2>2. CASE ~(j < i)
    <3>1. (p \o q)[j] = q[j - (i - 1)] /\ j - (i - 1) \in 1 .. Len(s) - i /\ i + (j - (i - 1)) = j + 1
      BY <1>1, <1>2, <1>5, <1>6, <2>2
    <3> QED BY <1>3, <2>2, <3>1
  <2> QED BY <2>1, <2>2
<1> QED BY <1>4, <1>5, <1>6, <1>7

\* A sequence with an element before it.
LEMMA Pushed ==
    ASSUME NEW S, NEW s \in Seq(S), NEW b \in S
    PROVE  /\ <<b>> \o s \in Seq(S) /\ Len(<<b>> \o s) = Len(s) + 1
           /\ (<<b>> \o s)[1] = b /\ \A j \in 1 .. Len(s) : (<<b>> \o s)[j + 1] = s[j]
<1>1. <<b>> \in Seq(S) /\ Len(<<b>>) = 1 /\ <<b>>[1] = b
  OBVIOUS
<1>2. Len(s) \in Nat
  BY LenProperties
<1>3. /\ <<b>> \o s \in Seq(S) /\ Len(<<b>> \o s) = Len(<<b>>) + Len(s)
      /\ \A i \in 1 .. Len(<<b>>) + Len(s) : (<<b>> \o s)[i] = IF i <= Len(<<b>>) THEN <<b>>[i] ELSE s[i - Len(<<b>>)]
  BY <1>1, ConcatProperties
<1>4. (<<b>> \o s)[1] = b
  BY <1>1, <1>2, <1>3
<1>5. ASSUME NEW j \in 1 .. Len(s) PROVE (<<b>> \o s)[j + 1] = s[j]
  <2>1. (<<b>> \o s)[j + 1] = s[(j + 1) - 1]
    BY <1>1, <1>2, <1>3
  <2> QED BY <1>2, <2>1
<1> QED BY <1>1, <1>2, <1>3, <1>4, <1>5
\* A cached block that moves to the front leaves the cache as it was otherwise.
LEMMA FrontKeeps ==
    ASSUME CacheOK, NEW i \in DOMAIN order, order' = ToFront(i), UNCHANGED <<hashBlock, txBlock>>
    PROVE  CacheOK' /\ \A j \in DOMAIN order' : \E k \in DOMAIN order : order'[j] = order[k]
<1> DEFINE r == Seqs!RemoveAt(order, i)
           g(j) == IF j = 1 THEN i ELSE IF j - 1 < i THEN j - 1 ELSE j
           at(k) == IF k = i THEN 1 ELSE IF k < i THEN k + 1 ELSE k
<1>1. order \in Seq(Kept) /\ Len(order) \in Nat /\ DOMAIN order = 1 .. Len(order) /\ i \in 1 .. Len(order)
  BY LenProperties DEF CacheOK
<1>2. order[i] \in Kept
  BY <1>1
<1>3. r \in Seq(Kept) /\ Len(r) = Len(order) - 1 /\ \A j \in 1 .. Len(order) - 1 : r[j] = order[IF j < i THEN j ELSE j + 1]
  BY <1>1, Removed
<1>4. order' = <<order[i]>> \o r
  BY DEF ToFront
<1> HIDE DEF r
<1>5. order' \in Seq(Kept) /\ Len(order') = Len(r) + 1 /\ order'[1] = order[i] /\ \A j \in 1 .. Len(r) : order'[j + 1] = r[j]
  BY <1>2, <1>3, <1>4, Pushed
<1>6. DOMAIN order' = 1 .. Len(order) /\ Len(order') = Len(order)
  <2>1. DOMAIN order' = 1 .. Len(order')
    BY <1>5, LenProperties
  <2> QED BY <1>1, <1>3, <1>5, <2>1
<1>7. ASSUME NEW j \in 1 .. Len(order)
      PROVE  g(j) \in 1 .. Len(order) /\ order'[j] = order[g(j)]
  <2>1. CASE j = 1
    BY <1>1, <1>5, <2>1
  <2>2. CASE j # 1
    <3>1. j - 1 \in 1 .. Len(r) /\ (j - 1) + 1 = j /\ j - 1 \in 1 .. Len(order) - 1
      BY <1>1, <1>3, <2>2
    <3>2. order'[j] = r[j - 1]
      BY <1>5, <3>1
    <3>3. order'[j] = order[IF j - 1 < i THEN j - 1 ELSE (j - 1) + 1]
      BY <1>3, <3>1, <3>2
    <3> QED BY <1>1, <2>2, <3>1, <3>3
  <2> QED BY <2>1, <2>2
<1>8. \A j, k \in 1 .. Len(order) : g(j) = g(k) => j = k
  BY <1>1
<1>9. \A k \in 1 .. Len(order) : at(k) \in 1 .. Len(order) /\ g(at(k)) = k
  BY <1>1
<1> HIDE DEF g, at
<1>10. \A k \in DOMAIN order : \E j \in DOMAIN order' : order'[j] = order[k]
  BY <1>1, <1>6, <1>7, <1>9
<1>11. EntriesBacked'
  <2>1. \A h \in DOMAIN hashBlock : \E j \in DOMAIN order' : order'[j].number = hashBlock[h] /\ order'[j].hash = h
    <3> SUFFICES ASSUME NEW h \in DOMAIN hashBlock
                 PROVE  \E j \in DOMAIN order' : order'[j].number = hashBlock[h] /\ order'[j].hash = h
      OBVIOUS
    <3>1. PICK k \in DOMAIN order : order[k].number = hashBlock[h] /\ order[k].hash = h
      BY DEF CacheOK, IndexBacked, EntriesBacked
    <3> QED BY <1>10, <3>1
  <2>2. \A t \in DOMAIN txBlock : \E j \in DOMAIN order' : order'[j].number = txBlock[t] /\ t \in order'[j].txs
    <3> SUFFICES ASSUME NEW t \in DOMAIN txBlock
                 PROVE  \E j \in DOMAIN order' : order'[j].number = txBlock[t] /\ t \in order'[j].txs
      OBVIOUS
    <3>1. PICK k \in DOMAIN order : order[k].number = txBlock[t] /\ t \in order[k].txs
      BY DEF CacheOK, IndexBacked, EntriesBacked
    <3> QED BY <1>10, <3>1
  <2> QED BY <2>1, <2>2 DEF EntriesBacked
<1>12. HeightsOnce'
  BY <1>1, <1>6, <1>7, <1>8 DEF CacheOK, IndexBacked, HeightsOnce
<1> QED BY <1>1, <1>5, <1>6, <1>7, <1>11, <1>12 DEF CacheOK, IndexBacked

\* forget leaves a cache without this block, of blocks that were there.
LEMMA ForgetKeeps ==
    ASSUME CacheOK, NEW b \in Kept, Forget(b)
    PROVE  /\ CacheOK'
           /\ \A j \in DOMAIN order' : order'[j] # b /\ \E k \in DOMAIN order : order'[j] = order[k]
<1> DEFINE Gone == \E i \in Cached(b.number) : order[i] = b
<1>1. order \in Seq(Kept) /\ Len(order) \in Nat /\ DOMAIN order = 1 .. Len(order)
  BY LenProperties DEF CacheOK
<1>2. CASE ~Gone
  <2>1. UNCHANGED <<order, hashBlock, txBlock>>
    BY <1>2 DEF Forget
  <2>2. \A j \in DOMAIN order : order[j] # b
    BY <1>2 DEF Cached
  <2> QED BY <2>1, <2>2 DEF CacheOK, IndexBacked, EntriesBacked, HeightsOnce
<1>3. CASE Gone
  <2> DEFINE i == CHOOSE i \in Cached(b.number) : TRUE
             r == Seqs!RemoveAt(order, i)
             g(j) == IF j < i THEN j ELSE j + 1
             at(k) == IF k < i THEN k ELSE k - 1
  <2>1. i \in Cached(b.number)
    BY <1>3
  <2>2. order' = r /\ Drop({b}, hashBlock, txBlock)
    BY <1>3 DEF Forget
  <2> HIDE DEF i
  <2>3. i \in 1 .. Len(order) /\ order[i] = b
    BY <1>1, <1>3, <2>1 DEF Cached, CacheOK, IndexBacked, HeightsOnce
  <2>4. r \in Seq(Kept) /\ Len(r) = Len(order) - 1 /\ \A j \in 1 .. Len(order) - 1 : r[j] = order[g(j)]
    BY <1>1, <2>3, Removed
  <2> HIDE DEF r
  <2>5. DOMAIN order' = 1 .. Len(order) - 1 /\ Len(order') = Len(order) - 1
    BY <2>2, <2>4, LenProperties
  <2>6. \A j, k \in 1 .. Len(order) - 1 : g(j) \in 1 .. Len(order) /\ g(j) # i /\ (g(j) = g(k) => j = k)
    BY <1>1, <2>3
  <2>7. \A k \in 1 .. Len(order) : k # i => at(k) \in 1 .. Len(order) - 1 /\ g(at(k)) = k
    BY <1>1, <2>3
  <2> HIDE DEF g, at
  <2>8. \A k \in DOMAIN order : k # i => \E j \in DOMAIN order' : order'[j] = order[k]
    BY <1>1, <2>2, <2>4, <2>5, <2>7
  <2>9. /\ hashBlock' = [x \in DOMAIN hashBlock \ {b.hash} |-> hashBlock[x]]
        /\ txBlock' = [x \in DOMAIN txBlock \ b.txs |-> txBlock[x]]
    BY <2>2 DEF Drop, Without
  <2>10. EntriesBacked'
    <3>1. \A h \in DOMAIN hashBlock' : \E j \in DOMAIN order' : order'[j].number = hashBlock'[h] /\ order'[j].hash = h
      <4> SUFFICES ASSUME NEW h \in DOMAIN hashBlock'
                   PROVE  \E j \in DOMAIN order' : order'[j].number = hashBlock'[h] /\ order'[j].hash = h
        OBVIOUS
      <4>1. h \in DOMAIN hashBlock /\ h # b.hash /\ hashBlock'[h] = hashBlock[h]
        BY <2>9
      <4>2. PICK k \in DOMAIN order : order[k].number = hashBlock[h] /\ order[k].hash = h
        BY <4>1 DEF CacheOK, IndexBacked, EntriesBacked
      <4> QED BY <2>3, <2>8, <4>1, <4>2
    <3>2. \A t \in DOMAIN txBlock' : \E j \in DOMAIN order' : order'[j].number = txBlock'[t] /\ t \in order'[j].txs
      <4> SUFFICES ASSUME NEW t \in DOMAIN txBlock'
                   PROVE  \E j \in DOMAIN order' : order'[j].number = txBlock'[t] /\ t \in order'[j].txs
        OBVIOUS
      <4>1. t \in DOMAIN txBlock /\ t \notin b.txs /\ txBlock'[t] = txBlock[t]
        BY <2>9
      <4>2. PICK k \in DOMAIN order : order[k].number = txBlock[t] /\ t \in order[k].txs
        BY <4>1 DEF CacheOK, IndexBacked, EntriesBacked
      <4> QED BY <2>3, <2>8, <4>1, <4>2
    <3> QED BY <3>1, <3>2 DEF EntriesBacked
  <2>11. HeightsOnce'
    BY <1>1, <2>2, <2>4, <2>5, <2>6 DEF CacheOK, IndexBacked, HeightsOnce
  <2>12. \A j \in DOMAIN order' : order'[j] # b /\ \E k \in DOMAIN order : order'[j] = order[k]
    <3> SUFFICES ASSUME NEW j \in DOMAIN order' PROVE order'[j] # b /\ \E k \in DOMAIN order : order'[j] = order[k]
      OBVIOUS
    <3>1. order'[j] = order[g(j)] /\ g(j) \in DOMAIN order /\ g(j) # i
      BY <1>1, <2>2, <2>4, <2>5, <2>6
    <3>2. order[g(j)].number # b.number
      BY <1>1, <2>3, <3>1 DEF CacheOK, IndexBacked, HeightsOnce
    <3> QED BY <3>1, <3>2
  <2>13. hashBlock' \in [DOMAIN hashBlock' -> NodeBlock] /\ txBlock' \in [DOMAIN txBlock' -> NodeBlock]
    BY <2>9 DEF CacheOK
  <2>14. Len(order') <= MaxBlocks
    BY <1>1, <2>5, LookupAssumption DEF CacheOK, IndexBacked
  <2> QED BY <2>2, <2>4, <2>10, <2>11, <2>12, <2>13, <2>14 DEF CacheOK, IndexBacked
<1> QED BY <1>2, <1>3
\* Eviction keeps as many blocks from the front as the bound allows, or fewer.
LEMMA EvictedPrefix ==
    ASSUME NEW o \in Seq(Kept)
    PROVE  \E m \in 0 .. Len(o) : m <= MaxBlocks /\ Evicted(o) = SubSeq(o, 1, m)
<1> DEFINE fits(n) == n <= MaxBlocks /\ (Bytes(SubSeq(o, 1, n)) <= MaxTxs \/ n <= 1)
           F == {n \in 0 .. Len(o) : fits(n)}
<1>1. Len(o) \in Nat /\ F \in SUBSET (0 .. Len(o))
  BY LenProperties
<1>2. 0 \in F
  BY <1>1, LookupAssumption
<1>3. PICK m \in F : \A n \in F : n <= m
  <2> HIDE DEF F
  <2> QED BY <1>1, <1>2, GreatestNatural
<1>4. Max(F) \in F
  <2>1. \A n \in F : m >= n
    BY <1>1, <1>3
  <2> HIDE DEF F
  <2> QED BY <1>3, <2>1 DEF Max
<1>5. Evicted(o) = SubSeq(o, 1, Max(F))
  BY DEF Evicted
<1> QED BY <1>4, <1>5

\* store leaves a cache of this block and blocks that were there.
LEMMA StoreKeeps ==
    ASSUME CacheOK, NEW b \in Kept, Store(b)
    PROVE  /\ CacheOK'
           /\ \A j \in DOMAIN order' : order'[j] = b \/ \E k \in DOMAIN order : order'[j] = order[k]
<1>1. order \in Seq(Kept) /\ Len(order) \in Nat /\ DOMAIN order = 1 .. Len(order)
  BY LenProperties DEF CacheOK
<1>2. CASE Cached(b.number) # {}
  <2>1. UNCHANGED <<order, hashBlock, txBlock>>
    BY <1>2 DEF Store
  <2> QED BY <2>1 DEF CacheOK, IndexBacked, EntriesBacked, HeightsOnce
<1>3. CASE Cached(b.number) = {}
  <2> DEFINE full == <<b>> \o order
             gone == Seqs!ToSet(full) \ Seqs!ToSet(order')
  <2>1. full \in Seq(Kept) /\ Len(full) = Len(order) + 1 /\ full[1] = b /\ \A j \in 1 .. Len(order) : full[j + 1] = order[j]
    BY <1>1, Pushed
  <2>2. /\ order' = Evicted(full)
        /\ Drop(gone, [x \in DOMAIN hashBlock \cup {b.hash} |-> IF x = b.hash THEN b.number ELSE hashBlock[x]],
                      [x \in DOMAIN txBlock \cup b.txs |-> IF x \in b.txs THEN b.number ELSE txBlock[x]])
    BY <1>3 DEF Store
  <2> HIDE DEF full
  <2>3. PICK m \in 0 .. Len(full) : m <= MaxBlocks /\ order' = SubSeq(full, 1, m)
    BY <2>1, <2>2, EvictedPrefix
  <2>4. DOMAIN full = 1 .. Len(order) + 1 /\ \A j \in 1 .. Len(order) + 1 : full[j] \in Kept
    BY <2>1, LenProperties
  <2>5. order' \in Seq(Kept) /\ Len(order') = m /\ DOMAIN order' = 1 .. m /\ \A j \in 1 .. m : order'[j] = full[j]
    <3>1. \A j \in 1 .. m : full[j] \in Kept
      BY <1>1, <2>1, <2>3, <2>4
    <3>2. /\ SubSeq(full, 1, m) \in Seq(Kept) /\ Len(SubSeq(full, 1, m)) = IF 1 <= m THEN m - 1 + 1 ELSE 0
          /\ \A j \in 1 .. m - 1 + 1 : SubSeq(full, 1, m)[j] = full[1 + j - 1]
      BY <3>1, SubSeqProperties
    <3>3. Len(order') = m /\ order' \in Seq(Kept) /\ \A j \in 1 .. m : order'[j] = full[j]
      BY <1>1, <2>1, <2>3, <3>2
    <3> QED BY <3>3, LenProperties
  <2>6. \A j \in 1 .. Len(order) + 1 : (full[j] = b /\ j = 1) \/ (j - 1 \in DOMAIN order /\ full[j] = order[j - 1])
    BY <1>1, <2>1
  <2>7. m <= Len(order) + 1
    BY <1>1, <2>1, <2>3
  <2>8. \A j \in DOMAIN order' : order'[j] = b \/ \E k \in DOMAIN order : order'[j] = order[k]
    <3> SUFFICES ASSUME NEW j \in DOMAIN order' PROVE order'[j] = b \/ \E k \in DOMAIN order : order'[j] = order[k]
      OBVIOUS
    <3>1. j \in 1 .. Len(order) + 1 /\ order'[j] = full[j]
      BY <1>1, <2>3, <2>5, <2>7
    <3> QED BY <2>6, <3>1
  <2>9. \A j, k \in 1 .. Len(order) + 1 : full[j].number = full[k].number => j = k
    <3>1. \A k \in DOMAIN order : order[k].number # b.number
      BY <1>3 DEF Cached
    <3>2. \A j, k \in DOMAIN order : order[j].number = order[k].number => j = k
      BY DEF CacheOK, IndexBacked, HeightsOnce
    <3> SUFFICES ASSUME NEW j \in 1 .. Len(order) + 1, NEW k \in 1 .. Len(order) + 1, full[j].number = full[k].number
                 PROVE  j = k
      OBVIOUS
    <3>3. CASE full[j] = b /\ j = 1
      BY <2>6, <3>1, <3>3
    <3>4. CASE full[k] = b /\ k = 1
      BY <2>6, <3>1, <3>4
    <3>5. CASE j - 1 \in DOMAIN order /\ full[j] = order[j - 1] /\ k - 1 \in DOMAIN order /\ full[k] = order[k - 1]
      <4>1. j - 1 = k - 1
        BY <3>2, <3>5
      <4> QED BY <1>1, <4>1
    <3> QED BY <2>6, <3>3, <3>4, <3>5
  <2>10. HeightsOnce'
    BY <1>1, <2>5, <2>7, <2>9 DEF HeightsOnce
  <2>11. Seqs!ToSet(full) = {b} \cup {order[k] : k \in DOMAIN order}
    <3>1. Seqs!ToSet(full) = {full[j] : j \in 1 .. Len(order) + 1}
      BY <2>4 DEF Seqs!ToSet
    <3>2. \A k \in DOMAIN order : k + 1 \in 1 .. Len(order) + 1 /\ full[k + 1] = order[k]
      BY <1>1, <2>1
    <3>3. 1 \in 1 .. Len(order) + 1
      BY <1>1
    <3> QED BY <2>1, <2>6, <3>1, <3>2, <3>3
  <2>12. Seqs!ToSet(order') = {order'[j] : j \in DOMAIN order'}
    BY DEF Seqs!ToSet
  <2>13. \A c \in {b} \cup {order[k] : k \in DOMAIN order} : c \notin gone => \E j \in DOMAIN order' : order'[j] = c
    BY <2>11, <2>12
  <2> HIDE DEF gone
  <2>14. /\ hashBlock' = [x \in (DOMAIN hashBlock \cup {b.hash}) \ {c.hash : c \in gone} |->
                            IF x = b.hash THEN b.number ELSE hashBlock[x]]
         /\ txBlock' = [x \in (DOMAIN txBlock \cup b.txs) \ UNION {c.txs : c \in gone} |->
                            IF x \in b.txs THEN b.number ELSE txBlock[x]]
    BY <2>2 DEF Drop, Without
  <2>15. EntriesBacked'
    <3>1. \A h \in DOMAIN hashBlock' : \E j \in DOMAIN order' : order'[j].number = hashBlock'[h] /\ order'[j].hash = h
      <4> SUFFICES ASSUME NEW h \in DOMAIN hashBlock'
                   PROVE  \E j \in DOMAIN order' : order'[j].number = hashBlock'[h] /\ order'[j].hash = h
        OBVIOUS
      <4>1. /\ h \in DOMAIN hashBlock \cup {b.hash} /\ h \notin {c.hash : c \in gone}
            /\ hashBlock'[h] = IF h = b.hash THEN b.number ELSE hashBlock[h]
        BY <2>14
      <4>2. CASE h = b.hash
        BY <2>13, <4>1, <4>2
      <4>3. CASE h # b.hash
        <5>1. PICK k \in DOMAIN order : order[k].number = hashBlock[h] /\ order[k].hash = h
          BY <4>1, <4>3 DEF CacheOK, IndexBacked, EntriesBacked
        <5> QED BY <2>13, <4>1, <4>3, <5>1
      <4> QED BY <4>2, <4>3
    <3>2. \A t \in DOMAIN txBlock' : \E j \in DOMAIN order' : order'[j].number = txBlock'[t] /\ t \in order'[j].txs
      <4> SUFFICES ASSUME NEW t \in DOMAIN txBlock'
                   PROVE  \E j \in DOMAIN order' : order'[j].number = txBlock'[t] /\ t \in order'[j].txs
        OBVIOUS
      <4>1. /\ t \in DOMAIN txBlock \cup b.txs /\ t \notin UNION {c.txs : c \in gone}
            /\ txBlock'[t] = IF t \in b.txs THEN b.number ELSE txBlock[t]
        BY <2>14
      <4>2. CASE t \in b.txs
        BY <2>13, <4>1, <4>2
      <4>3. CASE t \notin b.txs
        <5>1. PICK k \in DOMAIN order : order[k].number = txBlock[t] /\ t \in order[k].txs
          BY <4>1, <4>3 DEF CacheOK, IndexBacked, EntriesBacked
        <5> QED BY <2>13, <4>1, <4>3, <5>1
      <4> QED BY <4>2, <4>3
    <3> QED BY <3>1, <3>2 DEF EntriesBacked
  <2>16. hashBlock' \in [DOMAIN hashBlock' -> NodeBlock] /\ txBlock' \in [DOMAIN txBlock' -> NodeBlock]
    <3>1. b.number \in NodeBlock
      BY DEF Kept, Hit
    <3> QED BY <2>14, <3>1 DEF CacheOK
  <2> QED BY <2>3, <2>5, <2>8, <2>10, <2>15, <2>16 DEF CacheOK, IndexBacked
<1> QED BY <1>2, <1>3

\* A fetched block finds a copy that neither the cache nor a request holds: there are more than both can hold.
LEMMA FreshCopy ==
    ASSUME LookShape, CacheOK
    PROVE  Min({k \in Copies : /\ \A i \in DOMAIN order : order[i].copy # k
                               /\ \A a \in Asker : req[a].block.copy # k}) \in Copies
<1> DEFINE C == Cardinality(Asker)
           inOrder == {order[i].copy : i \in DOMAIN order}
           inReq == {req[a].block.copy : a \in Asker}
           free == {k \in Copies : /\ \A i \in DOMAIN order : order[i].copy # k
                                   /\ \A a \in Asker : req[a].block.copy # k}
<1>1. C \in Nat /\ IsFiniteSet(Asker) /\ MaxBlocks \in Nat
  BY LookupAssumption, FS_CardinalityType
<1>2. Len(order) \in Nat /\ DOMAIN order = 1 .. Len(order) /\ Len(order) <= MaxBlocks
  BY LenProperties DEF CacheOK, IndexBacked
<1>3. IsFiniteSet(DOMAIN order) /\ Cardinality(DOMAIN order) = Len(order)
  <2>1. IsFiniteSet(1 .. Len(order)) /\ Cardinality(1 .. Len(order)) = IF 1 > Len(order) THEN 0 ELSE Len(order) - 1 + 1
    BY <1>2, FS_Interval
  <2> QED BY <1>2, <2>1
<1>4. IsFiniteSet(inOrder) /\ Cardinality(inOrder) <= Len(order) /\ Cardinality(inOrder) \in Nat
  <2>1. IsFiniteSet(inOrder) /\ Cardinality(inOrder) <= Cardinality(DOMAIN order)
    <3>1. [i \in DOMAIN order |-> order[i].copy] \in Surjection(DOMAIN order, inOrder)
      BY DEF Surjection
    <3> QED BY <1>3, <3>1, FS_Surjection
  <2> QED BY <1>3, <2>1, FS_CardinalityType
<1>5. IsFiniteSet(inReq) /\ Cardinality(inReq) <= C /\ Cardinality(inReq) \in Nat
  <2>1. IsFiniteSet(inReq) /\ Cardinality(inReq) <= C
    <3>1. [a \in Asker |-> req[a].block.copy] \in Surjection(Asker, inReq)
      BY DEF Surjection
    <3> QED BY <1>1, <3>1, FS_Surjection
  <2> QED BY <2>1, FS_CardinalityType
<1> HIDE DEF inOrder, inReq
<1>6. IsFiniteSet(inOrder \cup inReq) /\ Cardinality(inOrder \cup inReq) <= MaxBlocks + C
  <2>1. IsFiniteSet(inOrder \cup inReq) /\ IsFiniteSet(inOrder \cap inReq)
    BY <1>4, <1>5, FS_Union, FS_Intersection
  <2>2. Cardinality(inOrder \cup inReq) = Cardinality(inOrder) + Cardinality(inReq) - Cardinality(inOrder \cap inReq)
    BY <1>4, <1>5, FS_Union
  <2>3. Cardinality(inOrder \cap inReq) \in Nat
    BY <2>1, FS_CardinalityType
  <2> QED BY <1>1, <1>2, <1>4, <1>5, <2>1, <2>2, <2>3
<1>7. Cardinality(Copies) = C + MaxBlocks + 1 /\ IsFiniteSet(Copies) /\ Copies \subseteq Nat
  <2>1. Copies = 1 .. C + MaxBlocks + 1
    BY DEF Copies
  <2>2. C + MaxBlocks + 1 \in Nat
    BY <1>1
  <2>3. IsFiniteSet(1 .. C + MaxBlocks + 1) /\ Cardinality(1 .. C + MaxBlocks + 1) = IF 1 > C + MaxBlocks + 1 THEN 0 ELSE (C + MaxBlocks + 1) - 1 + 1
    BY <2>2, FS_Interval
  <2> QED BY <1>1, <2>1, <2>3
<1>8. ~(Copies \subseteq inOrder \cup inReq)
  <2>1. Copies \subseteq inOrder \cup inReq => Cardinality(Copies) <= Cardinality(inOrder \cup inReq)
    BY <1>6, FS_Subset
  <2>2. Cardinality(inOrder \cup inReq) \in Nat
    BY <1>6, FS_CardinalityType
  <2> QED BY <1>1, <1>6, <1>7, <2>1, <2>2
<1>9. free # {} /\ free \subseteq Copies
  BY <1>8 DEF inOrder, inReq
<1> HIDE DEF free
<1>10. PICK n \in free : \A k \in free : n <= k
  BY <1>7, <1>9, LeastNatural
<1>11. Min(free) \in free
  BY <1>10 DEF Min
<1> QED BY <1>9, <1>11 DEF free
-----------------------------------------------------------------------------
(* What several actions need *)

\* A request that moves on is a request.
LEMMA Moved ==
    ASSUME NEW r \in Request, NEW s \in Step
    PROVE  /\ [r EXCEPT !.step = s] \in Request
           /\ \A n \in NodeBlock \cup {0} : [r EXCEPT !.step = s, !.number = n] \in Request
           /\ \A w \in Answer : [r EXCEPT !.step = s, !.answer = w] \in Request
           /\ \A b \in Kept \cup {NoBlock} : [r EXCEPT !.step = s, !.block = b] \in Request
           /\ \A b \in Kept \cup {NoBlock}, w \in Answer : [r EXCEPT !.step = s, !.block = b, !.answer = w] \in Request
<1>1. [r EXCEPT !.step = s] \in Request
  BY DEF Request
<1>2. ASSUME NEW n \in NodeBlock \cup {0} PROVE [r EXCEPT !.step = s, !.number = n] \in Request
  BY DEF Request
<1>3. ASSUME NEW w \in Answer PROVE [r EXCEPT !.step = s, !.answer = w] \in Request
  BY DEF Request
<1>4. ASSUME NEW b \in Kept \cup {NoBlock} PROVE [r EXCEPT !.step = s, !.block = b] \in Request
  BY DEF Request
<1>5. ASSUME NEW b \in Kept \cup {NoBlock}, NEW w \in Answer
      PROVE  [r EXCEPT !.step = s, !.block = b, !.answer = w] \in Request
  BY DEF Request
<1> QED BY <1>1, <1>2, <1>3, <1>4, <1>5

\* The cache is as good when nothing of it changes.
LEMMA CacheSame ==
    ASSUME CacheOK, UNCHANGED cacheVars
    PROVE  CacheOK'
BY DEF cacheVars, CacheOK, IndexBacked, EntriesBacked, HeightsOnce

\* A trouble is spent.
LEMMA Spent ==
    ASSUME LookShape, NEW t \in {"busy", "errors", "settles"}, SpendLook(t)
    PROVE  lookLeft' \in [wanted : [Asker -> SUBSET Wants], busy : Nat, errors : Nat, settles : Nat]
<1>1. CASE t = "busy"
  BY <1>1 DEF LookShape, SpendLook
<1>2. CASE t = "errors"
  BY <1>2 DEF LookShape, SpendLook
<1>3. CASE t = "settles"
  BY <1>3 DEF LookShape, SpendLook
<1> QED BY <1>1, <1>2, <1>3

\* The slots in use are finitely many.
LEMMA SlotsFinite ==
    /\ IsFiniteSet(InNode) /\ Cardinality(InNode) \in Nat
    /\ IsFiniteSet(Resolving) /\ Cardinality(Resolving) \in Nat
<1>1. InNode \subseteq NodeBlock /\ Resolving \subseteq Asker
  BY DEF InNode, Resolving
<1>2. IsFiniteSet(InNode) /\ IsFiniteSet(Resolving)
  BY <1>1, LookupAssumption, FS_Subset
<1> QED BY <1>2, FS_CardinalityType

\* Nobody takes or frees a slot.
LEMMA SlotsSame ==
    ASSUME SlotsCounted, taken' = taken, InNode' = InNode, Resolving' = Resolving
    PROVE  SlotsCounted'
BY DEF SlotsCounted

\* A fetch takes a slot, or frees it.
LEMMA FetchSlot ==
    ASSUME SlotsCounted, NEW n, Resolving' = Resolving,
           \/ n \notin InNode /\ InNode' = InNode \cup {n} /\ taken < Concurrency /\ taken' = taken + 1
           \/ n \in InNode /\ InNode' = InNode \ {n} /\ taken' = taken - 1
    PROVE  SlotsCounted'
<1>1. CASE n \notin InNode /\ InNode' = InNode \cup {n} /\ taken < Concurrency /\ taken' = taken + 1
  <2>1. Cardinality(InNode') = Cardinality(InNode) + 1
    BY <1>1, SlotsFinite, FS_AddElement
  <2> QED BY <1>1, <2>1, SlotsFinite, LookupAssumption DEF SlotsCounted
<1>2. CASE n \in InNode /\ InNode' = InNode \ {n} /\ taken' = taken - 1
  <2>1. Cardinality(InNode') = Cardinality(InNode) - 1 /\ Cardinality(InNode') \in Nat
    BY <1>2, SlotsFinite, FS_RemoveElement, FS_CardinalityType
  <2> QED BY <1>2, <2>1, SlotsFinite, LookupAssumption DEF SlotsCounted
<1> QED BY <1>1, <1>2

\* A request takes a slot to find its height, or frees it.
LEMMA ResolveSlot ==
    ASSUME SlotsCounted, NEW a, InNode' = InNode,
           \/ a \notin Resolving /\ Resolving' = Resolving \cup {a} /\ taken < Concurrency /\ taken' = taken + 1
           \/ a \in Resolving /\ Resolving' = Resolving \ {a} /\ taken' = taken - 1
    PROVE  SlotsCounted'
<1>1. CASE a \notin Resolving /\ Resolving' = Resolving \cup {a} /\ taken < Concurrency /\ taken' = taken + 1
  <2>1. Cardinality(Resolving') = Cardinality(Resolving) + 1
    BY <1>1, SlotsFinite, FS_AddElement
  <2> QED BY <1>1, <2>1, SlotsFinite, LookupAssumption DEF SlotsCounted
<1>2. CASE a \in Resolving /\ Resolving' = Resolving \ {a} /\ taken' = taken - 1
  <2>1. Cardinality(Resolving') = Cardinality(Resolving) - 1 /\ Cardinality(Resolving') \in Nat
    BY <1>2, SlotsFinite, FS_RemoveElement, FS_CardinalityType
  <2> QED BY <1>2, <2>1, SlotsFinite, LookupAssumption DEF SlotsCounted
<1> QED BY <1>1, <1>2

-----------------------------------------------------------------------------
(* The actions of a request *)

LEMMA AskKeeps ==
    ASSUME LookInv, NEW a \in Asker, NEW want \in lookLeft.wanted[a], Ask(a, want)
    PROVE  LookInv'
<1> USE DEF LookInv
<1> DEFINE new == [NoReq EXCEPT !.want = want,
                                !.step = IF want.kind = "number" THEN "block" ELSE "resolve",
                                !.number = IF want.kind = "number" THEN want.of ELSE 0,
                                !.late = ~stale /\ \A n \in NodeBlock : ~fetches[n].old,
                                !.again = want.kind = "hash" /\ want.of \in missed]
<1>1. want \in Wants /\ (want.kind = "number" => want.of \in NodeBlock) /\ want.kind \in {"number", "hash", "tx"}
  BY LookupAssumption DEF LookShape
<1>2. /\ req[a].step = "idle" /\ req' = [req EXCEPT ![a] = new]
      /\ UNCHANGED <<cacheVars, fetches, taken, stale, missed>>
      /\ lookLeft' = [lookLeft EXCEPT !.wanted[a] = @ \ {want}]
  BY DEF Ask
<1>3. new.late = Settled /\ new.again = (want.kind = "hash" /\ want.of \in missed)
  BY DEF NoReq, Settled
<1>4. /\ new.want = want /\ new.answer = "none" /\ new.block = NoBlock
      /\ new.step = (IF want.kind = "number" THEN "block" ELSE "resolve")
      /\ new.number = (IF want.kind = "number" THEN want.of ELSE 0)
  BY DEF NoReq
<1>5. new \in Request
  BY <1>1, Zenon DEF NoReq, Request, Step, Answer
<1> HIDE DEF new
<1>6. LookShape'
  BY <1>1, <1>2, <1>5 DEF LookShape
<1>7. CacheOK'
  BY <1>2, CacheSame
<1>8. SlotsCounted'
  <2>1. InNode' = InNode /\ Resolving' = Resolving
    BY <1>2, <1>4 DEF InNode, Resolving, LookShape
  <2> QED BY <1>2, <2>1, SlotsSame
<1>9. FetchesOwned'
  BY <1>2 DEF FetchesOwned, LookShape
<1>10. ReqsOwned'
  BY <1>1, <1>2, <1>4 DEF ReqsOwned, LookShape
<1>11. LateMet'
  <2>1. req \in [Asker -> Request] /\ UNCHANGED <<order, fetches, stale, missed>>
    BY <1>2 DEF LookShape, cacheVars
  <2>2. \A c \in Asker : req'[c] = IF c = a THEN new ELSE req[c]
    BY <1>2, <2>1
  <2>3. Settled' <=> Settled
    BY <2>1 DEF Settled
  <2>4. ASSUME NEW c \in Asker
        PROVE  /\ req'[c].late => Settled'
               /\ req'[c].late /\ req'[c].step = "judge" /\ req'[c].block.hash[1] = "orphan" =>
                     \A i \in DOMAIN order' : order'[i].number = req'[c].number /\ order'[i].hash[1] = "orphan" => order'[i] = req'[c].block
    <3>1. CASE c = a
      <4>1. req'[c].late = Settled /\ req'[c].step # "judge"
        BY <1>3, <1>4, <2>2, <3>1
      <4> QED BY <2>3, <4>1
    <3>2. CASE c # a
      <4>1. req'[c] = req[c] /\ order' = order
        BY <2>1, <2>2, <3>2
      <4>2. /\ req[c].late => Settled
            /\ req[c].late /\ req[c].step = "judge" /\ req[c].block.hash[1] = "orphan" =>
                  \A i \in DOMAIN order : order[i].number = req[c].number /\ order[i].hash[1] = "orphan" => order[i] = req[c].block
        BY Zenon DEF LateMet
      <4>3. req'[c].late => Settled'
        BY <2>3, <4>1, <4>2
      <4> QED BY <4>1, <4>2, <4>3, Zenon
    <3> QED BY <3>1, <3>2
  <2>5. LateMet
    OBVIOUS
  <2> QED BY <2>1, <2>3, <2>4, <2>5, Zenon DEF LateMet
<1>12. AgainServed'
  BY <1>2, <1>3, <1>4 DEF AgainServed, LookShape
<1> QED BY <1>6, <1>7, <1>8, <1>9, <1>10, <1>11, <1>12
LEMMA ResolveFromIndexKeeps ==
    ASSUME LookInv, NEW a \in Asker, ResolveFromIndex(a)
    PROVE  LookInv'
<1> USE DEF LookInv
<1> DEFINE n == Index(req[a].want)[req[a].want.of]
<1>1. /\ req[a].step = "resolve" /\ req[a].want.of \in DOMAIN Index(req[a].want)
      /\ req' = [req EXCEPT ![a] = [req[a] EXCEPT !.step = "block", !.number = n]]
      /\ UNCHANGED <<cacheVars, fetches, taken, stale, lookLeft, missed>>
  BY DEF ResolveFromIndex
<1>2. req[a].want \in Wants /\ req[a].want.kind \in {"hash", "tx"}
  BY <1>1 DEF ReqsOwned
<1>3. n \in NodeBlock /\ (req[a].want.kind = "hash" => n = req[a].want.of[2])
  <2>1. CASE req[a].want.kind = "hash"
    <3>1. n = hashBlock[req[a].want.of] /\ req[a].want.of \in DOMAIN hashBlock
      BY <1>1, <2>1 DEF Index
    <3>2. PICK i \in DOMAIN order : order[i].number = n /\ order[i].hash = req[a].want.of
      BY <3>1 DEF CacheOK, IndexBacked, EntriesBacked
    <3>3. order[i] \in Kept
      BY <3>2 DEF CacheOK
    <3> QED BY <3>2, <3>3 DEF Kept, Hit
  <2>2. CASE req[a].want.kind = "tx"
    <3>1. n = txBlock[req[a].want.of] /\ req[a].want.of \in DOMAIN txBlock
      BY <1>1, <2>2 DEF Index
    <3> QED BY <2>2, <3>1 DEF CacheOK
  <2> QED BY <1>2, <2>1, <2>2
<1> HIDE DEF n
<1>4. LookShape'
  BY <1>1, <1>3, Moved DEF LookShape, Step
<1>5. CacheOK'
  BY <1>1, CacheSame
<1>6. SlotsCounted'
  <2>1. InNode' = InNode /\ Resolving' = Resolving
    BY <1>1 DEF InNode, Resolving, LookShape, Request
  <2> QED BY <1>1, <2>1, SlotsSame
<1>7. FetchesOwned'
  BY <1>1 DEF FetchesOwned, LookShape, Request
<1>8. ReqsOwned'
  BY <1>1, <1>2, <1>3 DEF ReqsOwned, LookShape, Request
<1>9. LateMet'
  BY <1>1 DEF LateMet, LookShape, Request, Settled, cacheVars
<1>10. AgainServed'
  BY <1>1 DEF AgainServed, LookShape, Request
<1> QED BY <1>4, <1>5, <1>6, <1>7, <1>8, <1>9, <1>10

LEMMA ResolveTakesSlotKeeps ==
    ASSUME LookInv, NEW a \in Asker, ResolveTakesSlot(a)
    PROVE  LookInv'
<1> USE DEF LookInv
<1>1. /\ req[a].step = "resolve" /\ taken < Concurrency /\ taken' = taken + 1
      /\ req' = [req EXCEPT ![a] = [req[a] EXCEPT !.step = "resolving"]]
      /\ UNCHANGED <<cacheVars, fetches, stale, lookLeft, missed>>
  BY DEF ResolveTakesSlot
<1>2. LookShape'
  BY <1>1, Moved DEF LookShape, Step
<1>3. CacheOK'
  BY <1>1, CacheSame
<1>4. SlotsCounted'
  <2>1. InNode' = InNode /\ Resolving' = Resolving \cup {a} /\ a \notin Resolving
    BY <1>1 DEF InNode, Resolving, LookShape, Request
  <2> QED BY <1>1, <2>1, ResolveSlot
<1>5. FetchesOwned'
  BY <1>1 DEF FetchesOwned, LookShape, Request
<1>6. ReqsOwned'
  BY <1>1 DEF ReqsOwned, LookShape, Request
<1>7. LateMet'
  BY <1>1 DEF LateMet, LookShape, Request, Settled, cacheVars
<1>8. AgainServed'
  BY <1>1 DEF AgainServed, LookShape, Request
<1> QED BY <1>2, <1>3, <1>4, <1>5, <1>6, <1>7, <1>8

LEMMA ResolveAnsweredKeeps ==
    ASSUME LookInv, NEW a \in Asker, ResolveAnswered(a)
    PROVE  LookInv'
<1> USE DEF LookInv
<1>1. /\ req[a].step = "resolving" /\ taken' = taken - 1
      /\ UNCHANGED <<cacheVars, fetches, stale, missed>>
  BY DEF ResolveAnswered, FreeSlot
<1>2. req[a].want \in Wants /\ req[a].want.kind \in {"hash", "tx"}
  BY <1>1 DEF ReqsOwned
<1>3. CacheOK'
  BY <1>1, CacheSame
<1> DEFINE Over(w) == [req[a] EXCEPT !.step = "done", !.answer = w]
           At(n) == [req[a] EXCEPT !.step = "block", !.number = n]
<1>4. \/ /\ lookLeft' = lookLeft
         /\ \/ /\ req' = [req EXCEPT ![a] = Over("missing")]
               /\ req[a].again => req[a].want.of[1] # "main"
            \/ \E n \in NodeBlock : /\ req' = [req EXCEPT ![a] = At(n)]
                                    /\ req[a].want.kind = "hash" => n = req[a].want.of[2]
      \/ SpendLook("errors") /\ req' = [req EXCEPT ![a] = Over("error")]
  <2>1. CASE \E v \in Views :
               LET at == Located(v, req[a].want) IN
               /\ req' = [req EXCEPT ![a] = IF at = {} THEN [@ EXCEPT !.step = "done", !.answer = "missing"]
                                            ELSE [@ EXCEPT !.step = "block", !.number = CHOOSE n \in at : TRUE]]
               /\ UNCHANGED lookLeft
    <3>1. PICK v \in Views :
               LET at == Located(v, req[a].want) IN
               /\ req' = [req EXCEPT ![a] = IF at = {} THEN [@ EXCEPT !.step = "done", !.answer = "missing"]
                                            ELSE [@ EXCEPT !.step = "block", !.number = CHOOSE n \in at : TRUE]]
               /\ UNCHANGED lookLeft
      BY <2>1
    <3> DEFINE at == Located(v, req[a].want)
    <3>2. req' = [req EXCEPT ![a] = IF at = {} THEN Over("missing") ELSE At(CHOOSE n \in at : TRUE)] /\ lookLeft' = lookLeft
      BY <3>1
    <3>3. at \subseteq NodeBlock /\ (req[a].want.kind = "hash" => \A n \in at : n = req[a].want.of[2])
      BY DEF Located
    <3>4. at = {} /\ req[a].again => req[a].want.of[1] # "main"
      <4> SUFFICES ASSUME at = {}, req[a].again, req[a].want.of[1] = "main" PROVE FALSE
        OBVIOUS
      <4>1. req[a].want.kind = "hash" /\ req[a].want.of \in missed
        BY DEF AgainServed
      <4>2. ~stale /\ req[a].want.of \in Hash
        BY <4>1 DEF LateMet, Settled
      <4>3. v = "main"
        BY <4>2 DEF Views
      <4>4. req[a].want.of[2] \in at
        BY <4>1, <4>2, <4>3 DEF Located, Hash
      <4> QED BY <4>4
    <3> HIDE DEF at
    <3>5. CASE at = {}
      BY <3>2, <3>4, <3>5
    <3>6. CASE at # {}
      <4>1. (CHOOSE n \in at : TRUE) \in at
        BY <3>6
      <4> QED BY <3>2, <3>3, <3>6, <4>1
    <3> QED BY <3>5, <3>6
  <2>2. CASE SpendLook("errors") /\ req' = [req EXCEPT ![a].step = "done", ![a].answer = "error"]
    BY <2>2
  <2> QED BY <2>1, <2>2 DEF ResolveAnswered
<1>5. lookLeft' \in [wanted : [Asker -> SUBSET Wants], busy : Nat, errors : Nat, settles : Nat]
  BY <1>4, Spent DEF LookShape
<1>6. CASE \E w \in {"missing", "error"} : /\ req' = [req EXCEPT ![a] = Over(w)]
                                           /\ w = "missing" /\ req[a].again => req[a].want.of[1] # "main"
  <2>1. PICK w \in {"missing", "error"} : /\ req' = [req EXCEPT ![a] = Over(w)]
                                          /\ w = "missing" /\ req[a].again => req[a].want.of[1] # "main"
    BY <1>6
  <2>2. LookShape'
    BY <1>1, <1>5, <2>1, Moved DEF LookShape, Step, Answer
  <2>3. SlotsCounted'
    <3>1. InNode' = InNode /\ Resolving' = Resolving \ {a} /\ a \in Resolving
      BY <1>1, <2>1 DEF InNode, Resolving, LookShape, Request
    <3> QED BY <1>1, <3>1, ResolveSlot
  <2>4. FetchesOwned'
    BY <1>1, <2>1 DEF FetchesOwned, LookShape, Request
  <2>5. ReqsOwned'
    BY <1>1, <2>1 DEF ReqsOwned, LookShape, Request
  <2>6. LateMet'
    BY <1>1, <2>1 DEF LateMet, LookShape, Request, Settled, cacheVars
  <2>7. AgainServed'
    BY <1>1, <2>1 DEF AgainServed, LookShape, Request
  <2> QED BY <1>3, <2>2, <2>3, <2>4, <2>5, <2>6, <2>7
<1>7. CASE \E n \in NodeBlock : req' = [req EXCEPT ![a] = At(n)] /\ (req[a].want.kind = "hash" => n = req[a].want.of[2])
  <2>1. PICK n \in NodeBlock : req' = [req EXCEPT ![a] = At(n)] /\ (req[a].want.kind = "hash" => n = req[a].want.of[2])
    BY <1>7
  <2>2. LookShape'
    BY <1>1, <1>5, <2>1, Moved DEF LookShape, Step, Answer
  <2>3. SlotsCounted'
    <3>1. InNode' = InNode /\ Resolving' = Resolving \ {a} /\ a \in Resolving
      BY <1>1, <2>1 DEF InNode, Resolving, LookShape, Request
    <3> QED BY <1>1, <3>1, ResolveSlot
  <2>4. FetchesOwned'
    BY <1>1, <2>1 DEF FetchesOwned, LookShape, Request
  <2>5. ReqsOwned'
    BY <1>1, <1>2, <2>1 DEF ReqsOwned, LookShape, Request
  <2>6. LateMet'
    BY <1>1, <2>1 DEF LateMet, LookShape, Request, Settled, cacheVars
  <2>7. AgainServed'
    BY <1>1, <2>1 DEF AgainServed, LookShape, Request
  <2> QED BY <1>3, <2>2, <2>3, <2>4, <2>5, <2>6, <2>7
<1> QED BY <1>4, <1>6, <1>7
\* No fetch under way is a fetch record.
LEMMA NoFetchTyped == NoFetch \in FetchRecord /\ NoFetch.with = {} /\ NoFetch.step = "none" /\ NoFetch.old = FALSE
<1>1. NoFetch \in FetchRecord
  BY Zenon DEF NoFetch, FetchRecord
<1> QED BY <1>1 DEF NoFetch

\* A fetch is waited for by requests.
LEMMA Followers ==
    ASSUME LookShape, FetchesOwned, NEW n \in NodeBlock
    PROVE  /\ fetches[n] \in FetchRecord
           /\ \A a \in fetches[n].with : a \in Asker /\ req[a].step = "waiting" /\ req[a].number = n
<1>1. fetches[n] \in FetchRecord
  BY DEF LookShape
<1>2. fetches[n].with \subseteq Asker
  BY <1>1 DEF FetchRecord
<1> QED BY <1>1, <1>2 DEF FetchesOwned

\* The followers of a fetch are told w, and nobody else anything.
Told(n, w) ==
    \A a \in Asker :
        /\ a \notin fetches[n].with => req'[a] = req[a]
        /\ a \in fetches[n].with => /\ req'[a].step = "done" /\ req'[a].answer = w /\ req'[a].want = req[a].want
                                    /\ req'[a].late = req[a].late /\ req'[a].again = req[a].again

LEMMA TellsAnswer ==
    ASSUME LookShape, NEW n \in NodeBlock, NEW w \in Answer,
           req' = [a \in Asker |-> IF a \in fetches[n].with THEN [req[a] EXCEPT !.step = "done", !.answer = w] ELSE req[a]]
    PROVE  req' \in [Asker -> Request] /\ Told(n, w)
<1> SUFFICES ASSUME NEW a \in Asker
             PROVE  /\ req'[a] \in Request
                    /\ a \notin fetches[n].with => req'[a] = req[a]
                    /\ a \in fetches[n].with => /\ req'[a].step = "done" /\ req'[a].answer = w /\ req'[a].want = req[a].want
                                                /\ req'[a].late = req[a].late /\ req'[a].again = req[a].again
  BY Zenon DEF Told
<1>1. req[a] \in Request
  BY DEF LookShape
<1>2. [req[a] EXCEPT !.step = "done", !.answer = w] \in Request
  BY <1>1, Moved DEF Step
<1> QED BY <1>1, <1>2 DEF Request

LEMMA TellsNoBlock ==
    ASSUME LookShape, NEW n \in NodeBlock, NEW w \in Answer,
           req' = [a \in Asker |-> IF a \in fetches[n].with THEN [req[a] EXCEPT !.step = "done", !.block = NoBlock, !.answer = w]
                                   ELSE req[a]]
    PROVE  req' \in [Asker -> Request] /\ Told(n, w)
<1> SUFFICES ASSUME NEW a \in Asker
             PROVE  /\ req'[a] \in Request
                    /\ a \notin fetches[n].with => req'[a] = req[a]
                    /\ a \in fetches[n].with => /\ req'[a].step = "done" /\ req'[a].answer = w /\ req'[a].want = req[a].want
                                                /\ req'[a].late = req[a].late /\ req'[a].again = req[a].again
  BY Zenon DEF Told
<1>1. req[a] \in Request
  BY DEF LookShape
<1>2. [req[a] EXCEPT !.step = "done", !.block = NoBlock, !.answer = w] \in Request
  BY <1>1, Moved DEF Step
<1> QED BY <1>1, <1>2 DEF Request

\* A fetch ends without a block for its followers.
LEMMA FetchFails ==
    ASSUME LookInv, NEW n \in NodeBlock, NEW w \in Answer,
           \A a \in fetches[n].with : w = "missing" /\ req[a].again => req[a].want.of[1] # "main",
           fetches' = [fetches EXCEPT ![n] = NoFetch],
           req' \in [Asker -> Request], Told(n, w),
           UNCHANGED <<cacheVars, stale, missed>>,
           lookLeft' \in [wanted : [Asker -> SUBSET Wants], busy : Nat, errors : Nat, settles : Nat]
    PROVE  /\ LookShape' /\ CacheOK' /\ FetchesOwned' /\ ReqsOwned' /\ LateMet' /\ AgainServed'
           /\ InNode' = InNode \ {n} /\ Resolving' = Resolving
<1> USE DEF LookInv
<1>2. \A a \in fetches[n].with : a \in Asker /\ req[a].step = "waiting" /\ req[a].number = n
  BY Followers
<1>3. LookShape'
  BY NoFetchTyped DEF LookShape
<1>4. CacheOK'
  BY CacheSame
<1>5. \A m \in NodeBlock : fetches'[m] = IF m = n THEN NoFetch ELSE fetches[m]
  BY DEF LookShape
<1>6. FetchesOwned'
  <2> SUFFICES ASSUME NEW m \in NodeBlock
               PROVE  /\ \A a \in fetches'[m].with : req'[a].step = "waiting" /\ req'[a].number = m
                      /\ fetches'[m].step = "receipts" => /\ fetches'[m].block \in Kept /\ fetches'[m].block.number = m
                                                          /\ fetches'[m].old \/ fetches'[m].block.hash[1] = "main"
                      /\ fetches'[m].old => fetches'[m].step = "receipts"
    BY Zenon DEF FetchesOwned
  <2>1. CASE m = n
    BY <1>5, <2>1, NoFetchTyped
  <2>2. CASE m # n
    <3>1. \A a \in fetches[m].with : a \in Asker /\ req[a].step = "waiting" /\ req[a].number = m
      BY Followers
    <3>2. \A a \in fetches[m].with : req'[a] = req[a]
      BY <1>2, <2>2, <3>1 DEF Told
    <3>3. fetches'[m] = fetches[m]
      BY <1>5, <2>2
    <3>4. /\ fetches[m].step = "receipts" => /\ fetches[m].block \in Kept /\ fetches[m].block.number = m
                                             /\ fetches[m].old \/ fetches[m].block.hash[1] = "main"
          /\ fetches[m].old => fetches[m].step = "receipts"
      BY DEF FetchesOwned
    <3> QED BY <3>1, <3>2, <3>3, <3>4
  <2> QED BY <2>1, <2>2
<1>7. ReqsOwned'
  BY DEF ReqsOwned, Told
<1>8. Settled => Settled'
  BY <1>5, NoFetchTyped DEF Settled
<1>9. LateMet'
  BY <1>8 DEF LateMet, cacheVars, Told
<1>10. AgainServed'
  BY DEF AgainServed, Told
<1>11. InNode' = InNode \ {n}
  BY <1>5, NoFetchTyped DEF InNode
<1>12. Resolving' = Resolving
  BY <1>2 DEF Resolving, Told
<1> QED BY <1>3, <1>4, <1>6, <1>7, <1>9, <1>10, <1>11, <1>12

LEMMA SlotBusyKeeps ==
    ASSUME LookInv, NEW a \in Asker, SlotBusy(a)
    PROVE  LookInv'
<1> USE DEF LookInv
<1>1. SpendLook("busy") /\ UNCHANGED <<cacheVars, taken, stale, missed>>
  BY DEF SlotBusy
<1>2. lookLeft' \in [wanted : [Asker -> SUBSET Wants], busy : Nat, errors : Nat, settles : Nat]
  BY <1>1, Spent
<1>3. CASE req[a].step = "resolve" /\ req' = [req EXCEPT ![a].step = "done", ![a].answer = "error"] /\ fetches' = fetches
  <2>1. req' = [req EXCEPT ![a] = [req[a] EXCEPT !.step = "done", !.answer = "error"]]
    BY <1>3
  <2>0. req[a].step = "resolve" /\ fetches' = fetches
    BY <1>3
  <2>2. LookShape'
    BY <1>1, <1>2, <2>0, <2>1, Moved DEF LookShape, Step, Answer
  <2>3. CacheOK'
    BY <1>1, CacheSame
  <2>4. SlotsCounted'
    <3>1. InNode' = InNode /\ Resolving' = Resolving
      BY <1>1, <2>0, <2>1 DEF InNode, Resolving, LookShape, Request
    <3> QED BY <1>1, <3>1, SlotsSame
  <2>5. FetchesOwned'
    BY <2>0, <2>1 DEF FetchesOwned, LookShape, Request
  <2>6. ReqsOwned'
    BY <1>1, <2>1 DEF ReqsOwned, LookShape, Request
  <2>7. LateMet'
    BY <1>1, <2>0, <2>1 DEF LateMet, LookShape, Request, Settled, cacheVars
  <2>8. AgainServed'
    BY <1>1, <2>1 DEF AgainServed, LookShape, Request
  <2> QED BY <2>2, <2>3, <2>4, <2>5, <2>6, <2>7, <2>8
<1>4. CASE \E n \in NodeBlock :
             /\ fetches[n].leader = a /\ fetches[n].step = "queued"
             /\ req' = [b \in Asker |-> IF b \in fetches[n].with THEN [req[b] EXCEPT !.step = "done", !.answer = "error"]
                                        ELSE req[b]]
             /\ fetches' = [fetches EXCEPT ![n] = NoFetch]
  <2>1. PICK n \in NodeBlock :
             /\ fetches[n].leader = a /\ fetches[n].step = "queued"
             /\ req' = [b \in Asker |-> IF b \in fetches[n].with THEN [req[b] EXCEPT !.step = "done", !.answer = "error"]
                                        ELSE req[b]]
             /\ fetches' = [fetches EXCEPT ![n] = NoFetch]
    BY <1>4
  <2>2. /\ LookShape' /\ CacheOK' /\ FetchesOwned' /\ ReqsOwned' /\ LateMet' /\ AgainServed'
        /\ InNode' = InNode \ {n} /\ Resolving' = Resolving
    <3>1. "error" \in Answer /\ "error" # "missing"
      BY DEF Answer
    <3>2. \A b \in fetches[n].with : "error" = "missing" /\ req[b].again => req[b].want.of[1] # "main"
      BY <3>1
    <3>3. req' \in [Asker -> Request] /\ Told(n, "error")
      BY <2>1, <3>1, TellsAnswer
    <3> QED BY <1>1, <1>2, <2>1, <3>1, <3>2, <3>3, FetchFails
  <2>3. InNode \ {n} = InNode
    BY <2>1 DEF InNode
  <2>4. SlotsCounted'
    BY <1>1, <2>2, <2>3, SlotsSame
  <2> QED BY <2>2, <2>4
<1> QED BY <1>3, <1>4 DEF SlotBusy

LEMMA CacheHitKeeps ==
    ASSUME LookInv, NEW a \in Asker, CacheHit(a)
    PROVE  LookInv'
<1> USE DEF LookInv
<1>1. PICK i \in Cached(req[a].number) :
        /\ order' = ToFront(i)
        /\ req' = [req EXCEPT ![a].step = "judge", ![a].block = order[i]]
  BY DEF CacheHit
<1>2. req[a].step = "block" /\ UNCHANGED <<hashBlock, txBlock, bytes, fetches, taken, stale, lookLeft, missed>>
  BY DEF CacheHit
<1>3. i \in DOMAIN order /\ order[i].number = req[a].number /\ order[i] \in Kept
  BY <1>1 DEF Cached, CacheOK
<1>4. req' = [req EXCEPT ![a] = [req[a] EXCEPT !.step = "judge", !.block = order[i]]]
  BY <1>1
<1>5. CacheOK' /\ \A j \in DOMAIN order' : \E k \in DOMAIN order : order'[j] = order[k]
  BY <1>1, <1>2, <1>3, FrontKeeps
<1>6. LookShape'
  BY <1>2, <1>3, <1>4, Moved DEF LookShape, Step
<1>7. SlotsCounted'
  <2>1. InNode' = InNode /\ Resolving' = Resolving
    BY <1>2, <1>4 DEF InNode, Resolving, LookShape, Request
  <2> QED BY <1>2, <2>1, SlotsSame
<1>8. FetchesOwned'
  BY <1>2, <1>4 DEF FetchesOwned, LookShape, Request
<1>9. ReqsOwned'
  BY <1>2, <1>3, <1>4 DEF ReqsOwned, LookShape, Request
<1>10. \A j \in DOMAIN order : order[j].number = order[i].number => order[j] = order[i]
  BY <1>3 DEF CacheOK, IndexBacked, HeightsOnce
<1>11. ASSUME NEW c \in Asker
       PROVE  /\ req'[c].late = req[c].late /\ req'[c].again = req[c].again /\ req'[c].want = req[c].want
              /\ req'[c].number = req[c].number /\ req'[c].answer = req[c].answer
              /\ c # a => req'[c] = req[c]
              /\ c = a => req'[c].block = order[i] /\ req'[c].step = "judge"
  BY <1>4 DEF LookShape, Request
<1>12. LateMet'
  <2>1. Settled' = Settled
    BY <1>2 DEF Settled
  <2>2. ASSUME NEW c \in Asker, req'[c].late, req'[c].step = "judge", req'[c].block.hash[1] = "orphan",
               NEW j \in DOMAIN order', order'[j].number = req'[c].number, order'[j].hash[1] = "orphan"
        PROVE  order'[j] = req'[c].block
    <3>1. PICK k \in DOMAIN order : order'[j] = order[k]
      BY <1>5, <2>2
    <3>2. CASE c = a
      BY <1>3, <1>10, <1>11, <2>2, <3>1, <3>2
    <3>3. CASE c # a
      BY <1>11, <2>2, <3>1, <3>3 DEF LateMet
    <3> QED BY <3>2, <3>3
  <2>3. \A h \in missed' : h[1] = "main" => \A j \in DOMAIN order' : order'[j].number = h[2] => order'[j].hash[1] = "main"
    BY <1>2, <1>5 DEF LateMet
  <2>4. \A c \in Asker : req'[c].late => Settled'
    BY <1>11, <2>1 DEF LateMet
  <2>5. (missed' # {} => Settled') /\ missed' \subseteq Hash
    BY <1>2, <2>1 DEF LateMet
  <2> QED BY <2>2, <2>3, <2>4, <2>5 DEF LateMet
<1>13. AgainServed'
  <2>1. req[a].again /\ req[a].want.of[1] = "main" => order[i].hash[1] = "main"
    <3> SUFFICES ASSUME req[a].again, req[a].want.of[1] = "main" PROVE order[i].hash[1] = "main"
      OBVIOUS
    <3>1. req[a].want.kind = "hash" /\ req[a].want.of \in missed /\ req[a].number = req[a].want.of[2]
      BY <1>2 DEF AgainServed, ReqsOwned
    <3> QED BY <1>3, <3>1 DEF LateMet
  <2> QED BY <1>2, <1>11, <2>1 DEF AgainServed
<1> QED BY <1>5, <1>6, <1>7, <1>8, <1>9, <1>12, <1>13
LEMMA CacheMissKeeps ==
    ASSUME LookInv, NEW a \in Asker, CacheMiss(a)
    PROVE  LookInv'
<1> USE DEF LookInv
<1>1. /\ req[a].step = "block" /\ req' = [req EXCEPT ![a] = [req[a] EXCEPT !.step = "fetch"]]
      /\ UNCHANGED <<cacheVars, fetches, taken, stale, lookLeft, missed>>
  BY DEF CacheMiss
<1>2. LookShape'
  BY <1>1, Moved DEF LookShape, Step
<1>3. CacheOK'
  BY <1>1, CacheSame
<1>4. SlotsCounted'
  <2>1. InNode' = InNode /\ Resolving' = Resolving
    BY <1>1 DEF InNode, Resolving, LookShape, Request
  <2> QED BY <1>1, <2>1, SlotsSame
<1>5. FetchesOwned'
  BY <1>1 DEF FetchesOwned, LookShape, Request
<1>6. ReqsOwned'
  BY <1>1 DEF ReqsOwned, LookShape, Request
<1>7. LateMet'
  BY <1>1 DEF LateMet, LookShape, Request, Settled, cacheVars
<1>8. AgainServed'
  BY <1>1 DEF AgainServed, LookShape, Request
<1> QED BY <1>2, <1>3, <1>4, <1>5, <1>6, <1>7, <1>8

LEMMA JoinFetchKeeps ==
    ASSUME LookInv, NEW a \in Asker, JoinFetch(a)
    PROVE  LookInv'
<1> USE DEF LookInv
<1> DEFINE n == req[a].number
           joined == IF fetches[n].step # "none" THEN [fetches[n] EXCEPT !.with = @ \cup {a}]
                     ELSE [NoFetch EXCEPT !.leader = a, !.with = {a}, !.step = "queued"]
<1>1. /\ req[a].step = "fetch" /\ req' = [req EXCEPT ![a] = [req[a] EXCEPT !.step = "waiting"]]
      /\ fetches' = [fetches EXCEPT ![n] = joined]
      /\ UNCHANGED <<cacheVars, taken, stale, lookLeft, missed>>
  BY DEF JoinFetch
<1>2. n \in NodeBlock
  BY <1>1 DEF ReqsOwned
<1>3. fetches[n] \in FetchRecord /\ \A c \in fetches[n].with : c \in Asker /\ req[c].step = "waiting" /\ req[c].number = n
  BY <1>2, Followers
<1>4. /\ joined \in FetchRecord
      /\ fetches[n].step # "none" => /\ joined.with = fetches[n].with \cup {a} /\ joined.step = fetches[n].step
                                     /\ joined.block = fetches[n].block /\ joined.old = fetches[n].old
      /\ fetches[n].step = "none" => joined.with = {a} /\ joined.step = "queued" /\ joined.old = FALSE
  <2>1. CASE fetches[n].step # "none"
    <3>1. joined = [fetches[n] EXCEPT !.with = fetches[n].with \cup {a}]
      BY <2>1
    <3> QED BY <1>3, <2>1, <3>1 DEF FetchRecord
  <2>2. CASE fetches[n].step = "none"
    <3>1. joined = [NoFetch EXCEPT !.leader = a, !.with = {a}, !.step = "queued"]
      BY <2>2
    <3>2. NoFetch \in FetchRecord /\ NoFetch.old = FALSE
      BY NoFetchTyped
    <3> QED BY <2>2, <3>1, <3>2 DEF FetchRecord
  <2> QED BY <2>1, <2>2
<1> HIDE DEF n, joined
<1>5. \A m \in NodeBlock : fetches'[m] = IF m = n THEN joined ELSE fetches[m]
  BY <1>1 DEF LookShape
<1>6. \A c \in Asker : /\ c # a => req'[c] = req[c]
                       /\ c = a => /\ req'[c].step = "waiting" /\ req'[c].number = n
                                   /\ req'[c].want = req[c].want /\ req'[c].late = req[c].late /\ req'[c].again = req[c].again
                                   /\ req'[c].answer = req[c].answer
  BY <1>1 DEF LookShape, Request, n
<1>7. LookShape'
  BY <1>1, <1>2, <1>4, Moved DEF LookShape, Step
<1>8. CacheOK'
  BY <1>1, CacheSame
<1>9. SlotsCounted'
  <2>1. InNode' = InNode
    BY <1>2, <1>4, <1>5 DEF InNode
  <2>2. Resolving' = Resolving
    BY <1>1, <1>6 DEF Resolving
  <2> QED BY <1>1, <2>1, <2>2, SlotsSame
<1>10. FetchesOwned'
  <2> SUFFICES ASSUME NEW m \in NodeBlock
               PROVE  /\ \A c \in fetches'[m].with : req'[c].step = "waiting" /\ req'[c].number = m
                      /\ fetches'[m].step = "receipts" => /\ fetches'[m].block \in Kept /\ fetches'[m].block.number = m
                                                          /\ fetches'[m].old \/ fetches'[m].block.hash[1] = "main"
                      /\ fetches'[m].old => fetches'[m].step = "receipts"
    BY Zenon DEF FetchesOwned
  <2>1. \A c \in fetches[m].with : c \in Asker /\ c # a /\ req'[c] = req[c] /\ req[c].step = "waiting" /\ req[c].number = m
    BY <1>1, <1>6, Followers
  <2>2. /\ fetches[m].step = "receipts" => /\ fetches[m].block \in Kept /\ fetches[m].block.number = m
                                           /\ fetches[m].old \/ fetches[m].block.hash[1] = "main"
        /\ fetches[m].old => fetches[m].step = "receipts"
    BY DEF FetchesOwned
  <2>3. CASE m = n
    BY <1>4, <1>5, <1>6, <2>1, <2>2, <2>3
  <2>4. CASE m # n
    BY <1>5, <2>1, <2>2, <2>4
  <2> QED BY <2>3, <2>4
<1>11. ReqsOwned'
  BY <1>1, <1>2, <1>6 DEF ReqsOwned, n
<1>12. Settled => Settled'
  BY <1>1, <1>2, <1>4, <1>5 DEF Settled
<1>13. LateMet'
  BY <1>1, <1>6, <1>12 DEF LateMet, cacheVars
<1>14. AgainServed'
  BY <1>1, <1>6 DEF AgainServed
<1> QED BY <1>7, <1>8, <1>9, <1>10, <1>11, <1>13, <1>14

LEMMA JudgeKeeps ==
    ASSUME LookInv, NEW a \in Asker, Judge(a)
    PROVE  LookInv'
<1> USE DEF LookInv
<1> DEFINE r == req[a]
<1>1. r.step = "judge" /\ UNCHANGED <<fetches, taken, stale, lookLeft>>
  BY DEF Judge
<1>2. PICK w \in {"served", "missing"} : req' = [req EXCEPT ![a] = [req[a] EXCEPT !.step = "done", !.answer = w]]
  BY DEF Judge
<1>3. \/ /\ UNCHANGED cacheVars /\ missed' = missed
         /\ w = "missing" => r.want.kind = "tx"
      \/ /\ w = "missing" /\ r.want.kind = "hash" /\ r.block.hash # r.want.of /\ Forget(r.block)
         /\ missed' = missed \cup {h \in {r.want.of} : r.late}
  <2>1. r \in Request
    BY DEF LookShape
  <2>2. ASSUME NEW v \in {"served", "missing"}, req' = [req EXCEPT ![a].step = "done", ![a].answer = v] PROVE v = w
    <3>1. req'[a] = [req[a] EXCEPT !.step = "done", !.answer = w]
      BY <1>2 DEF LookShape
    <3>2. req'[a] = [req[a] EXCEPT !.step = "done", !.answer = v]
      <4>1. req' = [req EXCEPT ![a] = [req[a] EXCEPT !.step = "done", !.answer = v]]
        BY <2>2 DEF LookShape
      <4> QED BY <4>1 DEF LookShape
    <3>3. \A x \in {"served", "missing"} : [req[a] EXCEPT !.step = "done", !.answer = x].answer = x
      BY <2>1 DEF Request
    <3> QED BY <3>1, <3>2, <3>3
  <2> QED BY <2>2 DEF Judge
<1>4. r \in Request /\ r.want \in Wants /\ r.block \in Kept /\ r.block.number = r.number
  BY <1>1 DEF LookShape, ReqsOwned
<1> HIDE DEF r
<1>5. \A c \in Asker : /\ c # a => req'[c] = req[c]
                       /\ c = a => /\ req'[c].step = "done" /\ req'[c].answer = w
                                   /\ req'[c].want = r.want /\ req'[c].late = r.late /\ req'[c].again = r.again
  BY <1>2 DEF LookShape, Request, r
<1>6. LookShape'
  BY <1>1, <1>2, Moved DEF LookShape, Step, Answer
<1>7. SlotsCounted'
  <2>1. InNode' = InNode /\ Resolving' = Resolving
    BY <1>1, <1>5 DEF InNode, Resolving, r
  <2> QED BY <1>1, <2>1, SlotsSame
<1>8. FetchesOwned'
  <2>1. \A n \in NodeBlock : \A c \in fetches[n].with : c \in Asker /\ c # a
    BY <1>1, Followers DEF r
  <2> QED BY <1>1, <1>5, <2>1 DEF FetchesOwned
<1>9. ReqsOwned'
  BY <1>5 DEF ReqsOwned
<1>10. Settled' = Settled
  BY <1>1 DEF Settled
<1>11. CASE UNCHANGED cacheVars /\ missed' = missed /\ (w = "missing" => r.want.kind = "tx")
  <2>1. CacheOK'
    BY <1>11, CacheSame
  <2>2. LateMet'
    BY <1>5, <1>10, <1>11 DEF LateMet, cacheVars, r
  <2>3. AgainServed'
    BY <1>5, <1>11 DEF AgainServed, r
  <2> QED BY <1>6, <1>7, <1>8, <1>9, <2>1, <2>2, <2>3
<1>12. CASE /\ w = "missing" /\ r.want.kind = "hash" /\ r.block.hash # r.want.of /\ Forget(r.block)
            /\ missed' = missed \cup {h \in {r.want.of} : r.late}
  <2>1. CacheOK' /\ \A j \in DOMAIN order' : order'[j] # r.block /\ \E k \in DOMAIN order : order'[j] = order[k]
    BY <1>4, <1>12, ForgetKeeps
  <2>2. r.want.of \in Hash /\ r.want.of[2] = r.number
    BY <1>1, <1>4, <1>12, LookupAssumption DEF ReqsOwned, r
  <2>3. r.block.hash \in Hash /\ r.block.hash[2] = r.number
    BY <1>4 DEF Kept, Hit
  <2>4. r.want.of[1] = "main" => r.block.hash[1] = "orphan"
    BY <1>12, <2>2, <2>3 DEF Hash, View
  <2>5. LateMet'
    <3>1. \A c \in Asker : req'[c].late => Settled'
      BY <1>5, <1>10 DEF LateMet, r
    <3>2. (missed' # {} => Settled') /\ missed' \subseteq Hash
      BY <1>10, <1>12, <2>2 DEF LateMet, r
    <3>3. \A c \in Asker : req'[c].late /\ req'[c].step = "judge" /\ req'[c].block.hash[1] = "orphan" =>
            \A j \in DOMAIN order' : order'[j].number = req'[c].number /\ order'[j].hash[1] = "orphan" => order'[j] = req'[c].block
      BY <1>5, <2>1 DEF LateMet
    <3>4. ASSUME NEW h \in missed', h[1] = "main", NEW j \in DOMAIN order', order'[j].number = h[2]
          PROVE  order'[j].hash[1] = "main"
      <4>1. PICK k \in DOMAIN order : order'[j] = order[k] /\ order'[j] # r.block
        BY <2>1
      <4>2. CASE h \in missed
        BY <3>4, <4>1, <4>2 DEF LateMet
      <4>3. CASE h \notin missed
        <5>1. h = r.want.of /\ r.late
          BY <1>12, <4>3
        <5>2. order[k].hash[1] # "orphan"
          BY <1>1, <2>2, <2>4, <3>4, <4>1, <5>1 DEF LateMet, r
        <5>3. order[k] \in Kept
          BY <4>1 DEF CacheOK
        <5>4. order[k].hash[1] \in View
          BY <5>3 DEF Kept, Hit, Hash
        <5> QED BY <4>1, <5>2, <5>4 DEF View
      <4> QED BY <4>2, <4>3
    <3> QED BY <3>1, <3>2, <3>3, <3>4 DEF LateMet
  <2>6. AgainServed'
    <3>1. r.again => r.want.of[1] # "main"
      BY <1>1, <2>4 DEF AgainServed, r
    <3> QED BY <1>5, <1>12, <3>1 DEF AgainServed, r
  <2> QED BY <1>6, <1>7, <1>8, <1>9, <2>1, <2>5, <2>6
<1> QED BY <1>3, <1>11, <1>12

LEMMA TakenKeeps ==
    ASSUME LookInv, NEW a \in Asker, Taken(a)
    PROVE  LookInv'
<1> USE DEF LookInv
<1>1. /\ req[a].step = "done" /\ req' = [req EXCEPT ![a] = NoReq]
      /\ UNCHANGED <<cacheVars, fetches, taken, stale, lookLeft, missed>>
  BY DEF Taken
<1>2. NoReq \in Request
  BY Zenon DEF NoReq, Request, Step, Answer
<1>3. NoReq.step = "idle" /\ NoReq.late = FALSE /\ NoReq.again = FALSE
  BY DEF NoReq
<1>4. LookShape'
  BY <1>1, <1>2 DEF LookShape
<1>5. CacheOK'
  BY <1>1, CacheSame
<1>6. SlotsCounted'
  <2>1. InNode' = InNode /\ Resolving' = Resolving
    BY <1>1, <1>3 DEF InNode, Resolving, LookShape
  <2> QED BY <1>1, <2>1, SlotsSame
<1>7. FetchesOwned'
  BY <1>1 DEF FetchesOwned, LookShape
<1>8. ReqsOwned'
  BY <1>1, <1>3 DEF ReqsOwned, LookShape
<1>9. LateMet'
  BY <1>1, <1>3 DEF LateMet, LookShape, Settled, cacheVars
<1>10. AgainServed'
  BY <1>1, <1>3 DEF AgainServed, LookShape
<1> QED BY <1>4, <1>5, <1>6, <1>7, <1>8, <1>9, <1>10
-----------------------------------------------------------------------------
(* The actions of a fetch, and of the backends *)

LEMMA FetchTakesSlotKeeps ==
    ASSUME LookInv, NEW n \in NodeBlock, FetchTakesSlot(n)
    PROVE  LookInv'
<1> USE DEF LookInv
<1>1. /\ fetches[n].step = "queued" /\ taken < Concurrency /\ taken' = taken + 1
      /\ fetches' = [fetches EXCEPT ![n] = [fetches[n] EXCEPT !.step = "block"]]
      /\ UNCHANGED <<cacheVars, req, stale, lookLeft, missed>>
  BY DEF FetchTakesSlot
<1>2. fetches[n] \in FetchRecord
  BY DEF LookShape
<1>3. /\ [fetches[n] EXCEPT !.step = "block"] \in FetchRecord
      /\ \A m \in NodeBlock : /\ m # n => fetches'[m] = fetches[m]
                              /\ m = n => /\ fetches'[m].step = "block" /\ fetches'[m].with = fetches[n].with
                                          /\ fetches'[m].old = fetches[n].old
  BY <1>1, <1>2 DEF LookShape, FetchRecord
<1>4. LookShape'
  BY <1>1, <1>3 DEF LookShape
<1>5. CacheOK'
  BY <1>1, CacheSame
<1>6. SlotsCounted'
  <2>1. InNode' = InNode \cup {n} /\ n \notin InNode /\ Resolving' = Resolving
    BY <1>1, <1>3 DEF InNode, Resolving
  <2> QED BY <1>1, <2>1, FetchSlot
<1>7. FetchesOwned'
  BY <1>1, <1>3 DEF FetchesOwned
<1>8. ReqsOwned'
  BY <1>1 DEF ReqsOwned
<1>9. Settled => Settled'
  BY <1>1, <1>3 DEF Settled
<1>10. LateMet'
  BY <1>1, <1>9 DEF LateMet, cacheVars
<1>11. AgainServed'
  BY <1>1 DEF AgainServed
<1> QED BY <1>4, <1>5, <1>6, <1>7, <1>8, <1>10, <1>11

\* A block of the node is one that can be kept.
LEMMA NodesBlockKept ==
    ASSUME NEW v \in View, NEW n \in NodeBlock
    PROVE  NodesBlock(v, n) \in Kept /\ NodesBlock(v, n).number = n /\ NodesBlock(v, n).hash[1] = v
<1>1. 1 \in Copies
  BY LookupAssumption, FS_CardinalityType DEF Copies
<1>2. TxsAt(v, n) \subseteq LookTx
  BY DEF LookTx
<1> QED BY <1>1, <1>2 DEF NodesBlock, Kept, Hit, Hash

LEMMA FetchBlockKeeps ==
    ASSUME LookInv, NEW n \in NodeBlock, FetchBlock(n)
    PROVE  LookInv'
<1> USE DEF LookInv
<1>1. fetches[n].step = "block" /\ UNCHANGED <<cacheVars, taken, req, stale, lookLeft, missed>>
  BY DEF FetchBlock
<1>2. PICK v \in Views : fetches' = [fetches EXCEPT ![n].step = "receipts", ![n].block = NodesBlock(v, n), ![n].old = stale]
  BY DEF FetchBlock
<1>3. v \in View /\ (~stale => v = "main")
  BY <1>2 DEF Views, View
<1> DEFINE b == NodesBlock(v, n)
           got == [fetches[n] EXCEPT !.step = "receipts", !.block = b, !.old = stale]
<1>4. b \in Kept /\ b.number = n /\ b.hash[1] = v
  BY <1>3, NodesBlockKept
<1>5. fetches' = [fetches EXCEPT ![n] = got]
  BY <1>2
<1>6. fetches[n] \in FetchRecord /\ stale \in BOOLEAN
  BY DEF LookShape
<1> HIDE DEF b
<1>7. got \in FetchRecord /\ got.step = "receipts" /\ got.block = b /\ got.old = stale /\ got.with = fetches[n].with
  BY <1>4, <1>6 DEF FetchRecord
<1> HIDE DEF got
<1>8. \A m \in NodeBlock : fetches'[m] = IF m = n THEN got ELSE fetches[m]
  BY <1>5 DEF LookShape
<1>9. LookShape'
  BY <1>1, <1>5, <1>7 DEF LookShape
<1>10. CacheOK'
  BY <1>1, CacheSame
<1>11. SlotsCounted'
  <2>1. InNode' = InNode /\ Resolving' = Resolving
    BY <1>1, <1>7, <1>8 DEF InNode, Resolving
  <2> QED BY <1>1, <2>1, SlotsSame
<1>12. FetchesOwned'
  BY <1>1, <1>3, <1>4, <1>7, <1>8 DEF FetchesOwned
<1>13. ReqsOwned'
  BY <1>1 DEF ReqsOwned
<1>14. Settled => Settled'
  BY <1>1, <1>7, <1>8 DEF Settled
<1>15. LateMet'
  BY <1>1, <1>14 DEF LateMet, cacheVars
<1>16. AgainServed'
  BY <1>1 DEF AgainServed
<1> QED BY <1>9, <1>10, <1>11, <1>12, <1>13, <1>15, <1>16

\* The followers of a fetch have the block b to judge, and nobody else anything.
Shown(n, b) ==
    \A a \in Asker :
        /\ a \notin fetches[n].with => req'[a] = req[a]
        /\ a \in fetches[n].with => /\ req'[a].step = "judge" /\ req'[a].block = b /\ req'[a].answer = "none"
                                    /\ req'[a].want = req[a].want /\ req'[a].number = req[a].number
                                    /\ req'[a].late = req[a].late /\ req'[a].again = req[a].again

LEMMA ShowsBlock ==
    ASSUME LookShape, NEW n \in NodeBlock, NEW b \in Kept,
           req' = [a \in Asker |-> IF a \in fetches[n].with THEN [req[a] EXCEPT !.step = "judge", !.block = b, !.answer = "none"]
                                   ELSE req[a]]
    PROVE  req' \in [Asker -> Request] /\ Shown(n, b)
<1> SUFFICES ASSUME NEW a \in Asker
             PROVE  /\ req'[a] \in Request
                    /\ a \notin fetches[n].with => req'[a] = req[a]
                    /\ a \in fetches[n].with => /\ req'[a].step = "judge" /\ req'[a].block = b /\ req'[a].answer = "none"
                                                /\ req'[a].want = req[a].want /\ req'[a].number = req[a].number
                                                /\ req'[a].late = req[a].late /\ req'[a].again = req[a].again
  BY Zenon DEF Shown
<1>1. req[a] \in Request
  BY DEF LookShape
<1>2. [req[a] EXCEPT !.step = "judge", !.block = b, !.answer = "none"] \in Request
  BY <1>1, Moved DEF Step, Answer
<1> QED BY <1>1, <1>2 DEF Request

\* A fetch ends with a block, which is stored and shared.
LEMMA FetchServes ==
    ASSUME LookInv, NEW n \in NodeBlock, NEW b \in Kept, b.number = n, fetches[n].step = "receipts",
           b.hash = fetches[n].block.hash, Store(b),
           fetches' = [fetches EXCEPT ![n] = NoFetch],
           req' \in [Asker -> Request], Shown(n, b),
           UNCHANGED <<stale, missed, lookLeft>>
    PROVE  /\ LookShape' /\ CacheOK' /\ FetchesOwned' /\ ReqsOwned' /\ LateMet' /\ AgainServed'
           /\ InNode' = InNode \ {n} /\ Resolving' = Resolving
<1> USE DEF LookInv
<1>1. CacheOK' /\ \A j \in DOMAIN order' : order'[j] = b \/ \E k \in DOMAIN order : order'[j] = order[k]
  BY StoreKeeps
<1>2. \A a \in fetches[n].with : a \in Asker /\ req[a].step = "waiting" /\ req[a].number = n
  BY Followers
<1>4. \A m \in NodeBlock : fetches'[m] = IF m = n THEN NoFetch ELSE fetches[m]
  BY DEF LookShape
<1>5. LookShape'
  BY NoFetchTyped DEF LookShape
<1>6. FetchesOwned'
  <2> SUFFICES ASSUME NEW m \in NodeBlock
               PROVE  /\ \A a \in fetches'[m].with : req'[a].step = "waiting" /\ req'[a].number = m
                      /\ fetches'[m].step = "receipts" => /\ fetches'[m].block \in Kept /\ fetches'[m].block.number = m
                                                          /\ fetches'[m].old \/ fetches'[m].block.hash[1] = "main"
                      /\ fetches'[m].old => fetches'[m].step = "receipts"
    BY Zenon DEF FetchesOwned
  <2>1. CASE m = n
    BY <1>4, <2>1, NoFetchTyped
  <2>2. CASE m # n
    <3>1. \A a \in fetches[m].with : a \in Asker /\ req[a].step = "waiting" /\ req[a].number = m
      BY Followers
    <3>2. \A a \in fetches[m].with : req'[a] = req[a]
      BY <1>2, <2>2, <3>1 DEF Shown
    <3>3. fetches'[m] = fetches[m]
      BY <1>4, <2>2
    <3>4. /\ fetches[m].step = "receipts" => /\ fetches[m].block \in Kept /\ fetches[m].block.number = m
                                             /\ fetches[m].old \/ fetches[m].block.hash[1] = "main"
          /\ fetches[m].old => fetches[m].step = "receipts"
      BY DEF FetchesOwned
    <3> QED BY <3>1, <3>2, <3>3, <3>4
  <2> QED BY <2>1, <2>2
<1>7. ReqsOwned'
  <2> SUFFICES ASSUME NEW a \in Asker
               PROVE  /\ req'[a].step \in {"resolve", "resolving"} => req'[a].want \in Wants /\ req'[a].want.kind \in {"hash", "tx"}
                      /\ req'[a].step \in {"block", "fetch", "waiting", "judge"} =>
                           /\ req'[a].want \in Wants /\ req'[a].number \in NodeBlock
                           /\ req'[a].want.kind = "hash" => req'[a].number = req'[a].want.of[2]
                      /\ req'[a].step = "judge" => req'[a].block \in Kept /\ req'[a].block.number = req'[a].number
    BY Zenon DEF ReqsOwned
  <2>1. CASE a \in fetches[n].with
    BY <1>2, <2>1 DEF ReqsOwned, Shown
  <2>2. CASE a \notin fetches[n].with
    BY <2>2 DEF ReqsOwned, Shown
  <2> QED BY <2>1, <2>2
<1>8. Settled => Settled' /\ b.hash[1] = "main"
  <2>1. Settled => Settled'
    BY <1>4, NoFetchTyped DEF Settled
  <2>2. Settled => b.hash[1] = "main"
    BY DEF Settled, FetchesOwned
  <2> QED BY <2>1, <2>2
<1>9. LateMet'
  <2>1. \A a \in Asker : req'[a].late => Settled /\ Settled'
    BY <1>8 DEF LateMet, Shown
  <2>2. (missed' # {} => Settled /\ Settled') /\ missed' \subseteq Hash
    BY <1>8 DEF LateMet
  <2>3. ASSUME NEW a \in Asker, req'[a].late, req'[a].step = "judge", req'[a].block.hash[1] = "orphan",
               NEW j \in DOMAIN order', order'[j].number = req'[a].number, order'[j].hash[1] = "orphan"
        PROVE  order'[j] = req'[a].block
    <3>1. b.hash[1] = "main"
      BY <1>8, <2>1, <2>3
    <3>2. req'[a] = req[a]
      BY <2>3, <3>1 DEF Shown
    <3>3. PICK k \in DOMAIN order : order'[j] = order[k]
      BY <1>1, <2>3, <3>1
    <3> QED BY <2>3, <3>2, <3>3 DEF LateMet
  <2>4. ASSUME NEW h \in missed', h[1] = "main", NEW j \in DOMAIN order', order'[j].number = h[2]
        PROVE  order'[j].hash[1] = "main"
    BY <1>1, <1>8, <2>2, <2>4 DEF LateMet
  <2> QED BY <2>1, <2>2, <2>3, <2>4 DEF LateMet
<1>10. AgainServed'
  <2> SUFFICES ASSUME NEW a \in Asker, req'[a].again
               PROVE  /\ req'[a].want.kind = "hash" /\ req'[a].want.of \in missed'
                      /\ req'[a].want.of[1] = "main" => /\ req'[a].answer # "missing"
                                                        /\ req'[a].step = "judge" => req'[a].block.hash[1] = "main"
    BY Zenon DEF AgainServed
  <2>1. req[a].again /\ req[a].want.kind = "hash" /\ req[a].want.of \in missed
    BY DEF AgainServed, Shown
  <2>2. b.hash[1] = "main"
    BY <1>8, <2>1 DEF LateMet
  <2>3. CASE a \in fetches[n].with
    BY <2>1, <2>2, <2>3 DEF Shown
  <2>4. CASE a \notin fetches[n].with
    BY <2>1, <2>4 DEF AgainServed, Shown
  <2> QED BY <2>3, <2>4
<1>11. InNode' = InNode \ {n}
  BY <1>4, NoFetchTyped DEF InNode
<1>12. Resolving' = Resolving
  BY <1>2 DEF Resolving, Shown
<1> QED BY <1>1, <1>5, <1>6, <1>7, <1>9, <1>10, <1>11, <1>12
LEMMA FetchDoneKeeps ==
    ASSUME LookInv, NEW n \in NodeBlock, FetchDone(n)
    PROVE  LookInv'
<1> USE DEF LookInv
<1> DEFINE copy == Min({k \in Copies : /\ \A i \in DOMAIN order : order[i].copy # k
                                       /\ \A a \in Asker : req[a].block.copy # k})
           new == [fetches[n].block EXCEPT !.copy = copy]
           Give(ans, b) == req' = [a \in Asker |-> IF a \notin fetches[n].with THEN req[a] ELSE
                                     [req[a] EXCEPT !.step = IF ans = "block" THEN "judge" ELSE "done", !.block = b,
                                                    !.answer = IF ans = "block" THEN "none" ELSE ans]]
           Failed(ans) == req' = [a \in Asker |-> IF a \in fetches[n].with
                                                  THEN [req[a] EXCEPT !.step = "done", !.block = NoBlock, !.answer = ans]
                                                  ELSE req[a]]
<1>1. /\ fetches[n].step = "receipts" /\ taken' = taken - 1
      /\ fetches' = [fetches EXCEPT ![n] = NoFetch]
      /\ UNCHANGED <<stale, missed>>
  BY DEF FetchDone, FreeSlot
<1>2. ASSUME NEW ans \in {"error", "missing"}, Give(ans, NoBlock) PROVE Failed(ans)
  <2>1. ans # "block"
    BY <1>2
  <2>2. ASSUME NEW a \in Asker
        PROVE  (IF a \notin fetches[n].with THEN req[a] ELSE
                  [req[a] EXCEPT !.step = IF ans = "block" THEN "judge" ELSE "done", !.block = NoBlock,
                                 !.answer = IF ans = "block" THEN "none" ELSE ans])
               = IF a \in fetches[n].with THEN [req[a] EXCEPT !.step = "done", !.block = NoBlock, !.answer = ans] ELSE req[a]
    BY <2>1
  <2> QED BY <1>2, <2>2, Zenon
<1>3. Give("block", new) => req' = [a \in Asker |-> IF a \in fetches[n].with
                                                    THEN [req[a] EXCEPT !.step = "judge", !.block = new, !.answer = "none"]
                                                    ELSE req[a]]
  <2> HIDE DEF new
  <2>1. ASSUME NEW a \in Asker
        PROVE  (IF a \notin fetches[n].with THEN req[a] ELSE
                  [req[a] EXCEPT !.step = IF "block" = "block" THEN "judge" ELSE "done", !.block = new,
                                 !.answer = IF "block" = "block" THEN "none" ELSE "block"])
               = IF a \in fetches[n].with THEN [req[a] EXCEPT !.step = "judge", !.block = new, !.answer = "none"] ELSE req[a]
    OBVIOUS
  <2> QED BY <2>1, Zenon
<1>4. \/ Store(new) /\ Give("block", new) /\ lookLeft' = lookLeft
      \/ Give("error", NoBlock) /\ UNCHANGED <<cacheVars, lookLeft>>
      \/ stale /\ Give("missing", NoBlock) /\ UNCHANGED <<cacheVars, lookLeft>>
      \/ SpendLook("errors") /\ Give("error", NoBlock) /\ UNCHANGED cacheVars
  <2> HIDE DEF new, Give
  <2>1. CASE \E v \in Views : IF fetches[n].block.txs \subseteq TxsAt(v, n)
                              THEN Store(new) /\ Give("block", new)
                              ELSE Give("error", NoBlock) /\ UNCHANGED cacheVars
    <3>1. (Store(new) /\ Give("block", new)) \/ (Give("error", NoBlock) /\ UNCHANGED cacheVars)
      BY <2>1
    <3>2. CASE lookLeft' = lookLeft
      BY <3>1, <3>2
    <3>3. CASE lookLeft' # lookLeft
      BY <3>3, Zenon DEF FetchDone, new, Give
    <3> QED BY <3>2, <3>3
  <2> QED BY <2>1, Zenon DEF FetchDone, new, Give
<1>5. n \in InNode
  BY <1>1 DEF InNode
<1> HIDE DEF Give
<1>6. ASSUME NEW ans \in {"error", "missing"}, Give(ans, NoBlock), ans = "missing" => stale, UNCHANGED cacheVars,
             lookLeft' \in [wanted : [Asker -> SUBSET Wants], busy : Nat, errors : Nat, settles : Nat]
      PROVE  LookInv'
  <2>1. ans \in Answer
    BY DEF Answer
  <2>2. req' \in [Asker -> Request] /\ Told(n, ans)
    BY <1>2, <1>6, <2>1, TellsNoBlock
  <2>3. \A a \in fetches[n].with : ans = "missing" /\ req[a].again => req[a].want.of[1] # "main"
    <3>1. ans = "missing" => missed = {}
      BY <1>6 DEF LateMet, Settled
    <3>2. \A a \in fetches[n].with : a \in Asker
      BY Followers
    <3> QED BY <3>1, <3>2 DEF AgainServed
  <2>4. /\ LookShape' /\ CacheOK' /\ FetchesOwned' /\ ReqsOwned' /\ LateMet' /\ AgainServed'
        /\ InNode' = InNode \ {n} /\ Resolving' = Resolving
    BY <1>1, <1>6, <2>1, <2>2, <2>3, FetchFails
  <2>5. SlotsCounted'
    BY <1>1, <1>5, <2>4, FetchSlot
  <2> QED BY <2>4, <2>5
<1>7. CASE Store(new) /\ Give("block", new) /\ lookLeft' = lookLeft
  <2>1. fetches[n].block \in Kept /\ fetches[n].block.number = n
    BY <1>1 DEF FetchesOwned
  <2>2. copy \in Copies
    BY FreshCopy
  <2> HIDE DEF copy
  <2>3. new \in Kept /\ new.number = n /\ new.hash = fetches[n].block.hash
    BY <2>1, <2>2 DEF Kept, Hit
  <2> HIDE DEF new
  <2>4. req' \in [Asker -> Request] /\ Shown(n, new)
    BY <1>3, <1>7, <2>3, ShowsBlock
  <2>5. /\ LookShape' /\ CacheOK' /\ FetchesOwned' /\ ReqsOwned' /\ LateMet' /\ AgainServed'
        /\ InNode' = InNode \ {n} /\ Resolving' = Resolving
    BY <1>1, <1>7, <2>3, <2>4, FetchServes
  <2>6. SlotsCounted'
    BY <1>1, <1>5, <2>5, FetchSlot
  <2> QED BY <2>5, <2>6
<1>8. lookLeft' = lookLeft \/ SpendLook("errors") =>
        lookLeft' \in [wanted : [Asker -> SUBSET Wants], busy : Nat, errors : Nat, settles : Nat]
  BY Spent DEF LookShape
<1> QED BY <1>4, <1>6, <1>7, <1>8

LEMMA BackendsAgreeKeeps ==
    ASSUME LookInv, BackendsAgree
    PROVE  LookInv'
<1> USE DEF LookInv
<1>1. stale /\ stale' = FALSE /\ SpendLook("settles") /\ UNCHANGED <<cacheVars, fetches, taken, req, missed>>
  BY DEF BackendsAgree
<1>2. ~Settled
  BY <1>1 DEF Settled
<1>3. LookShape'
  BY <1>1, Spent DEF LookShape
<1>4. CacheOK'
  BY <1>1, CacheSame
<1>5. SlotsCounted'
  BY <1>1 DEF SlotsCounted, InNode, Resolving
<1>6. FetchesOwned' /\ ReqsOwned'
  BY <1>1 DEF FetchesOwned, ReqsOwned
<1>7. LateMet'
  BY <1>1, <1>2 DEF LateMet, cacheVars
<1>8. AgainServed'
  BY <1>1 DEF AgainServed
<1> QED BY <1>3, <1>4, <1>5, <1>6, <1>7, <1>8

-----------------------------------------------------------------------------
(* The theorems about NodeLookup *)

LEMMA LookInitially == LookInit => LookInv
<1> SUFFICES ASSUME LookInit PROVE LookInv
  OBVIOUS
<1>1. PICK s \in LookupScenarios : LookInitWith(s)
  BY DEF LookInit
<1>2. /\ order = <<>> /\ hashBlock = Empty /\ txBlock = Empty
      /\ fetches = [n \in NodeBlock |-> NoFetch] /\ taken = 0 /\ req = [a \in Asker |-> NoReq]
      /\ stale = TRUE /\ missed = {} /\ lookLeft = s
  BY <1>1 DEF LookInitWith
<1>3. NoReq \in Request
  BY Zenon DEF NoReq, Request, Step, Answer
<1>4. NoReq.step = "idle" /\ NoReq.late = FALSE /\ NoReq.again = FALSE
  BY DEF NoReq
<1>5. lookLeft \in [wanted : [Asker -> SUBSET Wants], busy : Nat, errors : Nat, settles : Nat]
  BY <1>2, LookupAssumption
<1>6. LookShape
  BY <1>2, <1>3, <1>5, NoFetchTyped DEF LookShape
<1>7. CacheOK
  <2>1. order \in Seq(Kept) /\ Len(order) = 0 /\ DOMAIN order = {}
    BY <1>2
  <2>2. DOMAIN hashBlock = {} /\ DOMAIN txBlock = {}
    BY <1>2 DEF Empty
  <2>3. hashBlock \in [DOMAIN hashBlock -> NodeBlock] /\ txBlock \in [DOMAIN txBlock -> NodeBlock]
    BY <1>2 DEF Empty
  <2>4. Len(order) <= MaxBlocks
    BY <2>1, LookupAssumption
  <2> QED BY <2>1, <2>2, <2>3, <2>4 DEF CacheOK, IndexBacked, EntriesBacked, HeightsOnce
<1>8. SlotsCounted
  <2>1. InNode = {} /\ Resolving = {}
    BY <1>2, <1>4, NoFetchTyped DEF InNode, Resolving
  <2> QED BY <1>2, <2>1, FS_EmptySet, LookupAssumption DEF SlotsCounted
<1>9. FetchesOwned
  BY <1>2, NoFetchTyped DEF FetchesOwned
<1>10. ReqsOwned
  BY <1>2, <1>4 DEF ReqsOwned
<1>11. LateMet
  BY <1>2, <1>4 DEF LateMet
<1>12. AgainServed
  BY <1>2, <1>4 DEF AgainServed
<1> QED BY <1>6, <1>7, <1>8, <1>9, <1>10, <1>11, <1>12 DEF LookInv

LEMMA LookInductive == LookInv /\ [LookNext]_lookVars => LookInv'
<1> SUFFICES ASSUME LookInv, [LookNext]_lookVars PROVE LookInv'
  OBVIOUS
<1>1. ASSUME NEW a \in Asker, AskerSteps(a) PROVE LookInv'
  BY <1>1, AskKeeps, ResolveFromIndexKeeps, ResolveTakesSlotKeeps, ResolveAnsweredKeeps, SlotBusyKeeps, CacheHitKeeps,
     CacheMissKeeps, JoinFetchKeeps, JudgeKeeps, TakenKeeps DEF AskerSteps
<1>2. ASSUME NEW n \in NodeBlock, FetchTakesSlot(n) \/ FetchBlock(n) \/ FetchDone(n) PROVE LookInv'
  BY <1>2, FetchTakesSlotKeeps, FetchBlockKeeps, FetchDoneKeeps
<1>3. CASE UNCHANGED lookVars
  <2>1. UNCHANGED <<cacheVars, fetches, taken, req, stale, lookLeft, missed>>
    BY <1>3 DEF lookVars, cacheVars
  <2>2. CacheOK'
    BY <2>1, CacheSame DEF LookInv
  <2> QED BY <2>1, <2>2 DEF LookInv, LookShape, SlotsCounted, InNode, Resolving, FetchesOwned, ReqsOwned, LateMet, AgainServed,
                            Settled, cacheVars
<1> QED BY <1>1, <1>2, <1>3, BackendsAgreeKeeps DEF LookNext

\* Whatever requests cross, whatever the backends answer: the cache's types and indexes, the slots in use, what each
\* fetch and each request holds, and what late requests have met (lookup.go 101-284).
THEOREM LookupInvariant == LookSpec => []LookInv
<1>1. LookInit => LookInv
  BY LookInitially
<1>2. LookInv /\ [LookNext]_lookVars => LookInv'
  BY LookInductive
<1> QED BY <1>1, <1>2, PTL DEF LookSpec

\* The slots in use are those of the fetches and requests that are asking the node, never more than Concurrency, and
\* every cached block is one (withSlot, 225-236).
THEOREM LookupTyped == LookSpec => []LookTypeOK
<1>1. LookInv => LookTypeOK
  BY DEF LookInv, CacheOK, SlotsCounted, InNode, Resolving, LookTypeOK, Kept
<1> QED BY <1>1, LookupInvariant, PTL

\* An index entry names a cached block that has the hash or the transaction, a height is cached once, and the cache
\* keeps to its bound of blocks, for every order of stores, hits, evictions and drops (store, forget, evict, 249-284).
THEOREM LookupIndexBacked == LookSpec => []IndexBacked
<1>1. LookInv => IndexBacked
  BY DEF LookInv, CacheOK
<1> QED BY <1>1, LookupInvariant, PTL

\* Once the backends agree, a hash of the chain that was answered as missing is not answered so to a request that
\* comes after, however many requests and fetches are under way (BlockByHash, 120-136).
THEOREM LookupAskedAgain == LookSpec => []AskedAgain
<1>1. LookInv => AskedAgain
  BY DEF LookInv, AgainServed, AskedAgain
<1> QED BY <1>1, LookupInvariant, PTL
=============================================================================
