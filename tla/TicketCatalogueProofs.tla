----------------------- MODULE TicketCatalogueProofs -----------------------
(***************************************************************************)
(* Theorems about TicketCatalogue, for any requests, filters and pages.    *)
(*                                                                         *)
(* The first part is about Rank: on tickets with different numbers it      *)
(* counts them off from 0 (RankBelow, RankInjective, RankOnto), so that a  *)
(* page has the tickets of its ranks (PageHolds).  The second part is the  *)
(* inductive invariant: the transaction that holds a tenant's counter is   *)
(* alone and has its number (Alone, NumberHeld), and an export has all     *)
(* steady tickets whose rank is below its offset (ReadSoFar).              *)
(***************************************************************************)
EXTENDS TicketCatalogue, FiniteSetTheorems, TLAPS

\* What is needed of a list to page through it.
Sortable(L) ==
    /\ IsFiniteSet(L)
    /\ \A t \in L : ticket[t].number \in Nat /\ ticket[t].created \in Nat
    /\ \A t, u \in L : ticket[t].number = ticket[u].number => t = u

LEMMA NewerIsTotal ==
    ASSUME NEW L, Sortable(L), NEW t \in L, NEW u \in L, t # u
    PROVE  /\ Newer(t, u) \/ Newer(u, t)
           /\ ~(Newer(t, u) /\ Newer(u, t))
           /\ ~Newer(t, t)
BY DEF Sortable, Newer

LEMMA NewerIsTransitive ==
    ASSUME NEW L, Sortable(L), NEW t \in L, NEW u \in L, NEW v \in L,
           Newer(t, u), Newer(u, v)
    PROVE  Newer(t, v)
BY DEF Sortable, Newer

LEMMA RankBelow ==
    ASSUME NEW L, Sortable(L), NEW t \in L
    PROVE  Rank(t, L) \in Nat /\ Rank(t, L) < Cardinality(L)
<1> DEFINE before == {u \in L : Newer(u, t)}
<1>1. before \subseteq L /\ before # L
  <2>1. t \notin before
    BY DEF Sortable, Newer
  <2> QED
    BY <2>1
<1>2. IsFiniteSet(L) /\ Cardinality(L) \in Nat
  BY FS_CardinalityType DEF Sortable
<1>3. /\ IsFiniteSet(before) /\ Cardinality(before) <= Cardinality(L)
      /\ Cardinality(L) = Cardinality(before) => L = before
  <2> HIDE DEF before
  <2> QED
    BY <1>1, <1>2, FS_Subset
<1>4. Cardinality(before) \in Nat
  BY <1>3, FS_CardinalityType
<1> QED
  BY <1>1, <1>2, <1>3, <1>4 DEF Rank

LEMMA RankGrows ==
    ASSUME NEW L, Sortable(L), NEW t \in L, NEW u \in L, Newer(t, u)
    PROVE  Rank(t, L) < Rank(u, L)
<1> DEFINE T == {v \in L : Newer(v, t)}
           U == {v \in L : Newer(v, u)}
<1>1. T \subseteq U
  BY NewerIsTransitive
<1>2. t \in U /\ t \notin T
  BY DEF Sortable, Newer
<1>3. IsFiniteSet(U)
  <2>1. U \in SUBSET L
    OBVIOUS
  <2> HIDE DEF U
  <2> QED
    BY <2>1, FS_Subset DEF Sortable
<1>4. Rank(t, L) = Cardinality(T) /\ Rank(u, L) = Cardinality(U)
  BY DEF Rank
<1> HIDE DEF T, U
<1>5. IsFiniteSet(T) /\ Cardinality(T) <= Cardinality(U)
      /\ (Cardinality(U) = Cardinality(T) => U = T)
  BY <1>1, <1>3, FS_Subset
<1>6. Cardinality(T) \in Nat /\ Cardinality(U) \in Nat
  BY <1>3, <1>5, FS_CardinalityType
<1> QED
  BY <1>2, <1>4, <1>5, <1>6

LEMMA RankInjective ==
    ASSUME NEW L, Sortable(L), NEW t \in L, NEW u \in L,
           Rank(t, L) = Rank(u, L)
    PROVE  t = u
<1> SUFFICES ASSUME t # u PROVE FALSE
  OBVIOUS
<1>1. Newer(t, u) \/ Newer(u, t)
  BY NewerIsTotal
<1>2. Rank(t, L) < Rank(u, L) \/ Rank(u, L) < Rank(t, L)
  BY <1>1, RankGrows
<1> QED
  BY <1>2, RankBelow

LEMMA RankOnto ==
    ASSUME NEW L, Sortable(L), NEW k \in Nat, k < Cardinality(L)
    PROVE  \E t \in L : Rank(t, L) = k
<1> DEFINE n == Cardinality(L)
           f == [t \in L |-> Rank(t, L)]
<1>1. IsFiniteSet(L) /\ n \in Nat
  BY FS_CardinalityType DEF Sortable
<1>2. f \in Injection(L, 0..(n - 1))
  <2>1. f \in [L -> 0..(n - 1)]
    BY <1>1, RankBelow
  <2>2. \A t, u \in L : f[t] = f[u] => t = u
    BY RankInjective
  <2> QED
    BY <2>1, <2>2 DEF Injection, IsInjective
<1>3. IsFiniteSet(0..(n - 1)) /\ Cardinality(0..(n - 1)) = n
  <2>1. 0 \in Int /\ n - 1 \in Int
    BY <1>1
  <2>2. /\ IsFiniteSet(0..(n - 1))
        /\ Cardinality(0..(n - 1)) = IF 0 > n - 1 THEN 0 ELSE n - 1 - 0 + 1
    BY <2>1, FS_Interval
  <2> QED
    BY <1>1, <2>2
<1>4. f \in Surjection(L, 0..(n - 1))
  <2> DEFINE T == 0..(n - 1)
  <2>1. f \in Injection(L, T) /\ IsFiniteSet(T) /\ Cardinality(L) = Cardinality(T)
    BY <1>2, <1>3
  <2> HIDE DEF f, T
  <2>2. f \in Surjection(L, T)
    BY <2>1, FS_Injection
  <2> QED
    BY <2>2 DEF T
<1>5. k \in 0..(n - 1)
  BY <1>1
<1> QED
  BY <1>4, <1>5 DEF Surjection

\* A page has the tickets of the ranks from its offset on.
LEMMA PageHolds ==
    ASSUME NEW L, Sortable(L), NEW o \in Nat
    PROVE  /\ Page(L, o) \in Seq(L)
           /\ \A i \in 1..Len(Page(L, o)) : Rank(Page(L, o)[i], L) = o + i - 1
           /\ \A t \in L : o <= Rank(t, L) /\ Rank(t, L) < o + PageSize =>
                 \E i \in 1..Len(Page(L, o)) : Page(L, o)[i] = t
           /\ Len(Page(L, o)) < PageSize => Cardinality(L) < o + PageSize
           /\ Len(Page(L, o)) <= PageSize
<1> DEFINE n == RowsOf(L, o)
           batch == Page(L, o)
<1>1. Cardinality(L) \in Nat /\ PageSize \in Nat \ {0}
  BY FS_CardinalityType, CatalogueAssumption DEF Sortable
<1>2. /\ n \in Nat /\ (n < PageSize => Cardinality(L) < o + PageSize)
      /\ n <= PageSize
      /\ \A k \in Nat : k < n <=> k < PageSize /\ o + k < Cardinality(L)
  BY <1>1 DEF RowsOf
<1> HIDE DEF n
<1>3. batch = [i \in 1..n |-> CHOOSE t \in L : Rank(t, L) = o + i - 1]
  BY DEF Page, n
<1>4. ASSUME NEW i \in 1..n
      PROVE  batch[i] \in L /\ Rank(batch[i], L) = o + i - 1
  <2>1. o + i - 1 \in Nat /\ o + i - 1 < Cardinality(L)
    <3>1. i - 1 \in Nat /\ i - 1 < n
      BY <1>2
    <3>2. o + (i - 1) < Cardinality(L)
      BY <1>2, <3>1
    <3> QED
      BY <3>1, <3>2
  <2>2. \E t \in L : Rank(t, L) = o + i - 1
    BY <2>1, RankOnto
  <2> QED
    BY <1>3, <2>2
<1> HIDE DEF batch
<1>5. batch \in Seq(L) /\ Len(batch) = n
  <2>1. batch \in [1..n -> L]
    BY <1>3, <1>4
  <2> QED
    BY <1>2, <2>1
<1>6. ASSUME NEW t \in L, o <= Rank(t, L), Rank(t, L) < o + PageSize
      PROVE  \E i \in 1..n : batch[i] = t
  <2>1. Rank(t, L) \in Nat /\ Rank(t, L) < Cardinality(L)
    BY RankBelow
  <2>2. Rank(t, L) - o \in Nat /\ Rank(t, L) - o < n
    BY <1>1, <1>2, <1>6, <2>1
  <2>3. Rank(t, L) - o + 1 \in 1..n
    BY <1>2, <2>2
  <2>4. Rank(batch[Rank(t, L) - o + 1], L) = Rank(t, L)
    BY <1>4, <2>1, <2>3
  <2> QED
    BY <1>4, <2>3, <2>4, RankInjective
<1> QED
  BY <1>2, <1>4, <1>5, <1>6 DEF batch

-----------------------------------------------------------------------------

Typed ==
    /\ clock \in Times
    /\ counter \in [Tenants -> Nat \ {0}]
    /\ post \in [Posts -> {"new", "asked", "counted", "inserted", "done",
                           "failed"}]
    /\ ticket \in [Posts -> [number : Nat, created : Times \cup {0},
                              fields : [Fields -> Values]]]
    /\ view \in BOOLEAN
    /\ export \in [pc : {"none", "queued", "claimed", "reading", "built",
                         "failed"},
                    view_id : BOOLEAN, asked : {NoFilters, Saved},
                    filters : {NoFilters, Saved}, offset : Nat,
                    rows : Seq(Posts)]
    /\ steady \subseteq Posts
    /\ entered \in BOOLEAN
    /\ left \in BOOLEAN

\* Only one request of a tenant holds the counter's row,
Alone ==
    \A tenant \in Tenants : \A p, q \in Numbering(tenant) : p = q

\* and it has the number that the counter gives.
NumberHeld ==
    \A tenant \in Tenants : \A p \in Numbering(tenant) :
        ticket[p].number = counter[tenant]

Numbered == Alone /\ NumberHeld /\ NumbersAreDense

RowsDistinct ==
    \A i, k \in DOMAIN export.rows :
        export.rows[i] = export.rows[k] => i = k

\* As long as no ticket leaves the list, those with a rank below the offset
\* are in the rows; as long as none enters, the rows have only such tickets.
ReadSoFar ==
    LET L == Listed(export.filters)
    IN  /\ steady \subseteq L
        /\ ~left => \A t \in steady :
              Rank(t, L) < export.offset => InRows(t)
        /\ ~entered => \A i \in DOMAIN export.rows :
              export.rows[i] \in L => Rank(export.rows[i], L) < export.offset

Paging ==
    /\ \/ export.pc \in {"reading", "built"}
       \/ ~left /\ ~entered /\ export.rows = << >> /\ export.offset = 0
    /\ export.filters = NoFilters => ~left
    /\ ~entered => RowsDistinct
    /\ export.pc = "reading" => ReadSoFar
    /\ MissesOnlyAfterLeaving

Inv == Typed /\ Numbered /\ Paging

-----------------------------------------------------------------------------

\* What the typing of a row gives.
LEMMA RowTyped ==
    ASSUME Typed, NEW p \in Posts
    PROVE  /\ ticket[p] \in [number : Nat, created : Times \cup {0},
                              fields : [Fields -> Values]]
           /\ ticket[p].number \in Nat
           /\ ticket[p].created \in Times \cup {0}
           /\ ticket[p].created \in Nat
           /\ ticket[p].fields \in [Fields -> Values]
<1>1. ticket[p] \in [number : Nat, created : Times \cup {0},
                     fields : [Fields -> Values]]
  BY Zenon DEF Typed
<1>2. /\ ticket[p].number \in Nat
      /\ ticket[p].created \in Times \cup {0}
      /\ ticket[p].fields \in [Fields -> Values]
  BY <1>1
<1>3. ticket[p].created \in Nat
  <2>1. \A n \in Times \cup {0} : n \in Nat
    BY CatalogueAssumption
  <2> QED
    BY <1>2, <2>1, Zenon
<1> QED
  BY <1>1, <1>2, <1>3

\* A row is replaced by another one.
LEMMA RowReplaced ==
    ASSUME Typed, NEW p \in Posts,
           NEW r \in [number : Nat, created : Times \cup {0},
                      fields : [Fields -> Values]],
           ticket' = [ticket EXCEPT ![p] = r]
    PROVE  /\ ticket' \in [Posts -> [number : Nat, created : Times \cup {0},
                                     fields : [Fields -> Values]]]
           /\ ticket'[p] = r
           /\ \A q \in Posts \ {p} : ticket'[q] = ticket[q]
BY Zenon DEF Typed

LEMMA ListIsSortable ==
    ASSUME Typed, Numbered, NEW filters
    PROVE  Sortable(Listed(filters))
<1> DEFINE L == Listed(filters)
<1>1. L \in SUBSET Posts
  BY DEF Listed, Committed
<1>2. IsFiniteSet(L)
  <2> HIDE DEF L
  <2> QED
    BY <1>1, FS_Subset, CatalogueAssumption
<1>3. \A t \in L : ticket[t].number \in Nat /\ ticket[t].created \in Nat
  <2> HIDE DEF L
  <2> QED
    BY <1>1, RowTyped
<1>4. \A t, u \in L : ticket[t].number = ticket[u].number => t = u
  <2>1. L \subseteq Committed(Exporting) /\ Exporting \in Tenants
    BY CatalogueAssumption DEF Listed
  <2> HIDE DEF L
  <2> QED
    BY <2>1 DEF Numbered, NumbersAreDense
<1> QED
  BY <1>2, <1>3, <1>4 DEF Sortable

\* What a step does to a rank, if it leaves numbers and times alone.
LEMMA RankMoves ==
    ASSUME NEW S, NEW T, Sortable(S), IsFiniteSet(T), NEW t \in S \cap T,
           \A u \in S : /\ ticket'[u].number = ticket[u].number
                        /\ ticket'[u].created = ticket[u].created
    PROVE  /\ Rank(t, S) \in Nat /\ Rank(t, T)' \in Nat
           /\ S \subseteq T => Rank(t, S) <= Rank(t, T)'
           /\ T \subseteq S => Rank(t, T)' <= Rank(t, S)
<1> DEFINE A == {u \in S : Newer(u, t)}
           B == {u \in T : Newer(u, t)'}
<1>1. /\ Rank(t, S) = Cardinality(A) /\ Rank(t, T)' = Cardinality(B)
      /\ A \subseteq S /\ B \subseteq T
  BY DEF Rank
<1>2. \A u \in S : Newer(u, t) <=> Newer(u, t)'
  BY DEF Newer
<1>3. /\ S \subseteq T => A \subseteq B
      /\ T \subseteq S => B \subseteq A
  BY <1>2
<1> HIDE DEF A, B
<1>4. IsFiniteSet(A) /\ IsFiniteSet(B)
  BY <1>1, FS_Subset DEF Sortable
<1>5. /\ A \subseteq B => Cardinality(A) <= Cardinality(B)
      /\ B \subseteq A => Cardinality(B) <= Cardinality(A)
  BY <1>4, FS_Subset
<1>6. Cardinality(A) \in Nat /\ Cardinality(B) \in Nat
  BY <1>4, FS_CardinalityType
<1> QED
  BY <1>1, <1>3, <1>5, <1>6

\* Tickets come and go, the export does not move.
LEMMA PagingKept ==
    ASSUME Inv, Typed', Numbered', export' = export, Watches,
           \A p \in Posts : post[p] = "done" =>
               /\ post'[p] = "done"
               /\ ticket'[p].number = ticket[p].number
               /\ ticket'[p].created = ticket[p].created
    PROVE  Paging'
<1>0. PICK S, T : S = Listed(export.filters) /\ T = Listed(export.filters)'
  OBVIOUS
<1>1. CASE export.pc # "reading"
  BY <1>1 DEF Inv, Paging, Watches, history, RowsDistinct, InRows,
              MissesOnlyAfterLeaving
<1>2. CASE export.pc = "reading"
  <2>1. /\ steady' = steady \cap T
        /\ entered' = (entered \/ T \ S # {})
        /\ left' = (left \/ S \ T # {})
        /\ steady \subseteq S
    BY <1>0, <1>2 DEF Watches, Inv, Paging, ReadSoFar
  <2>2. Sortable(S) /\ IsFiniteSet(T)
    <3>1. T \in SUBSET Posts
      BY <1>0 DEF Listed, Committed
    <3>2. IsFiniteSet(T)
      BY <3>1, FS_Subset, CatalogueAssumption
    <3> QED
      BY <1>0, <3>2, ListIsSortable DEF Inv
  <2>3. \A u \in S : /\ ticket'[u].number = ticket[u].number
                     /\ ticket'[u].created = ticket[u].created
    BY <1>0 DEF Listed, Committed
  <2>4. export.filters = NoFilters => S \subseteq T
    <3>1. Committed(Exporting) \subseteq Committed(Exporting)'
      BY DEF Committed
    <3> QED
      BY <1>0, <3>1 DEF Listed, Matches, NoFilters
  <2>5. export.filters = NoFilters => ~left'
    BY <2>1, <2>4 DEF Inv, Paging
  <2>6. ~left' => \A t \in steady' : Rank(t, T)' < export.offset => InRows(t)
    <3> SUFFICES ASSUME ~left', NEW t \in steady', Rank(t, T)' < export.offset
                 PROVE  InRows(t)
      OBVIOUS
    <3>1. ~left /\ S \subseteq T /\ t \in S \cap T
      BY <2>1
    <3>2. /\ Rank(t, S) \in Nat /\ Rank(t, T)' \in Nat
          /\ Rank(t, S) <= Rank(t, T)'
      BY <2>2, <2>3, <3>1, RankMoves
    <3>3. export.offset \in Nat /\ t \in steady
      BY <2>1 DEF Inv, Typed
    <3>4. Rank(t, S) < export.offset
      BY <3>2, <3>3
    <3> QED
      BY <1>0, <1>2, <3>1, <3>3, <3>4 DEF Inv, Paging, ReadSoFar
  <2>7. ~entered' => \A i \in DOMAIN export.rows :
           export.rows[i] \in T => Rank(export.rows[i], T)' < export.offset
    <3> SUFFICES ASSUME ~entered', NEW i \in DOMAIN export.rows,
                        export.rows[i] \in T
                 PROVE  Rank(export.rows[i], T)' < export.offset
      OBVIOUS
    <3>0. PICK t : t = export.rows[i] /\ t = export'.rows[i]
      OBVIOUS
    <3>1. ~entered /\ T \subseteq S /\ t \in S \cap T
      BY <2>1, <3>0
    <3>2. export.offset \in Nat /\ Rank(t, S) < export.offset
      BY <1>0, <1>2, <3>0, <3>1 DEF Inv, Typed, Paging, ReadSoFar
    <3>3. /\ Rank(t, S) \in Nat /\ Rank(t, T)' \in Nat
          /\ Rank(t, T)' <= Rank(t, S)
      BY <2>2, <2>3, <3>1, RankMoves
    <3> QED
      BY <3>0, <3>2, <3>3
  <2>8. ReadSoFar'
    BY <1>0, <2>1, <2>6, <2>7 DEF ReadSoFar, InRows
  <2>9. (~entered => RowsDistinct)'
    BY <2>1 DEF Inv, Paging, RowsDistinct
  <2> QED
    BY <1>2, <2>5, <2>8, <2>9 DEF Paging, MissesOnlyAfterLeaving
<1> QED
  BY <1>1, <1>2

\* A step that leaves the committed tickets as they are.
LEMMA ListKept ==
    ASSUME Inv,
           \A p \in Posts :
               /\ post'[p] = "done" <=> post[p] = "done"
               /\ post[p] = "done" => ticket'[p] = ticket[p],
           export' = export, UNCHANGED history
    PROVE  Watches
<1>1. Committed(Exporting)' = Committed(Exporting)
  BY DEF Committed
<1>2. Listed(export.filters)' = Listed(export.filters)
  BY <1>1 DEF Listed, Matches, Committed
<1>3. export.pc = "reading" => steady \subseteq Listed(export.filters)
  BY DEF Inv, Paging, ReadSoFar
<1> QED
  BY <1>2, <1>3 DEF Watches, history, Inv, Typed

\* A step that neither commits a ticket nor touches the counter's number.
LEMMA NumbersKept ==
    ASSUME Inv,
           counter' = counter,
           \A p \in Posts :
               /\ post'[p] = "done" <=> post[p] = "done"
               /\ post[p] = "done" => ticket'[p].number = ticket[p].number,
           \A p \in Posts : post'[p] \in {"counted", "inserted"} =>
               /\ post[p] \in {"counted", "inserted"}
               /\ ticket'[p].number = ticket[p].number
    PROVE  Numbered'
<1>1. \A tenant : Committed(tenant)' = Committed(tenant)
  BY DEF Committed
<1>2. NumbersAreDense'
  BY <1>1 DEF Inv, Numbered, NumbersAreDense, Committed
<1>3. \A tenant : Numbering(tenant)' \subseteq Numbering(tenant)
  BY DEF Numbering
<1>4. Alone' /\ NumberHeld'
  BY <1>3 DEF Inv, Numbered, Alone, NumberHeld, Numbering
<1> QED
  BY <1>2, <1>4 DEF Numbered

-----------------------------------------------------------------------------

LEMMA AskInv == ASSUME Inv, NEW p \in Posts, Ask(p) PROVE Inv'
<1> DEFINE r == [ticket[p] EXCEPT !.created = clock]
<1>1. Typed'
  <2>1. /\ r \in [number : Nat, created : Times \cup {0},
                  fields : [Fields -> Values]]
        /\ ticket' = [ticket EXCEPT ![p] = r]
    BY RowTyped DEF Inv, Typed, Ask
  <2> HIDE DEF r
  <2>2. ticket' \in [Posts -> [number : Nat, created : Times \cup {0},
                               fields : [Fields -> Values]]]
    BY <2>1, RowReplaced DEF Inv
  <2> QED
    BY <2>2, Zenon DEF Inv, Typed, Ask, GoesTo, history
<1>2. \A q \in Posts : /\ post'[q] = "done" <=> post[q] = "done"
                       /\ post[q] = "done" => ticket'[q] = ticket[q]
                       /\ ticket'[q].number = ticket[q].number
                       /\ post'[q] \in {"counted", "inserted"} =>
                             post[q] \in {"counted", "inserted"}
  BY DEF Inv, Typed, Ask, GoesTo
<1>3. Numbered'
  BY <1>2, NumbersKept DEF Ask
<1>4. Watches
  BY <1>2, ListKept DEF Ask
<1> QED
  BY <1>1, <1>2, <1>3, <1>4, PagingKept DEF Inv, Ask

LEMMA CountInv == ASSUME Inv, NEW p \in Posts, Count(p) PROVE Inv'
<1> DEFINE tenant == TenantOf[p]
           r == [ticket[p] EXCEPT !.number = counter[tenant]]
<1>1. tenant \in Tenants /\ counter[tenant] \in Nat \ {0}
  <2>1. tenant \in Tenants
    BY CatalogueAssumption
  <2> QED
    BY <2>1, Zenon DEF Inv, Typed
<1>2. /\ r \in [number : Nat, created : Times \cup {0},
                fields : [Fields -> Values]]
      /\ r.number = counter[tenant]
      /\ ticket' = [ticket EXCEPT ![p] = r]
  BY <1>1, RowTyped DEF Inv, Typed, Count
<1> HIDE DEF r
<1>3. /\ ticket' \in [Posts -> [number : Nat, created : Times \cup {0},
                                fields : [Fields -> Values]]]
      /\ ticket'[p] = r
      /\ \A q \in Posts \ {p} : ticket'[q] = ticket[q]
  BY <1>2, RowReplaced DEF Inv
<1>4. /\ post[p] = "asked" /\ post'[p] = "counted"
      /\ \A q \in Posts \ {p} : post'[q] = post[q]
  BY Zenon DEF Inv, Typed, Count, GoesTo
<1>5. Typed'
  BY <1>3, Zenon DEF Inv, Typed, Count, GoesTo, history
<1>6. \A q \in Posts : /\ post'[q] = "done" <=> post[q] = "done"
                       /\ post[q] = "done" => ticket'[q] = ticket[q]
  BY <1>3, <1>4
<1>7. \A t \in Tenants : /\ Committed(t)' = Committed(t)
                         /\ Numbering(t)' \subseteq Numbering(t) \cup {p}
                         /\ t # tenant => p \notin Numbering(t)'
  BY <1>4, <1>6 DEF Committed, Numbering
<1>8. NumbersAreDense'
  BY <1>6, <1>7 DEF Inv, Numbered, NumbersAreDense, Committed, Count
<1>9. Alone' /\ NumberHeld'
  <2>1. Numbering(tenant) = {}
    BY DEF Count
  <2>2. ASSUME NEW t \in Tenants, NEW q \in Numbering(t)'
        PROVE  \/ t = tenant /\ q = p
               \/ t # tenant /\ q # p /\ q \in Numbering(t) /\ q \in Posts
    BY <1>7, <2>1, <2>2 DEF Numbering
  <2>3. Alone'
    BY <2>2 DEF Inv, Numbered, Alone
  <2>4. NumberHeld'
    BY <1>2, <1>3, <2>2 DEF Inv, Numbered, NumberHeld, Count
  <2> QED
    BY <2>3, <2>4
<1>10. Numbered' /\ Watches
  BY <1>6, <1>8, <1>9, ListKept DEF Numbered, Count
<1> QED
  BY <1>5, <1>6, <1>10, PagingKept DEF Inv, Count

LEMMA InsertInv == ASSUME Inv, NEW p \in Posts, Insert(p) PROVE Inv'
<1>1. Typed'
  BY Zenon DEF Inv, Typed, Insert, GoesTo, history
<1>2. /\ post[p] = "counted" /\ post'[p] = "inserted"
      /\ \A q \in Posts \ {p} : post'[q] = post[q]
  BY Zenon DEF Inv, Typed, Insert, GoesTo
<1>3. \A q \in Posts : /\ post'[q] = "done" <=> post[q] = "done"
                       /\ post'[q] \in {"counted", "inserted"} =>
                             post[q] \in {"counted", "inserted"}
                       /\ ticket'[q] = ticket[q]
  BY <1>2 DEF Insert
<1>4. Numbered' /\ Watches
  BY <1>3, NumbersKept, ListKept DEF Insert
<1> QED
  BY <1>1, <1>3, <1>4, PagingKept DEF Inv, Insert

LEMMA WatchesTyped ==
    ASSUME Typed, Watches
    PROVE  steady' \subseteq Posts /\ entered' \in BOOLEAN /\ left' \in BOOLEAN
BY DEF Typed, Watches, history

\* The number that is committed is the next one.
LEMMA CommitPostInv == ASSUME Inv, NEW p \in Posts, CommitPost(p) PROVE Inv'
<1> DEFINE tenant == TenantOf[p]
           n == counter[tenant]
<1>1. tenant \in Tenants
  BY CatalogueAssumption
<1>2. /\ n \in Nat \ {0} /\ p \in Numbering(tenant)
      /\ ticket[p].number = n
  <2>1. n \in Nat \ {0}
    BY <1>1, Zenon DEF Inv, Typed
  <2>2. p \in Numbering(tenant)
    BY DEF CommitPost, Numbering
  <2> QED
    BY <1>1, <2>1, <2>2 DEF Inv, Numbered, NumberHeld
<1>3. /\ post[p] = "inserted" /\ post'[p] = "done"
      /\ \A q \in Posts \ {p} : post'[q] = post[q]
      /\ ticket' = ticket
  BY Zenon DEF Inv, Typed, CommitPost, GoesTo
<1>4. counter' = [counter EXCEPT ![tenant] = n + 1]
  BY <1>2 DEF CommitPost, NextNumber
<1>5. /\ counter'[tenant] = n + 1
      /\ \A t \in Tenants \ {tenant} : counter'[t] = counter[t]
      /\ counter' \in [Tenants -> Nat \ {0}]
  <2>1. n + 1 \in Nat \ {0}
    BY <1>2
  <2> QED
    BY <1>1, <1>4, <2>1, Zenon DEF Inv, Typed
<1>6. Typed'
  BY <1>5, WatchesTyped, Zenon DEF Inv, Typed, CommitPost, GoesTo
<1>7. /\ Committed(tenant)' = Committed(tenant) \cup {p}
      /\ p \notin Committed(tenant)
      /\ \A t \in Tenants \ {tenant} : Committed(t)' = Committed(t)
      /\ \A t \in Tenants : Numbering(t)' = Numbering(t) \ {p}
  BY <1>3 DEF Committed, Numbering
<1>8. Alone' /\ NumberHeld'
  <2>1. \A t \in Tenants : \A q, r \in Numbering(t)' : q = r
    BY <1>7 DEF Inv, Numbered, Alone
  <2>2. Numbering(tenant)' = {}
    BY <1>1, <1>2, <1>7 DEF Inv, Numbered, Alone
  <2>3. ASSUME NEW t \in Tenants, NEW q \in Numbering(t)'
        PROVE  ticket'[q].number = counter'[t]
    BY <1>3, <1>5, <1>7, <2>2 DEF Inv, Numbered, NumberHeld
  <2> QED
    BY <2>1, <2>3 DEF Alone, NumberHeld
<1>9. NumbersAreDense'
  <2>1. ASSUME NEW t \in Tenants \ {tenant}
        PROVE  /\ {ticket'[q].number : q \in Committed(t)'} = 1..(counter'[t] - 1)
               /\ \A q, r \in Committed(t)' :
                     ticket'[q].number = ticket'[r].number => q = r
    BY <1>3, <1>5, <1>7 DEF Inv, Numbered, NumbersAreDense
  <2>2. /\ {ticket[q].number : q \in Committed(tenant)} = 1..(n - 1)
        /\ \A q, r \in Committed(tenant) :
              ticket[q].number = ticket[r].number => q = r
    BY <1>1, Zenon DEF Inv, Numbered, NumbersAreDense
  <2>3. \A q \in Committed(tenant) : ticket[q].number \in 1..(n - 1)
    BY <2>2
  <2>4. \A q \in Committed(tenant) : ticket[q].number # ticket[p].number
    BY <1>2, <2>3
  <2>5. {ticket'[q].number : q \in Committed(tenant)'}
           = {ticket[q].number : q \in Committed(tenant)} \cup {n}
    BY <1>2, <1>3, <1>7
  <2>6. 1..(n - 1) \cup {n} = 1..(counter'[tenant] - 1)
    BY <1>2, <1>5
  <2>7. \A q, r \in Committed(tenant)' :
           ticket'[q].number = ticket'[r].number => q = r
    BY <1>3, <1>7, <2>2, <2>4
  <2>8. {ticket'[q].number : q \in Committed(tenant)'}
           = 1..(counter'[tenant] - 1)
    BY <2>2, <2>5, <2>6
  <2> QED
    BY <2>1, <2>7, <2>8 DEF NumbersAreDense
<1>10. \A q \in Posts : post[q] = "done" =>
          post'[q] = "done" /\ ticket'[q] = ticket[q]
  BY <1>3
<1> QED
  BY <1>6, <1>8, <1>9, <1>10, PagingKept DEF Inv, Numbered, CommitPost

LEMMA PostFailsInv == ASSUME Inv, NEW p \in Posts, PostFails(p) PROVE Inv'
<1> DEFINE r == [ticket[p] EXCEPT !.number = 0, !.created = 0]
<1>1. /\ r \in [number : Nat, created : Times \cup {0},
                fields : [Fields -> Values]]
      /\ ticket' = [ticket EXCEPT ![p] = r]
  <2>1. 0 \in Times \cup {0} /\ 0 \in Nat
    OBVIOUS
  <2>2. r \in [number : Nat, created : Times \cup {0},
              fields : [Fields -> Values]]
    BY <2>1, RowTyped DEF Inv
  <2>3. ticket' = [ticket EXCEPT ![p] = r]
    BY DEF PostFails
  <2> QED
    BY <2>2, <2>3
<1> HIDE DEF r
<1>2. /\ ticket' \in [Posts -> [number : Nat, created : Times \cup {0},
                                fields : [Fields -> Values]]]
      /\ \A q \in Posts \ {p} : ticket'[q] = ticket[q]
  BY <1>1, RowReplaced DEF Inv
<1>3. /\ post[p] \in {"asked", "counted", "inserted"} /\ post'[p] = "failed"
      /\ \A q \in Posts \ {p} : post'[q] = post[q]
  BY Zenon DEF Inv, Typed, PostFails, GoesTo
<1>4. Typed'
  BY <1>2, Zenon DEF Inv, Typed, PostFails, GoesTo, history
<1>5. \A q \in Posts : /\ post'[q] = "done" <=> post[q] = "done"
                       /\ post[q] = "done" => ticket'[q] = ticket[q]
                       /\ post'[q] \in {"counted", "inserted"} =>
                             /\ post[q] \in {"counted", "inserted"}
                             /\ ticket'[q].number = ticket[q].number
  BY <1>2, <1>3
<1>6. Numbered' /\ Watches
  BY <1>5, NumbersKept, ListKept DEF PostFails
<1> QED
  BY <1>4, <1>5, <1>6, PagingKept DEF Inv, PostFails

LEMMA ChangeInv == ASSUME Inv, NEW p \in Posts, Change(p) PROVE Inv'
<1>1. PICK f \in Fields, v \in Values :
         ticket' = [ticket EXCEPT ![p].fields[f] = v]
  BY DEF Change
<1> DEFINE r == [ticket[p] EXCEPT !.fields[f] = v]
<1>2. /\ r \in [number : Nat, created : Times \cup {0},
                fields : [Fields -> Values]]
      /\ ticket' = [ticket EXCEPT ![p] = r]
      /\ r.number = ticket[p].number /\ r.created = ticket[p].created
  BY <1>1, RowTyped DEF Inv
<1> HIDE DEF r
<1>3. /\ ticket' \in [Posts -> [number : Nat, created : Times \cup {0},
                                fields : [Fields -> Values]]]
      /\ ticket'[p] = r
      /\ \A q \in Posts \ {p} : ticket'[q] = ticket[q]
  BY <1>2, RowReplaced DEF Inv
<1>4. Typed'
  BY <1>3, WatchesTyped, Zenon DEF Inv, Typed, Change
<1>5. \A q \in Posts : /\ post'[q] = post[q]
                       /\ ticket'[q].number = ticket[q].number
                       /\ ticket'[q].created = ticket[q].created
  BY <1>2, <1>3 DEF Change
<1>6. Numbered'
  BY <1>5, NumbersKept DEF Change
<1> QED
  BY <1>4, <1>5, <1>6, PagingKept DEF Inv, Change

-----------------------------------------------------------------------------

LEMMA ListSame ==
    ASSUME UNCHANGED catalogue, NEW filters
    PROVE  Listed(filters)' = Listed(filters)
BY DEF Listed, Committed, Matches, catalogue

LEMMA RankSame ==
    ASSUME UNCHANGED catalogue, NEW t, NEW S
    PROVE  Rank(t, S)' = Rank(t, S)
<1>1. \A u \in S : Newer(u, t)' <=> Newer(u, t)
  BY DEF Newer, catalogue
<1>2. {u \in S : Newer(u, t)'} = {u \in S : Newer(u, t)}
  BY <1>1
<1> QED
  BY <1>2, Zenon DEF Rank

\* A step that moves an export which is not being read, or none.
LEMMA PagingSame ==
    ASSUME Inv, UNCHANGED <<catalogue, history>>,
           \/ export'.pc = export.pc
           \/ {export.pc, export'.pc} \cap {"reading", "built"} = {},
           export'.rows = export.rows, export'.offset = export.offset,
           export'.filters = export.filters
    PROVE  Numbered' /\ Paging'
<1>1. Numbered'
  BY DEF Inv, Numbered, Alone, NumberHeld, NumbersAreDense, Committed,
         Numbering, catalogue
<1>2. PICK L : L = Listed(export.filters) /\ L = Listed(export.filters)'
  <2>1. PICK F : F = export.filters /\ F = export'.filters
    OBVIOUS
  <2>2. Listed(F)' = Listed(F)
    BY ListSame
  <2> QED
    BY <2>1, <2>2
<1>3. \A t : Rank(t, L)' = Rank(t, L)
  BY RankSame
<1>4. UNCHANGED <<steady, entered, left>>
  BY DEF history
<1>5. ReadSoFar <=> ReadSoFar'
  <2>1. ASSUME NEW t PROVE InRows(t) <=> InRows(t)'
    BY DEF InRows
  <2> QED
    BY <1>2, <1>3, <1>4, <2>1 DEF ReadSoFar
<1>6. MissesOnlyAfterLeaving <=> MissesOnlyAfterLeaving'
        \/ {export.pc, export'.pc} \cap {"built"} = {}
  BY <1>4 DEF MissesOnlyAfterLeaving, InRows
<1>7. RowsDistinct <=> RowsDistinct'
  BY DEF RowsDistinct
<1>8. MissesOnlyAfterLeaving'
  BY <1>6 DEF Inv, Paging, MissesOnlyAfterLeaving
<1>9. Paging'
  BY <1>4, <1>5, <1>7, <1>8 DEF Inv, Paging
<1> QED
  BY <1>1, <1>9

LEMMA QuietInv ==
    ASSUME Inv, Tick \/ Enqueue \/ DeleteView \/ Claim \/ UNCHANGED vars
    PROVE  Inv'
<1>1. /\ UNCHANGED <<catalogue, history>>
      /\ \/ export'.pc = export.pc
         \/ {export.pc, export'.pc} \cap {"reading", "built"} = {}
      /\ export'.rows = export.rows /\ export'.offset = export.offset
      /\ export'.filters = export.filters
  BY DEF Inv, Typed, Tick, Enqueue, DeleteView, Claim, vars
<1>2. Numbered' /\ Paging'
  BY <1>1, PagingSame
<1>3. CASE Tick \/ UNCHANGED vars
  <2>1. clock' \in Times
    BY <1>3 DEF Inv, Typed, Tick, vars
  <2> QED
    BY <1>2, <1>3, <2>1, Zenon
       DEF Inv, Typed, Tick, vars, catalogue, history
<1>4. CASE Enqueue \/ DeleteView \/ Claim
  <2>1. /\ view' \in BOOLEAN
        /\ export' \in [pc : {"none", "queued", "claimed", "reading", "built",
                             "failed"},
                        view_id : BOOLEAN, asked : {NoFilters, Saved},
                        filters : {NoFilters, Saved}, offset : Nat,
                        rows : Seq(Posts)]
    BY <1>4 DEF Inv, Typed, Enqueue, DeleteView, ViewIdAfterDelete, Claim
  <2>2. clock' = clock /\ UNCHANGED <<catalogue, history>>
    BY <1>4 DEF Enqueue, DeleteView, Claim
  <2> QED
    BY <1>2, <2>1, <2>2, Zenon DEF Inv, Typed, catalogue, history
<1> QED
  BY <1>3, <1>4

LEMMA OpenInv == ASSUME Inv, Open PROVE Inv'
<1> DEFINE filters == IF export.view_id THEN Saved ELSE NoFilters
<1>1. /\ export' = [export EXCEPT !.pc = "reading", !.filters = filters]
      /\ steady' = Listed(filters)
      /\ UNCHANGED <<clock, catalogue, view, entered, left>>
      /\ export.pc = "claimed"
  BY DEF Open
<1>2. filters \in {NoFilters, Saved}
  OBVIOUS
<1> HIDE DEF filters
<1>3. PICK L : L = Listed(filters)
  OBVIOUS
<1>4. L \subseteq Posts
  BY <1>3 DEF Listed, Committed
<1>5. Typed'
  <2>1. export' \in [pc : {"none", "queued", "claimed", "reading", "built",
                           "failed"},
                     view_id : BOOLEAN, asked : {NoFilters, Saved},
                     filters : {NoFilters, Saved}, offset : Nat,
                     rows : Seq(Posts)]
    BY <1>1, <1>2 DEF Inv, Typed
  <2> QED
    BY <1>1, <1>3, <1>4, <2>1, Zenon DEF Inv, Typed, catalogue
<1>6. Numbered'
  BY <1>1 DEF Inv, Numbered, Alone, NumberHeld, NumbersAreDense, Committed,
              Numbering, catalogue
<1>7. /\ ~left /\ ~entered /\ export.rows = << >> /\ export.offset = 0
      /\ left' = left /\ entered' = entered
      /\ export'.rows = << >> /\ export'.offset = 0
      /\ export'.pc = "reading" /\ export'.filters = filters
  BY <1>1 DEF Inv, Typed, Paging
<1>8. L = Listed(export.filters)'
  <2>1. PICK F : F = filters /\ F = export'.filters
    BY <1>7
  <2>2. Listed(F)' = Listed(F)
    BY <1>1, ListSame
  <2> QED
    BY <1>3, <2>1, <2>2
<1>9. \A t \in L : ~(Rank(t, L)' < 0)
  <2>1. Sortable(L)
    BY <1>3, ListIsSortable DEF Inv
  <2>2. \A t \in L : Rank(t, L)' = Rank(t, L)
    BY <1>1, RankSame
  <2>3. \A t \in L : Rank(t, L) \in Nat
    BY <2>1, RankBelow
  <2> QED
    BY <2>2, <2>3
<1>10. ReadSoFar'
  BY <1>1, <1>3, <1>7, <1>8, <1>9 DEF ReadSoFar
<1>11. Paging'
  BY <1>7, <1>10 DEF Paging, RowsDistinct, MissesOnlyAfterLeaving
<1> QED
  BY <1>5, <1>6, <1>11 DEF Inv

\* A page adds the tickets whose ranks lie between two offsets.
LEMMA ReadPageInv == ASSUME Inv, ReadPage PROVE Inv'
<1>0. PICK L, o, batch : /\ L = Listed(export.filters)
                         /\ o = export.offset
                         /\ batch = Page(L, o)
  OBVIOUS
<1>1. /\ export.pc = "reading"
      /\ export' = [export EXCEPT
              !.pc     = IF Len(batch) < PageSize THEN "built" ELSE "reading",
              !.rows   = export.rows \o batch,
              !.offset = o + PageSize]
      /\ UNCHANGED <<clock, catalogue, view, history>>
  BY <1>0 DEF ReadPage, IsLast, NextOffset
<1>2. Sortable(L) /\ L \subseteq Posts
  BY <1>0, ListIsSortable DEF Inv, Listed, Committed
<1>3. /\ o \in Nat /\ PageSize \in Nat \ {0} /\ export.rows \in Seq(Posts)
      /\ export.filters \in {NoFilters, Saved}
  BY <1>0, CatalogueAssumption DEF Inv, Typed
<1>4. /\ batch \in Seq(L) /\ Len(batch) \in Nat /\ Len(batch) <= PageSize
      /\ \A i \in 1..Len(batch) : Rank(batch[i], L) = o + i - 1
      /\ \A t \in L : o <= Rank(t, L) /\ Rank(t, L) < o + PageSize =>
            \E i \in 1..Len(batch) : batch[i] = t
      /\ Len(batch) < PageSize => Cardinality(L) < o + PageSize
  BY <1>0, <1>2, <1>3, PageHolds
<1> DEFINE old == export.rows
           new == old \o batch
<1>5. /\ new \in Seq(Posts) /\ Len(old) \in Nat
      /\ Len(new) = Len(old) + Len(batch)
      /\ DOMAIN old = 1..Len(old) /\ DOMAIN new = 1..Len(new)
      /\ \A i \in 1..Len(old) : new[i] = old[i]
      /\ \A i \in 1..Len(batch) : new[Len(old) + i] = batch[i]
  <2>1. batch \in Seq(Posts)
    BY <1>2, <1>4
  <2> QED
    BY <1>3, <2>1
<1>6. /\ export'.rows = new /\ export'.offset = o + PageSize
      /\ export'.filters = export.filters
      /\ export'.pc = IF Len(batch) < PageSize THEN "built" ELSE "reading"
      /\ export' \in [pc : {"none", "queued", "claimed", "reading", "built",
                           "failed"},
                      view_id : BOOLEAN, asked : {NoFilters, Saved},
                      filters : {NoFilters, Saved}, offset : Nat,
                      rows : Seq(Posts)]
  <2>1. o + PageSize \in Nat
    BY <1>3
  <2>2. new \in Seq(Posts) /\ new = export.rows \o batch
    BY <1>5
  <2> HIDE DEF new, old
  <2> QED
    BY <1>1, <2>1, <2>2 DEF Inv, Typed
<1> HIDE DEF new, old
<1>7. Typed'
  BY <1>1, <1>6, Zenon DEF Inv, Typed, catalogue, history
<1>8. Numbered'
  BY <1>1 DEF Inv, Numbered, Alone, NumberHeld, NumbersAreDense, Committed,
              Numbering, catalogue
<1>9. /\ steady \subseteq L /\ steady' = steady
      /\ entered' = entered /\ left' = left
      /\ ~left => \A t \in steady : Rank(t, L) < o =>
            \E i \in 1..Len(old) : old[i] = t
      /\ ~entered => \A i \in 1..Len(old) :
            old[i] \in L => Rank(old[i], L) < o
      /\ ~entered => \A i, k \in 1..Len(old) : old[i] = old[k] => i = k
      /\ export.filters = NoFilters => ~left
  BY <1>0, <1>1, <1>5
     DEF Inv, Paging, ReadSoFar, InRows, RowsDistinct, history, old
<1>10. \A t \in L : Rank(t, L) \in Nat /\ Rank(t, L) < Cardinality(L)
  BY <1>2, RankBelow
<1>11. \A i \in 1..Len(new) :
          \/ i \in 1..Len(old) /\ new[i] = old[i]
          \/ /\ i - Len(old) \in 1..Len(batch)
             /\ new[i] = batch[i - Len(old)]
             /\ new[i] \in L
             /\ Rank(new[i], L) = o + (i - Len(old)) - 1
  <2> SUFFICES ASSUME NEW i \in 1..Len(new), i \notin 1..Len(old)
               PROVE  /\ i - Len(old) \in 1..Len(batch)
                      /\ new[i] = batch[i - Len(old)]
                      /\ new[i] \in L
                      /\ Rank(new[i], L) = o + (i - Len(old)) - 1
    BY <1>5
  <2>1. PICK k : k = i - Len(old)
    OBVIOUS
  <2>2. k \in 1..Len(batch) /\ i = Len(old) + k
    BY <1>4, <1>5, <2>1
  <2>3. new[i] = batch[k] /\ batch[k] \in L
    BY <1>4, <1>5, <2>2
  <2> QED
    BY <1>4, <2>1, <2>2, <2>3
<1>12. ~left => \A t \in steady : Rank(t, L) < o + PageSize =>
          \E i \in 1..Len(new) : new[i] = t
  <2> SUFFICES ASSUME ~left, NEW t \in steady, Rank(t, L) < o + PageSize
               PROVE  \E i \in 1..Len(new) : new[i] = t
    OBVIOUS
  <2>1. CASE Rank(t, L) < o
    <3>1. PICK i \in 1..Len(old) : old[i] = t
      BY <1>9, <2>1
    <3>2. i \in 1..Len(new) /\ new[i] = t
      BY <1>4, <1>5, <3>1
    <3> QED
      BY <3>2
  <2>2. CASE o <= Rank(t, L)
    <3>1. PICK i \in 1..Len(batch) : batch[i] = t
      BY <1>4, <1>9, <2>2
    <3>2. Len(old) + i \in 1..Len(new) /\ new[Len(old) + i] = t
      BY <1>4, <1>5, <3>1
    <3> QED
      BY <3>2
  <2>3. Rank(t, L) \in Nat
    BY <1>9, <1>10
  <2> QED
    BY <1>3, <2>1, <2>2, <2>3
<1>13. ~entered => \A i \in 1..Len(new) :
          new[i] \in L => Rank(new[i], L) < o + PageSize
  <2> SUFFICES ASSUME ~entered, NEW i \in 1..Len(new), new[i] \in L
               PROVE  Rank(new[i], L) < o + PageSize
    OBVIOUS
  <2>1. CASE i \in 1..Len(old) /\ new[i] = old[i]
    <3>1. Rank(new[i], L) < o /\ Rank(new[i], L) \in Nat
      BY <1>9, <1>10, <2>1
    <3> QED
      BY <1>3, <3>1
  <2>2. CASE /\ i - Len(old) \in 1..Len(batch)
             /\ Rank(new[i], L) = o + (i - Len(old)) - 1
    <3>1. PICK k \in 1..Len(batch) : k = i - Len(old)
      BY <2>2
    <3> QED
      BY <1>3, <1>4, <2>2, <3>1
  <2> QED
    BY <1>11, <2>1, <2>2
<1>14. ~entered => \A i, k \in 1..Len(new) : new[i] = new[k] => i = k
  <2> SUFFICES ASSUME ~entered, NEW i \in 1..Len(new), NEW k \in 1..Len(new),
                      new[i] = new[k]
               PROVE  i = k
    OBVIOUS
  <2>1. ASSUME NEW a \in 1..Len(new), NEW b \in 1..Len(new), new[a] = new[b],
               a \in 1..Len(old), b \notin 1..Len(old)
        PROVE  FALSE
    <3>1. /\ b - Len(old) \in 1..Len(batch) /\ new[b] \in L
          /\ Rank(new[b], L) = o + (b - Len(old)) - 1
      BY <1>11, <2>1
    <3>2. PICK c \in 1..Len(batch) : c = b - Len(old)
      BY <3>1
    <3>3. Rank(new[b], L) < o
      BY <1>5, <1>9, <2>1, <3>1
    <3> QED
      BY <1>3, <1>4, <3>1, <3>2, <3>3
  <2>2. CASE i \in 1..Len(old) /\ k \in 1..Len(old)
    BY <1>5, <1>9, <2>2
  <2>3. CASE i \notin 1..Len(old) /\ k \notin 1..Len(old)
    <3>1. /\ Rank(new[i], L) = o + (i - Len(old)) - 1
          /\ Rank(new[k], L) = o + (k - Len(old)) - 1
      BY <1>11, <2>3
    <3>2. o + (i - Len(old)) - 1 = o + (k - Len(old)) - 1
      BY <3>1
    <3>3. Len(new) \in Nat
      BY <1>4, <1>5
    <3> QED
      BY <1>3, <1>5, <3>2, <3>3
  <2> QED
    BY <2>1, <2>2, <2>3
<1>15. /\ Listed(export.filters)' = L
       /\ \A t : Rank(t, L)' = Rank(t, L)
  <2>1. PICK F : F = export.filters /\ F = export'.filters
    BY <1>6
  <2>2. Listed(F)' = Listed(F)
    BY <1>1, ListSame
  <2> QED
    BY <1>0, <1>1, <2>1, <2>2, RankSame
<1>16. ReadSoFar'
  <2>1. PICK M : M = L /\ M = Listed(export.filters)'
    BY <1>15
  <2>2. \A t : Rank(t, M)' = Rank(t, M)
    BY <1>15, <2>1
  <2> QED
    BY <1>5, <1>6, <1>9, <1>12, <1>13, <2>1, <2>2 DEF ReadSoFar, InRows
<1>17. RowsDistinct' \/ entered'
  BY <1>5, <1>6, <1>9, <1>14 DEF RowsDistinct
<1>18. MissesOnlyAfterLeaving'
  <2> SUFFICES ASSUME Len(batch) < PageSize, ~left, NEW t \in steady
               PROVE  \E i \in 1..Len(new) : new[i] = t
    BY <1>5, <1>6, <1>9 DEF MissesOnlyAfterLeaving, InRows
  <2>1. Cardinality(L) < o + PageSize /\ Rank(t, L) < Cardinality(L)
        /\ Rank(t, L) \in Nat
    BY <1>4, <1>9, <1>10
  <2>2. Cardinality(L) \in Nat
    BY <1>2, FS_CardinalityType DEF Sortable
  <2>3. Rank(t, L) < o + PageSize
    BY <1>3, <2>1, <2>2
  <2> QED
    BY <1>12, <2>3
<1>19. Paging'
  BY <1>6, <1>9, <1>16, <1>17, <1>18 DEF Paging
<1> QED
  BY <1>7, <1>8, <1>19 DEF Inv

LEMMA ExportFailsInv == ASSUME Inv, ExportFails PROVE Inv'
<1>1. export' = Without("failed")
  BY DEF ExportFails
<1>2. /\ export' \in [pc : {"none", "queued", "claimed", "reading", "built",
                           "failed"},
                      view_id : BOOLEAN, asked : {NoFilters, Saved},
                      filters : {NoFilters, Saved}, offset : Nat,
                      rows : Seq(Posts)]
      /\ export'.pc = "failed" /\ export'.rows = << >> /\ export'.offset = 0
  BY <1>1 DEF Without
<1>3. Typed'
  BY <1>2, Zenon DEF Inv, Typed, ExportFails, catalogue
<1>4. Numbered'
  BY DEF Inv, Numbered, Alone, NumberHeld, NumbersAreDense, Committed,
         Numbering, ExportFails, catalogue
<1>5. Paging'
  BY <1>2 DEF Paging, RowsDistinct, MissesOnlyAfterLeaving, ExportFails
<1> QED
  BY <1>3, <1>4, <1>5 DEF Inv

LEMMA InitInv == ASSUME Init PROVE Inv
<1>1. export = Without("none")
  BY DEF Init
<1>2. /\ export \in [pc : {"none", "queued", "claimed", "reading", "built",
                           "failed"},
                      view_id : BOOLEAN, asked : {NoFilters, Saved},
                      filters : {NoFilters, Saved}, offset : Nat,
                      rows : Seq(Posts)]
      /\ export.pc = "none" /\ export.rows = << >> /\ export.offset = 0
  BY <1>1 DEF Without
<1>3. PICK body \in [Posts -> NewFields] :
         ticket = [p \in Posts |->
                     [number |-> 0, created |-> 0, fields |-> body[p]]]
  BY DEF Init
<1>4. \A p \in Posts : body[p] \in [Fields -> Values]
  BY <1>3, CatalogueAssumption
<1>5. ticket \in [Posts -> [number : Nat, created : Times \cup {0},
                           fields : [Fields -> Values]]]
  BY <1>3, <1>4
<1>6. /\ counter \in [Tenants -> Nat \ {0}]
      /\ post \in [Posts -> {"new", "asked", "counted", "inserted", "done",
                             "failed"}]
  BY DEF Init
<1>7. Typed
  BY <1>2, <1>5, <1>6 DEF Init, Typed
<1>8. \A t \in Tenants : Committed(t) = {} /\ Numbering(t) = {}
  BY DEF Init, Committed, Numbering
<1>9. Numbered
  BY <1>8 DEF Init, Numbered, Alone, NumberHeld, NumbersAreDense
<1>10. Paging
  BY <1>2 DEF Init, Paging, RowsDistinct, MissesOnlyAfterLeaving
<1> QED
  BY <1>7, <1>9, <1>10 DEF Inv

LEMMA NextInv == ASSUME Inv, [Next]_vars PROVE Inv'
<1>1. ASSUME NEW p \in Posts, PostNext(p) PROVE Inv'
  BY <1>1, AskInv, CountInv, InsertInv, CommitPostInv, PostFailsInv, ChangeInv
     DEF PostNext
<1> QED
  BY <1>1, QuietInv, OpenInv, ReadPageInv, ExportFailsInv DEF Next, ExportNext

THEOREM Invariance == Spec => []Inv
<1>1. Init => Inv
  BY InitInv
<1>2. Inv /\ [Next]_vars => Inv'
  BY NextInv
<1> QED
  BY <1>1, <1>2, PTL DEF Spec

-----------------------------------------------------------------------------

\* Every variable has its type, and no counter is more than one beyond the
\* number of requests that createTicket ever served.
THEOREM TypeCorrect == Spec => []TypeOK
<1>1. Inv => TypeOK
  <2> SUFFICES ASSUME Inv PROVE TypeOK
    OBVIOUS
  <2>1. ASSUME NEW tenant \in Tenants
        PROVE  counter[tenant] \in 1..(Cardinality(Posts) + 1)
    <3> DEFINE S == Committed(tenant)
               n == counter[tenant] - 1
               f == [p \in S |-> ticket[p].number]
    <3>1. n \in Nat /\ S \in SUBSET Posts
      <4>1. counter[tenant] \in Nat \ {0}
        BY Zenon DEF Inv, Typed
      <4> QED
        BY <4>1 DEF Committed
    <3>2. /\ {ticket[p].number : p \in S} = 1..n
          /\ \A p, q \in S : ticket[p].number = ticket[q].number => p = q
      BY Zenon DEF Inv, Numbered, NumbersAreDense
    <3> HIDE DEF S
    <3>3. f \in Surjection(S, 1..n)
      BY <3>2 DEF Surjection
    <3> HIDE DEF f, n
    <3>4. IsFiniteSet(S) /\ Cardinality(S) <= Cardinality(Posts)
      BY <3>1, FS_Subset, CatalogueAssumption
    <3>5. IsFiniteSet(1..n) /\ Cardinality(1..n) <= Cardinality(S)
      BY <3>3, <3>4, FS_Surjection
    <3>6. Cardinality(1..n) = n
      <4>1. Cardinality(1..n) = IF 1 > n THEN 0 ELSE n - 1 + 1
        BY <3>1, FS_Interval
      <4> QED
        BY <3>1, <4>1
    <3>7. Cardinality(S) \in Nat /\ Cardinality(Posts) \in Nat
      BY <3>4, FS_CardinalityType, CatalogueAssumption
    <3>8. n <= Cardinality(Posts)
      BY <3>1, <3>4, <3>5, <3>6, <3>7
    <3>9. counter[tenant] = n + 1
      <4>1. counter[tenant] \in Nat
        BY Zenon DEF Inv, Typed
      <4> QED
        BY <4>1 DEF n
    <3> QED
      BY <3>1, <3>7, <3>8, <3>9
  <2>2. counter \in [Tenants -> 1..(Cardinality(Posts) + 1)]
    BY <2>1, Zenon DEF Inv, Typed
  <2> QED
    BY <2>2, Zenon DEF Inv, Typed, TypeOK
<1> QED
  BY <1>1, Invariance, PTL

\* However many requests create tickets at once, and however many of them
\* fail after createTicket has taken a number, the committed tickets of each
\* tenant have the numbers from 1 on without gap or repetition.
THEOREM NumberingIsDense == Spec => []NumbersAreDense
<1>1. Inv => NumbersAreDense
  BY DEF Inv, Numbered
<1> QED
  BY <1>1, Invariance, PTL

\* An export without filters has every ticket that was committed when
\* buildExport began to read, for any page size.
THEOREM PlainExportsAreComplete == Spec => []PlainExportIsComplete
<1>1. Inv => PlainExportIsComplete
  BY DEF Inv, Paging, MissesOnlyAfterLeaving, PlainExportIsComplete
<1> QED
  BY <1>1, Invariance, PTL

\* The only way for an export with filters to miss a ticket that matched
\* throughout is that another one stopped to match while pages were read.
THEOREM MissingNeedsLeaving == Spec => []MissesOnlyAfterLeaving
<1>1. Inv => MissesOnlyAfterLeaving
  BY DEF Inv, Paging
<1> QED
  BY <1>1, Invariance, PTL

\* The only way for an export to repeat a ticket is that another one came
\* into its list while pages were read.
THEOREM RepeatingNeedsEntering == Spec => []RepeatsOnlyAfterEntering
<1>1. Inv => RepeatsOnlyAfterEntering
  BY DEF Inv, Paging, RowsDistinct, RepeatsOnlyAfterEntering
<1> QED
  BY <1>1, Invariance, PTL
=============================================================================
