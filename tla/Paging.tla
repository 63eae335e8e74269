------------------------------- MODULE Paging -------------------------------
(***************************************************************************)
(* Listing users page by page: getUsers orders by createdAt, paginate      *)
(* reads a page by offset and limit and then counts, in a second           *)
(* statement, and PageMetaDto computes from the count whether a next page  *)
(* exists.  A client asks for page 1, 2, ... until it is told that there   *)
(* is none, while accounts are created and deleted.                        *)
(*                                                                         *)
(* Rows made in one transaction have the same createdAt, and the statement *)
(* breaks such a tie as it likes, every time anew.                         *)
(***************************************************************************)
EXTENDS Naturals, Sequences, FiniteSets

CONSTANTS
    Ids,      \* ids of users
    MaxTime,  \* last moment at which a row is created
    MaxTake   \* largest page asked for

ASSUME IdsAreFinite == IsFiniteSet(Ids)
ASSUME BoundsAreNat == MaxTime \in Nat /\ MaxTake \in Nat \ {0}

Order == {"ASC", "DESC"}

VARIABLES
    rows,     \* table users: function from ids to createdAt
    unused,   \* ids that no row has had
    clock,    \* the current moment
    reader,   \* the client and the handler that serves it
    seen,     \* history: ids the client has received, in order
    old,      \* history: rows that were there when the walk began
    changed   \* history: what has happened to the table since

vars == <<rows, unused, clock, reader, seen, old, changed>>

NoPage == [items |-> <<>>, itemCount |-> 0, hasNextPage |-> FALSE]

Init ==
    /\ \E ids \in SUBSET Ids : /\ rows \in [ids -> 1..MaxTime]
                               /\ unused = Ids \ ids
    /\ clock = MaxTime
    /\ reader = [at |-> "idle", order |-> "ASC", take |-> 1, page |-> 1, got |-> NoPage]
    /\ seen = <<>> /\ old = {} /\ changed = {}

-----------------------------------------------------------------------------
Before(i, j) == IF reader.order = "ASC" THEN rows[i] <= rows[j] ELSE rows[i] >= rows[j]

(* The orders in which the statement may return the table.                 *)
Listings == {s \in [1..Cardinality(DOMAIN rows) -> DOMAIN rows] :
               \A i, j \in DOMAIN s : i < j => s[i] # s[j] /\ Before(s[i], s[j])}

\* faulty: pages are counted from zero
SkipFromZero == reader.page * reader.take

Skip == (reader.page - 1) * reader.take

Page(s) == SubSeq(s, Skip + 1,
                  IF Skip + reader.take < Len(s) THEN Skip + reader.take ELSE Len(s))

\* faulty: rounds down
PageCountDown(itemCount) == itemCount \div reader.take

PageCount(itemCount) == (itemCount + reader.take - 1) \div reader.take

HasNextPage(itemCount) == reader.page < PageCount(itemCount)

Elements(s) == {s[i] : i \in DOMAIN s}

-----------------------------------------------------------------------------
StartWalk(order, take) ==
    /\ reader.at = "idle"
    /\ reader' = [at |-> "items", order |-> order, take |-> take, page |-> 1, got |-> NoPage]
    /\ old' = DOMAIN rows
    /\ changed' = {}
    /\ UNCHANGED <<rows, unused, clock, seen>>

(* paginate: getMany, ...                                                  *)
GetMany ==
    /\ reader.at = "items"
    /\ \E s \in Listings : reader' = [reader EXCEPT !.at = "count", !.got.items = Page(s)]
    /\ UNCHANGED <<rows, unused, clock, seen, old, changed>>

(* ... then getCount, and the answer.                                      *)
GetCount ==
    LET n == Cardinality(DOMAIN rows) IN
    /\ reader.at = "count"
    /\ seen' = seen \o reader.got.items
    /\ reader' = [reader EXCEPT !.at = IF HasNextPage(n) THEN "next" ELSE "end",
                                !.got = [items |-> @.items, itemCount |-> n,
                                         hasNextPage |-> HasNextPage(n)]]
    /\ UNCHANGED <<rows, unused, clock, old, changed>>

(* The client asks for the page that was announced.                        *)
NextPage ==
    /\ reader.at = "next"
    /\ reader' = [reader EXCEPT !.at = "items", !.page = @ + 1, !.got = NoPage]
    /\ UNCHANGED <<rows, unused, clock, seen, old, changed>>

CreateUser(i) ==
    /\ i \in unused
    /\ unused' = unused \ {i}
    /\ rows' = [j \in DOMAIN rows \cup {i} |-> IF j = i THEN clock ELSE rows[j]]
    /\ changed' = changed \cup {"insert"}
    /\ UNCHANGED <<clock, reader, seen, old>>

DeleteUser(i) ==
    /\ i \in DOMAIN rows
    /\ rows' = [j \in DOMAIN rows \ {i} |-> rows[j]]
    /\ changed' = changed \cup {"delete"}
    /\ UNCHANGED <<unused, clock, reader, seen, old>>

Tick ==
    /\ clock < MaxTime + 1
    /\ clock' = clock + 1
    /\ UNCHANGED <<rows, unused, reader, seen, old, changed>>

Read == GetMany \/ GetCount \/ NextPage

Next ==
    \/ \E order \in Order, take \in 1..MaxTake : StartWalk(order, take)
    \/ Read
    \/ Tick
    \/ \E i \in Ids : CreateUser(i) \/ DeleteUser(i)

Spec == Init /\ [][Next]_vars

-----------------------------------------------------------------------------
Tied(i) == \E j \in DOMAIN rows : j # i /\ rows[j] = rows[i]

(* A walk to the end misses an account that was there all the time only if *)
(* another one was deleted under its offsets, or if it shares its          *)
(* createdAt: insertions alone, also those between the page and its count, *)
(* make it read some accounts twice but skip none of the old ones.         *)
MissedOnlyAfterDeletion ==
    (reader.at = "end" /\ "delete" \notin changed) =>
        \A i \in old : i \in Elements(seen) \/ Tied(i)

(* On a table that stays as it is, and without ties, the pages are the     *)
(* table: every row once, in order, and hasNextPage is false on the last.  *)
QuietWalkIsExact ==
    (reader.at = "end" /\ changed = {} /\ \A i \in DOMAIN rows : ~Tied(i)) =>
        seen \in Listings

-----------------------------------------------------------------------------
(* What the proofs of the two rest on.                                     *)

TypeOK ==
    /\ DOMAIN rows \subseteq Ids /\ rows \in [DOMAIN rows -> Nat]
    /\ unused \subseteq Ids \ DOMAIN rows
    /\ clock \in MaxTime..MaxTime + 1
    /\ reader \in [at : {"idle", "items", "count", "next", "end"}, order : Order,
                   take : 1..MaxTake, page : Nat \ {0},
                   got : [items : Seq(Ids), itemCount : Nat, hasNextPage : BOOLEAN]]
    /\ seen \in Seq(Ids) /\ old \subseteq Ids
    /\ changed \subseteq {"insert", "delete"}

(* The rows that come before i, and their number.                          *)
Ahead(i) == {j \in DOMAIN rows : j # i /\ Before(j, i)}
Rank(i)  == Cardinality(Ahead(i))

(* How many rows the pages read so far have room for, and what was read.   *)
Reached  == (IF reader.at = "items" THEN reader.page - 1 ELSE reader.page) * reader.take
Received == Elements(seen) \cup Elements(reader.got.items)

(* An old row that was not read is still to come: insertions can only move *)
(* it further back.                                                        *)
OldAreToCome ==
    (reader.at # "idle" /\ "delete" \notin changed) =>
        \A i \in old : /\ i \in DOMAIN rows
                       /\ Tied(i) \/ i \in Received \/ Rank(i) >= Reached

IsPrefix(s, t) == \A k \in 1..Len(s) : s[k] = t[k]

(* On a quiet table what was read is the beginning of the listing.         *)
QuietWalkIsPrefix ==
    (changed = {} /\ \A i \in DOMAIN rows : ~Tied(i)) =>
        /\ reader.at \in {"items", "next"} =>
             /\ Len(seen) = Reached /\ Reached <= Cardinality(DOMAIN rows)
             /\ \A s \in Listings : IsPrefix(seen, s)
        /\ reader.at = "count" =>
             /\ Len(seen) = Skip /\ Skip <= Cardinality(DOMAIN rows)
             /\ \E s \in Listings : reader.got.items = Page(s) /\ IsPrefix(seen, s)

Inv ==
    /\ TypeOK
    /\ reader.at = "idle" => seen = <<>>
    /\ reader.at \in {"idle", "items"} => reader.got = NoPage
    /\ reader.at \in {"next", "end"} => Elements(reader.got.items) \subseteq Elements(seen)
    /\ OldAreToCome /\ MissedOnlyAfterDeletion
    /\ QuietWalkIsPrefix /\ QuietWalkIsExact
=============================================================================
