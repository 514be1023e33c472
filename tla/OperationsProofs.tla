-------------------------- MODULE OperationsProofs --------------------------
(***************************************************************************)
(* Proofs about the components behind the platform that are run and        *)
(* operated side by side: BackfillSync, for any history, overlap, pages    *)
(* and workers, IngestionSweep, for any organizations, targets, batches,   *)
(* ConsensusCheck, for any verifiers and answers, Accounts, for any        *)
(* organizations, addresses and callers, DatabaseRoles, for any principals *)
(* and capabilities, and ProductionControl with the OperationalHealth it   *)
(* rests on, for any facts, jobs, pages, operators and requests.           *)
(***************************************************************************)
EXTENDS BackfillSync, IngestionSweep, ConsensusCheck, Accounts, DatabaseRoles,
        ProductionControl, TLAPS, FiniteSetTheorems, WellFoundedInduction

-----------------------------------------------------------------------------
(* BackfillSync. *)

Heads == Signatures \cup {0}
Coverage == {"complete", "incomplete"}
Started == [stage : {"started"}, from : Heads, floor : Nat, covered : Coverage]
Listing == [stage : {"listing"}, from : Heads, floor : Nat, covered : Coverage,
            captured : Signatures, before : Signatures, found : SUBSET Signatures]
Storing == [stage : {"fetching"}, from : Heads, covered : Coverage, captured : Signatures,
            todo : SUBSET Signatures, blocked : BOOLEAN, refused : BOOLEAN]

SyncTypes ==
  /\ history \subseteq Signatures /\ head \in history \cup {0}
  /\ coverage \in Coverage
  /\ sync \in [Syncs -> Started \cup Listing \cup Storing \cup {Idle}]

SlotAt(h) == IF h = 0 THEN Cutover ELSE SlotOf[h]

(* Signature x is among S, or turned up so late that the overlap below c    *)
(* reaches it.                                                              *)
Reached(c, S, x) == x \in S \/ SlotOf[c] <= SlotOf[x] + Late

(* Where a sync began lies in the history, and what it captured does not    *)
(* lie before that.                                                         *)
BeganInHistory(r) ==
  /\ r # Idle => r.from \in history \cup {0}
  /\ r.stage \in {"started", "listing"} => r.floor = Floor(SlotAt(r.from))
  /\ r.stage \in {"listing", "fetching"} => r.captured \in history /\ r.captured >= r.from

(* What a sync has listed and fetched so far. *)
ListedSoFar(r) ==
  r.stage = "listing" =>
    \A x \in history : r.before <= x /\ x <= r.captured /\ SlotOf[x] >= r.floor
                         => Reached(r.captured, r.found, x)
StoredSoFar(r) ==
  r.stage = "fetching" /\ ~r.blocked =>
    \A x \in history : x <= r.captured /\ SlotOf[x] >= Floor(SlotAt(r.from))
                         => Reached(r.captured, r.todo \cup stored, x)

SyncsAreSound ==
  \A s \in Syncs : BeganInHistory(sync[s]) /\ ListedSoFar(sync[s]) /\ StoredSoFar(sync[s])

BackfillInv == SyncTypes /\ SyncsAreSound /\ NothingLeftBehind

LEMMA LeastNat ==
  ASSUME NEW S \in SUBSET Nat, S # {}
  PROVE  \E x \in S : \A y \in S : x <= y
<1>1. PICK x \in S : \A y \in S : ~(<<y, x>> \in OpToRel(<, Nat))
  BY NatLessThanWellFounded, WFMin
<1>2. \A y \in S : ~(y < x)
  BY <1>1 DEF OpToRel
<1> QED
  BY <1>2

LEMMA OldestIsLeast ==
  ASSUME NEW S \in SUBSET Nat, S # {}
  PROVE  Oldest(S) \in S /\ \A y \in S : Oldest(S) <= y
  BY LeastNat DEF Oldest

(* How many of a finite set lie between y and x.                            *)
Between(S, y, x) == {z \in S : y < z /\ z < x}

LEMMA FewerAreBetween ==
  ASSUME NEW S \in SUBSET Nat, IsFiniteSet(S), NEW x \in Nat, NEW y \in S, NEW z \in S,
         y < z, z < x
  PROVE  /\ Cardinality(Between(S, z, x)) \in Nat /\ Cardinality(Between(S, y, x)) \in Nat
         /\ Cardinality(Between(S, z, x)) < Cardinality(Between(S, y, x))
<1>1. Between(S, z, x) \cup {z} \subseteq Between(S, y, x) /\ z \notin Between(S, z, x)
  <2>1. \A w \in S : z < w => y < w
    OBVIOUS
  <2>2. z \in Between(S, y, x) /\ z \notin Between(S, z, x)
    BY DEF Between
  <2>3. \A w \in Between(S, z, x) : w \in Between(S, y, x)
    BY <2>1 DEF Between
  <2> QED
    BY <2>2, <2>3
<1>2. IsFiniteSet(Between(S, z, x)) /\ IsFiniteSet(Between(S, y, x))
  BY FS_Subset DEF Between
<1>3. Cardinality(Between(S, z, x) \cup {z}) = Cardinality(Between(S, z, x)) + 1
  BY <1>1, <1>2, FS_AddElement
<1>4. Cardinality(Between(S, z, x) \cup {z}) <= Cardinality(Between(S, y, x))
  BY <1>1, <1>2, FS_Subset
<1> QED
  BY <1>2, <1>3, <1>4, FS_CardinalityType

LEMMA NewestIsGreatest ==
  ASSUME SyncTypes, history # {}
  PROVE  Newest(history) \in history /\ \A y \in history : y <= Newest(history)
<1>1. history \in SUBSET Nat /\ IsFiniteSet(history)
  BY BackfillAssumption, FS_Subset DEF SyncTypes
<1> DEFINE Above(y) == {z \in history : y < z}
           S == {Cardinality(Above(y)) : y \in history}
<1>2. \A y \in history : IsFiniteSet(Above(y)) /\ Cardinality(Above(y)) \in Nat
  BY <1>1, FS_Subset, FS_CardinalityType
<1>3. S \in SUBSET Nat /\ S # {}
  BY <1>2
<1>4. PICK n \in S : \A m \in S : n <= m
  BY <1>3, LeastNat
<1>5. PICK x \in history : n = Cardinality(Above(x))
  BY <1>4
<1>6. ASSUME NEW y \in history, x < y PROVE FALSE
  <2>1. Above(y) \cup {y} \subseteq Above(x) /\ y \notin Above(y)
    <3>1. \A z \in history : y < z => x < z
      BY <1>1, <1>5, <1>6
    <3>2. \A z \in Above(y) : z \in Above(x)
      BY <3>1
    <3>3. y \in Above(x) /\ y \notin Above(y)
      BY <1>1, <1>6
    <3> HIDE DEF Above
    <3> QED
      BY <3>2, <3>3
  <2>2. Cardinality(Above(y) \cup {y}) = Cardinality(Above(y)) + 1
    BY <1>2, <2>1, FS_AddElement
  <2>3. Cardinality(Above(y) \cup {y}) <= Cardinality(Above(x))
    BY <1>2, <2>1, FS_Subset
  <2>4. Cardinality(Above(x)) <= Cardinality(Above(y))
    BY <1>4, <1>5
  <2> HIDE DEF Above
  <2> QED
    BY <1>2, <2>2, <2>3, <2>4
<1>7. \E w \in history : \A y \in history : y <= w
  BY <1>1, <1>5, <1>6
<1> QED
  BY <1>7 DEF Newest

(* A page is what the history holds next before a signature.                *)
LEMMA PagesAreWhole ==
  ASSUME SyncTypes, NEW x \in Signatures
  PROVE  /\ PageBefore(x) \subseteq history /\ \A y \in PageBefore(x) : y < x
         /\ PageBefore(x) = {} => \A y \in history : ~(y < x)
         /\ PageBefore(x) # {} =>
              /\ Oldest(PageBefore(x)) \in PageBefore(x)
              /\ \A y \in history : Oldest(PageBefore(x)) <= y /\ y < x => y \in PageBefore(x)
<1>1. history \in SUBSET Nat /\ IsFiniteSet(history) /\ x \in Nat /\ PageLimit \in Nat \ {0}
  BY BackfillAssumption, FS_Subset DEF SyncTypes
<1>2. PageBefore(x) = {y \in history : y < x /\ Cardinality(Between(history, y, x)) < PageLimit}
  BY DEF PageBefore, Between
<1>3. \A y \in history : Cardinality(Between(history, y, x)) \in Nat
  BY <1>1, FS_Subset, FS_CardinalityType DEF Between
<1>4. ASSUME NEW y \in PageBefore(x), NEW z \in history, y <= z, z < x
      PROVE  z \in PageBefore(x)
  <2>1. y \in history /\ y < x /\ Cardinality(Between(history, y, x)) < PageLimit
    BY <1>2
  <2>2. CASE y = z
    BY <1>4, <2>2
  <2>3. CASE y < z
    <3>1. Cardinality(Between(history, z, x)) < Cardinality(Between(history, y, x))
      BY <1>1, <1>4, <2>1, <2>3, FewerAreBetween
    <3>2. Cardinality(Between(history, z, x)) < PageLimit
      BY <1>1, <1>3, <2>1, <3>1
    <3> QED
      BY <1>2, <1>4, <3>2
  <2> QED
    BY <1>1, <1>4, <2>1, <2>2, <2>3
<1>5. ASSUME PageBefore(x) = {}, NEW y \in history, y < x PROVE FALSE
  <2> DEFINE W == {w \in history : w < x}
             S == {x - z : z \in W}
  <2>1. \A w \in W : w \in Nat /\ x - w \in Nat
    BY <1>1
  <2>2. S \in SUBSET Nat /\ S # {}
    <3>1. y \in W
      BY <1>5
    <3> HIDE DEF W
    <3> QED
      BY <2>1, <3>1
  <2>3. PICK n \in S : \A m \in S : n <= m
    BY <2>2, LeastNat
  <2>4. PICK z \in W : n = x - z
    BY <2>3
  <2>5. \A w \in W : ~(z < w)
    <3> SUFFICES ASSUME NEW w \in W, z < w PROVE FALSE
      OBVIOUS
    <3>1. n <= x - w
      BY <2>3
    <3> QED
      BY <1>1, <2>1, <2>4, <3>1
  <2>6. Between(history, z, x) = {}
    BY <2>5 DEF Between
  <2>7. Cardinality(Between(history, z, x)) < PageLimit
    BY <1>1, <2>6, FS_EmptySet
  <2>8. z \in PageBefore(x)
    BY <1>2, <2>4, <2>7
  <2> QED
    BY <1>5, <2>8
<1> QED
  BY <1>1, <1>2, <1>4, <1>5, OldestIsLeast

LEMMA FloorIs ==
  ASSUME NEW slot \in Nat
  PROVE  /\ Floor(slot) \in Nat
         /\ \A n \in Nat : n >= Floor(slot) <=> n >= Cutover /\ n + Overlap >= slot
  BY BackfillAssumption DEF Floor

LEMMA BackfillInitInv == BackfillInit => BackfillInv
  BY DEF BackfillInit, BackfillInv, SyncTypes, SyncsAreSound, NothingLeftBehind, Coverage,
         BeganInHistory, ListedSoFar, StoredSoFar, Idle

(* A sync that goes on to r, and what that leaves of the others.            *)
LEMMA SyncGoesOn ==
  ASSUME BackfillInv, NEW s \in Syncs,
         NEW r \in Started \cup Listing \cup Storing \cup {Idle}, Becomes(s, r),
         stored \subseteq stored', UNCHANGED <<history, head, coverage>>,
         BeganInHistory(r), ListedSoFar(r),
         r.stage = "fetching" /\ ~r.blocked =>
           \A x \in history : x <= r.captured /\ SlotOf[x] >= Floor(SlotAt(r.from))
                                => Reached(r.captured, r.todo \cup stored', x)
  PROVE  BackfillInv'
<1> USE DEF BackfillInv
<1>1. \A q \in Syncs : sync'[q] = (IF q = s THEN r ELSE sync[q])
  BY DEF Becomes, SyncTypes
<1>2. SyncTypes'
  BY DEF Becomes, SyncTypes
<1>3. ASSUME NEW q \in Syncs
      PROVE  BeganInHistory(sync[q])' /\ ListedSoFar(sync[q])' /\ StoredSoFar(sync[q])'
  <2>1. CASE q = s
    BY <1>1, <2>1 DEF BeganInHistory, ListedSoFar, StoredSoFar
  <2>2. CASE q # s
    <3>1. sync'[q] = sync[q]
      BY <1>1, <2>2
    <3>2. BeganInHistory(sync[q]) /\ ListedSoFar(sync[q]) /\ StoredSoFar(sync[q])
      BY DEF SyncsAreSound
    <3> QED
      BY <3>1, <3>2 DEF BeganInHistory, ListedSoFar, StoredSoFar, Reached
  <2> QED
    BY <2>1, <2>2
<1>4. SyncsAreSound'
  BY <1>3 DEF SyncsAreSound, BeganInHistory, ListedSoFar, StoredSoFar
<1>5. NothingLeftBehind'
  BY DEF NothingLeftBehind, Relisted, HeadSlot
<1> QED
  BY <1>2, <1>4, <1>5

LEMMA SyncEnds ==
  ASSUME BackfillInv, NEW s \in Syncs, End(s), UNCHANGED <<history, stored, head, coverage>>
  PROVE  BackfillInv'
<1>1. Idle.stage = "idle"
  BY DEF Idle
<1> QED
  BY <1>1, SyncGoesOn DEF End, BeganInHistory, ListedSoFar

(* A signature turns up at its slot, or Late slots behind the newest.       *)
LEMMA AppearKeeps ==
  ASSUME BackfillInv, NEW x \in Signatures, Appear(x)
  PROVE  BackfillInv'
<1> USE BackfillAssumption DEF BackfillInv
<1>1. /\ history' = history \cup {x} /\ UNCHANGED <<stored, head, coverage, sync>>
      /\ \A y \in history : SlotOf[y] <= SlotOf[x] + Late
  BY DEF Appear
<1>2. SyncTypes'
  BY <1>1 DEF SyncTypes
<1>3. ASSUME NEW s \in Syncs
      PROVE  BeganInHistory(sync[s])' /\ ListedSoFar(sync[s])' /\ StoredSoFar(sync[s])'
  <2>1. BeganInHistory(sync[s]) /\ ListedSoFar(sync[s]) /\ StoredSoFar(sync[s])
    BY DEF SyncsAreSound
  <2>2. sync[s].stage \in {"listing", "fetching"} => SlotOf[sync[s].captured] <= SlotOf[x] + Late
    BY <1>1, <2>1 DEF BeganInHistory
  <2> QED
    BY <1>1, <2>1, <2>2 DEF BeganInHistory, ListedSoFar, StoredSoFar, Reached
<1>4. SyncsAreSound'
  BY <1>1, <1>3 DEF SyncsAreSound, BeganInHistory, ListedSoFar, StoredSoFar
<1>5. NothingLeftBehind'
  <2>1. SlotOf[x] >= Cutover => SlotOf[x] >= Floor(HeadSlot)
    <3>1. HeadSlot \in Nat /\ SlotOf[x] \in Nat
      BY DEF HeadSlot, SyncTypes
    <3>2. SlotOf[x] >= Cutover => SlotOf[x] + Overlap >= HeadSlot
      <4>1. CASE head = 0
        BY <3>1, <4>1 DEF HeadSlot
      <4>2. CASE head # 0
        <5>1. SlotOf[head] <= SlotOf[x] + Late /\ HeadSlot = SlotOf[head]
          BY <1>1, <4>2 DEF SyncTypes, HeadSlot
        <5> QED
          BY <3>1, <5>1
      <4> QED
        BY <4>1, <4>2
    <3> QED
      BY <3>1, <3>2, FloorIs
  <2> QED
    BY <1>1, <2>1 DEF NothingLeftBehind, Relisted, HeadSlot
<1> QED
  BY <1>2, <1>4, <1>5

LEMMA StartKeeps ==
  ASSUME BackfillInv, NEW s \in Syncs, Start(s)
  PROVE  BackfillInv'
<1> DEFINE r == [stage |-> "started", from |-> head, floor |-> Floor(HeadSlot),
                 covered |-> coverage]
<1>1. SyncTypes /\ HeadSlot = SlotAt(head) /\ HeadSlot \in Nat
  BY BackfillAssumption DEF BackfillInv, SyncTypes, HeadSlot, SlotAt
<1>2. r \in Started
  BY <1>1, FloorIs DEF Started, Heads, SyncTypes
<1>3. r.stage = "started" /\ r.from = head /\ r.floor = Floor(SlotAt(head))
  BY <1>1
<1>4. Becomes(s, r) /\ UNCHANGED <<history, stored, head, coverage>>
  BY DEF Start
<1> HIDE DEF r
<1> QED
  BY <1>1, <1>2, <1>3, <1>4, SyncGoesOn DEF BeganInHistory, ListedSoFar, SyncTypes

LEMMA CaptureKeeps ==
  ASSUME BackfillInv, NEW s \in Syncs, Capture(s)
  PROVE  BackfillInv'
<1>1. CASE history = {}
  BY <1>1, SyncEnds DEF Capture
<1>2. CASE history # {}
  <2> DEFINE q == sync[s]
             n == Newest(history)
             r == [stage |-> "listing", from |-> q.from, floor |-> q.floor,
                   covered |-> q.covered, captured |-> n, before |-> n, found |-> {n}]
  <2>1. SyncTypes /\ BeganInHistory(q) /\ q.stage = "started" /\ q \in Started
    BY DEF BackfillInv, SyncsAreSound, Capture, SyncTypes, Listing, Storing, Idle
  <2>2. n \in history /\ \A y \in history : y <= n
    BY <1>2, <2>1, NewestIsGreatest
  <2>3. q.from \in history \cup {0} /\ q.floor = Floor(SlotAt(q.from)) /\ n \in Nat
    <3>1. q # Idle
      BY <2>1 DEF Idle
    <3> QED
      BY <2>1, <2>2, <3>1, BackfillAssumption DEF BeganInHistory, SyncTypes
  <2>4. Becomes(s, r) /\ UNCHANGED <<history, stored, head, coverage>>
    BY <1>2 DEF Capture
  <2> HIDE DEF n
  <2>5. r \in Listing
    BY <2>1, <2>2 DEF Started, Listing, SyncTypes
  <2>6. /\ r.stage = "listing" /\ r.from = q.from /\ r.floor = q.floor /\ r.captured = n
        /\ r.before = n /\ r.found = {n}
    OBVIOUS
  <2> HIDE DEF r
  <2>7. BeganInHistory(r)
    <3>1. n >= q.from
      <4>1. history \subseteq Nat
        BY <2>1, BackfillAssumption DEF SyncTypes
      <4>2. q.from \in history => q.from \in Nat /\ q.from <= n
        BY <2>2, <4>1
      <4>3. n \in Nat /\ (q.from \in history \/ q.from = 0)
        BY <2>3
      <4> HIDE DEF q
      <4> QED
        BY <4>2, <4>3
    <3> QED
      BY <2>2, <2>3, <2>6, <3>1 DEF BeganInHistory
  <2>8. ListedSoFar(r)
    <3>1. \A x \in history : n <= x /\ x <= n => x = n
      BY <2>1, <2>3, BackfillAssumption DEF SyncTypes
    <3> QED
      BY <2>6, <3>1 DEF ListedSoFar, Reached
  <2> QED
    BY <2>4, <2>5, <2>6, <2>7, <2>8, SyncGoesOn
<1> QED
  BY <1>1, <1>2

(* The stages of a sync by their types. *)
LEMMA StagesOfSyncs ==
  ASSUME BackfillInv, NEW s \in Syncs
  PROVE  /\ sync[s].stage = "listing" => sync[s] \in Listing
         /\ sync[s].stage = "fetching" => sync[s] \in Storing
         /\ sync[s].stage \in {"listing", "fetching"} =>
              /\ sync[s] # Idle
              /\ sync[s].from \in history \cup {0} /\ sync[s].captured \in history
              /\ sync[s].captured >= sync[s].from
         /\ BeganInHistory(sync[s]) /\ ListedSoFar(sync[s]) /\ StoredSoFar(sync[s])
<1>1. sync[s] \in Started \cup Listing \cup Storing \cup {Idle} /\ BeganInHistory(sync[s])
      /\ ListedSoFar(sync[s]) /\ StoredSoFar(sync[s])
  BY DEF BackfillInv, SyncTypes, SyncsAreSound
<1>2. sync[s].stage \in {"listing", "fetching"} => sync[s] # Idle
  BY DEF Idle
<1>3. /\ sync[s].stage = "listing" => sync[s] \in Listing
      /\ sync[s].stage = "fetching" => sync[s] \in Storing
  BY <1>1 DEF Started, Listing, Storing, Idle
<1> QED
  BY <1>1, <1>2, <1>3 DEF BeganInHistory

LEMMA ListKeeps ==
  ASSUME BackfillInv, NEW s \in Syncs, List(s)
  PROVE  BackfillInv'
<1> DEFINE q == sync[s]
           page == PageBefore(q.before)
           kept == q.found \cup {x \in page : SlotOf[x] >= q.floor}
           ended == page = {} \/ SlotOf[Oldest(page)] < q.floor
<1>1. /\ q.stage = "listing" /\ q \in Listing /\ SyncTypes
      /\ q.from \in history \cup {0} /\ q.captured \in history /\ q.captured >= q.from
      /\ q.floor = Floor(SlotAt(q.from)) /\ ListedSoFar(q)
      /\ UNCHANGED <<history, stored, head, coverage>>
  BY StagesOfSyncs DEF List, BeganInHistory, BackfillInv
<1>2. q.before \in Signatures /\ q.floor \in Nat /\ q.found \subseteq Signatures
  BY <1>1 DEF Listing
<1>3. /\ page \subseteq history
      /\ page = {} => \A y \in history : ~(y < q.before)
      /\ page # {} => /\ Oldest(page) \in page
                      /\ \A y \in history : Oldest(page) <= y /\ y < q.before => y \in page
  BY <1>1, <1>2, PagesAreWhole
<1>4. kept \subseteq Signatures
  BY <1>1, <1>2, <1>3 DEF SyncTypes
<1>5. \A x \in history : x \in Nat /\ x \in Signatures /\ SlotOf[x] \in Nat
  BY <1>1, BackfillAssumption DEF SyncTypes
<1>6. \A x \in history : q.before <= x /\ x <= q.captured /\ SlotOf[x] >= q.floor
                           => Reached(q.captured, kept, x)
  BY <1>1 DEF ListedSoFar, Reached
<1>7. \A x \in page : SlotOf[x] >= q.floor => Reached(q.captured, kept, x)
  BY DEF Reached
<1>8. q.before \in Nat
  BY <1>2, BackfillAssumption
<1>9. CASE ended
  <2> DEFINE r == [stage |-> "fetching", from |-> q.from, covered |-> q.covered,
                   captured |-> q.captured, todo |-> kept, blocked |-> FALSE, refused |-> FALSE]
  <2>1. Becomes(s, r)
    BY <1>9 DEF List
  <2>2. ASSUME NEW x \in history, x <= q.captured, SlotOf[x] >= q.floor
        PROVE  Reached(q.captured, kept, x)
    <3>1. CASE q.before <= x
      BY <1>6, <2>2, <3>1
    <3>2. CASE x < q.before
      <4>1. page # {} /\ SlotOf[Oldest(page)] < q.floor /\ Oldest(page) \in history
        BY <1>3, <1>9, <3>2
      <4>2. Oldest(page) <= x
        <5> SUFFICES ASSUME x < Oldest(page) PROVE FALSE
          BY <1>5, <4>1
        <5>1. SlotOf[x] <= SlotOf[Oldest(page)]
          BY <1>5, <4>1, BackfillAssumption
        <5> QED
          BY <1>2, <1>5, <2>2, <4>1, <5>1
      <4>3. x \in page
        BY <1>3, <3>2, <4>1, <4>2
      <4> QED
        BY <1>7, <2>2, <4>3
    <3> QED
      BY <1>5, <1>8, <3>1, <3>2
  <2>3. r \in Storing
    BY <1>1, <1>4 DEF Listing, Storing
  <2>4. /\ r.stage = "fetching" /\ r.from = q.from /\ r.captured = q.captured /\ r.todo = kept
    OBVIOUS
  <2> HIDE DEF r, kept
  <2>5. BeganInHistory(r) /\ ListedSoFar(r)
    BY <1>1, <2>4 DEF BeganInHistory, ListedSoFar
  <2>6. \A x \in history : x <= r.captured /\ SlotOf[x] >= Floor(SlotAt(r.from))
                              => Reached(r.captured, r.todo \cup stored', x)
    BY <1>1, <2>2, <2>4 DEF Reached
  <2> QED
    BY <1>1, <2>1, <2>3, <2>5, <2>6, SyncGoesOn
<1>10. CASE ~ended
  <2> DEFINE r == [q EXCEPT !.found = kept, !.before = Oldest(page)]
  <2>1. Becomes(s, r)
    BY <1>10 DEF List
  <2>2. Oldest(page) \in Signatures /\ Oldest(page) \in history
    BY <1>3, <1>5, <1>10
  <2>3. ASSUME NEW x \in history, Oldest(page) <= x, x <= q.captured, SlotOf[x] >= q.floor
        PROVE  Reached(q.captured, kept, x)
    <3>1. CASE q.before <= x
      BY <1>6, <2>3, <3>1
    <3>2. CASE x < q.before
      BY <1>3, <1>7, <1>10, <2>3, <3>2
    <3> QED
      BY <1>5, <1>8, <3>1, <3>2
  <2> HIDE DEF kept, page
  <2>4. /\ r \in Listing /\ r.stage = "listing" /\ r.from = q.from /\ r.captured = q.captured
        /\ r.floor = q.floor /\ r.found = kept /\ r.before = Oldest(page)
    BY <1>1, <1>4, <2>2 DEF Listing
  <2> HIDE DEF r
  <2>5. BeganInHistory(r)
    BY <1>1, <2>4 DEF BeganInHistory
  <2>6. ListedSoFar(r)
    BY <2>3, <2>4 DEF ListedSoFar
  <2> QED
    BY <1>1, <2>1, <2>4, <2>5, <2>6, SyncGoesOn
<1> QED
  BY <1>9, <1>10

(* One signature less to fetch: stored, or the sync is blocked.             *)
LEMMA FetchKeeps ==
  ASSUME BackfillInv, NEW s \in Syncs, NEW blocked \in BOOLEAN, NEW refused \in BOOLEAN,
         Fetching(s), Done(s, blocked, refused),
         stored' = stored \cup (IF blocked THEN {} ELSE {NextOf(s)}),
         UNCHANGED <<history, head, coverage>>
  PROVE  BackfillInv'
<1> DEFINE q == sync[s]
           r == [q EXCEPT !.todo = @ \ {NextOf(s)}, !.blocked = @ \/ blocked,
                          !.refused = @ \/ refused]
<1>1. /\ q.stage = "fetching" /\ q \in Storing /\ Becomes(s, r)
      /\ q.from \in history \cup {0} /\ q.captured \in history /\ q.captured >= q.from
      /\ StoredSoFar(q)
  BY StagesOfSyncs DEF Fetching, Done
<1>2. /\ r \in Storing /\ r.stage = "fetching" /\ r.from = q.from /\ r.captured = q.captured
      /\ r.todo = q.todo \ {NextOf(s)} /\ (r.blocked = (q.blocked \/ blocked))
  <2> DEFINE todo == q.todo \ {NextOf(s)}
             b == q.blocked \/ blocked
             f == q.refused \/ refused
  <2>1. todo \in SUBSET Signatures /\ b \in BOOLEAN /\ f \in BOOLEAN
    BY <1>1 DEF Storing
  <2>2. r = [q EXCEPT !.todo = todo, !.blocked = b, !.refused = f]
    OBVIOUS
  <2> HIDE DEF todo, b, f, r
  <2>3. /\ r \in Storing /\ r.stage = "fetching" /\ r.from = q.from
        /\ r.captured = q.captured /\ r.todo = todo /\ r.blocked = b
    BY <1>1, <2>1, <2>2 DEF Storing
  <2> QED
    BY <2>3 DEF todo, b
<1> HIDE DEF r
<1>3. BeganInHistory(r) /\ ListedSoFar(r)
  BY <1>1, <1>2 DEF BeganInHistory, ListedSoFar
<1>4. r.stage = "fetching" /\ ~r.blocked =>
        \A x \in history : x <= r.captured /\ SlotOf[x] >= Floor(SlotAt(r.from))
                             => Reached(r.captured, r.todo \cup stored', x)
  BY <1>1, <1>2 DEF StoredSoFar, Reached
<1> QED
  BY <1>1, <1>2, <1>3, <1>4, SyncGoesOn

(* The cursor moves to what was captured: all before it is stored, and what *)
(* turned up since lies within the overlap.                                 *)
LEMMA CompleteKeeps ==
  ASSUME BackfillInv, NEW s \in Syncs, Complete(s)
  PROVE  BackfillInv'
<1> DEFINE q == sync[s]
<1>1. CASE ~Advances(s)
  BY <1>1, SyncEnds DEF Complete
<1>2. CASE Advances(s)
  <2>1. /\ q.stage = "fetching" /\ q \in Storing /\ q.todo = {} /\ ~q.blocked /\ head = q.from
        /\ head' = q.captured /\ coverage' = CoverageAfter(s) /\ UNCHANGED <<history, stored>>
        /\ Becomes(s, Idle) /\ q.captured \in history /\ StoredSoFar(q) /\ SyncTypes
    BY <1>2, StagesOfSyncs DEF Complete, Advances, End, BackfillInv
  <2>2. \A p \in Syncs : sync'[p] = (IF p = s THEN Idle ELSE sync[p])
    BY <2>1 DEF Becomes, SyncTypes
  <2>3. SyncTypes'
    <3>1. coverage' \in Coverage
      BY <2>1 DEF CoverageAfter, Storing, Coverage
    <3> QED
      BY <2>1, <3>1 DEF SyncTypes, Becomes
  <2>4. ASSUME NEW p \in Syncs
        PROVE  BeganInHistory(sync[p])' /\ ListedSoFar(sync[p])' /\ StoredSoFar(sync[p])'
    <3>1. Idle.stage = "idle"
      BY DEF Idle
    <3>2. CASE p = s
      BY <2>2, <3>1, <3>2 DEF BeganInHistory, ListedSoFar, StoredSoFar
    <3>3. CASE p # s
      <4>1. sync'[p] = sync[p]
        BY <2>2, <3>3
      <4> QED
        BY <2>1, <4>1, StagesOfSyncs DEF BeganInHistory, ListedSoFar, StoredSoFar, Reached
    <3> QED
      BY <3>2, <3>3
  <2>5. SyncsAreSound'
    BY <2>4 DEF SyncsAreSound, BeganInHistory, ListedSoFar, StoredSoFar
  <2>6. NothingLeftBehind'
    <3> SUFFICES ASSUME NEW x \in history \ stored, SlotOf[x] >= Cutover
                 PROVE  SlotOf[x] >= Floor(SlotOf[q.captured])
      <4>1. q.captured # 0 /\ HeadSlot' = SlotOf[q.captured]
        BY <2>1, BackfillAssumption DEF HeadSlot, SyncTypes
      <4> QED
        BY <2>1, <4>1 DEF NothingLeftBehind, Relisted
    <3> DEFINE c == q.captured
    <3>1. /\ x \in Signatures /\ c \in Signatures /\ x \in Nat /\ c \in Nat
          /\ SlotOf[x] \in Nat /\ SlotOf[c] \in Nat /\ Cutover \in Nat /\ Overlap \in Nat
          /\ Late \in Nat /\ Late <= Overlap
      <4>1. x \in Signatures /\ c \in Signatures
        BY <2>1 DEF SyncTypes
      <4>2. Signatures \subseteq Nat /\ SlotOf \in [Signatures -> Nat]
            /\ Cutover \in Nat /\ Overlap \in Nat /\ Late \in 0..Overlap
        BY BackfillAssumption
      <4> HIDE DEF c
      <4> QED
        BY <4>1, <4>2
    <3> HIDE DEF c
    <3>2. SlotOf[x] + Overlap >= SlotOf[c]
      <4>1. CASE x <= c
        <5>1. SlotOf[x] >= Floor(SlotAt(q.from))
          BY <2>1 DEF BackfillInv, NothingLeftBehind, Relisted, HeadSlot, SlotAt
        <5>2. SlotOf[c] <= SlotOf[x] + Late
          BY <2>1, <4>1, <5>1 DEF StoredSoFar, Reached, c
        <5> QED
          BY <3>1, <5>2
      <4>2. CASE c < x
        <5>1. SlotOf[c] <= SlotOf[x]
          BY <3>1, <4>2, BackfillAssumption
        <5> QED
          BY <3>1, <5>1
      <4> QED
        BY <3>1, <4>1, <4>2
    <3> QED
      BY <3>1, <3>2, FloorIs DEF c
  <2> QED
    BY <2>3, <2>5, <2>6 DEF BackfillInv
<1> QED
  BY <1>1, <1>2

LEMMA BackfillStep == BackfillInv /\ [BackfillNext]_backfill => BackfillInv'
<1> SUFFICES ASSUME BackfillInv, [BackfillNext]_backfill PROVE BackfillInv'
  OBVIOUS
<1>1. ASSUME NEW x \in Signatures, Appear(x) PROVE BackfillInv'
  BY <1>1, AppearKeeps
<1>2. ASSUME NEW s \in Syncs, Start(s) \/ Capture(s) \/ List(s) \/ Complete(s)
      PROVE  BackfillInv'
  BY <1>2, StartKeeps, CaptureKeeps, ListKeeps, CompleteKeeps
<1>3. ASSUME NEW s \in Syncs, ListFails(s) \/ Die(s) PROVE BackfillInv'
  BY <1>3, SyncEnds DEF ListFails, Die
<1>4. ASSUME NEW s \in Syncs, NEW refused \in BOOLEAN, Fetch(s, refused) PROVE BackfillInv'
  BY <1>4, FetchKeeps DEF Fetch
<1>5. ASSUME NEW s \in Syncs, FetchFails(s) PROVE BackfillInv'
  BY <1>5, FetchKeeps DEF FetchFails
<1>6. ASSUME UNCHANGED <<history, stored, head, coverage, sync>> PROVE BackfillInv'
  <2>1. SyncTypes' /\ NothingLeftBehind'
    BY <1>6 DEF BackfillInv, SyncTypes, NothingLeftBehind, Relisted, HeadSlot
  <2>2. SyncsAreSound'
    BY <1>6 DEF BackfillInv, SyncsAreSound, BeganInHistory, ListedSoFar, StoredSoFar, Reached
  <2> QED
    BY <2>1, <2>2 DEF BackfillInv
<1>7. ASSUME NEW s \in Syncs, LoseLock(s) PROVE BackfillInv'
  BY <1>6, <1>7 DEF LoseLock
<1>8. CASE UNCHANGED backfill
  BY <1>6, <1>8 DEF backfill
<1> QED
  BY <1>1, <1>2, <1>3, <1>4, <1>5, <1>7, <1>8 DEF BackfillNext, SyncStep

LEMMA BackfillInvariance == BackfillSpec => []BackfillInv
  BY BackfillInitInv, BackfillStep, PTL DEF BackfillSpec

(* What the cursor of a target has passed is stored, or lies where the next *)
(* sync lists.                                                              *)
THEOREM CursorLeavesNothing == BackfillSpec => []NothingLeftBehind
  BY BackfillInvariance, PTL DEF BackfillInv

(* The cursor never goes back. *)
THEOREM CursorMovesForward == BackfillSpec => HeadOnlyMovesForward
<1>1. BackfillInv /\ [BackfillNext]_backfill => [head' >= head]_backfill
  <2> SUFFICES ASSUME BackfillInv, BackfillNext PROVE head' >= head
    OBVIOUS
  <2>1. head \in Nat
    BY BackfillAssumption DEF BackfillInv, SyncTypes
  <2>2. ASSUME NEW s \in Syncs, Complete(s) PROVE head' >= head
    BY <2>1, <2>2, StagesOfSyncs DEF Complete, Advances
  <2>3. ASSUME UNCHANGED head PROVE head' >= head
    BY <2>1, <2>3
  <2> QED
    BY <2>2, <2>3 DEF BackfillNext, Appear, SyncStep, Start, Capture, List, ListFails, Fetch,
                      FetchFails, Die, LoseLock
<1> QED
  BY <1>1, BackfillInvariance, PTL DEF BackfillSpec, HeadOnlyMovesForward

-----------------------------------------------------------------------------
(* IngestionSweep: sets of numbers and batches of them. *)

(* A set is larger than one of its parts by any element that it adds. *)
LEMMA OneMore ==
  ASSUME NEW S, IsFiniteSet(S), NEW T \in SUBSET S, NEW x \in S, x \notin T
  PROVE  /\ Cardinality(S) \in Nat /\ Cardinality(T) \in Nat
         /\ Cardinality(T) + 1 <= Cardinality(S)
<1>1. IsFiniteSet(T) /\ Cardinality(T) \in Nat /\ Cardinality(S) \in Nat
  BY FS_Subset, FS_CardinalityType
<1>2. IsFiniteSet(T \cup {x}) /\ Cardinality(T \cup {x}) = Cardinality(T) + 1
  BY <1>1, FS_AddElement
<1>3. Cardinality(T \cup {x}) <= Cardinality(S)
  BY FS_Subset
<1> QED
  BY <1>1, <1>2, <1>3

(* Two parts that have nothing in common are not more than the whole. *)
LEMMA TwoParts ==
  ASSUME NEW S, IsFiniteSet(S), NEW T \in SUBSET S, NEW U \in SUBSET S, T \cap U = {}
  PROVE  /\ Cardinality(S) \in Nat /\ Cardinality(T) \in Nat /\ Cardinality(U) \in Nat
         /\ Cardinality(T) + Cardinality(U) <= Cardinality(S)
<1>1. /\ IsFiniteSet(T) /\ IsFiniteSet(U)
      /\ Cardinality(T) \in Nat /\ Cardinality(U) \in Nat /\ Cardinality(S) \in Nat
  BY FS_Subset, FS_CardinalityType
<1>2. Cardinality(T \cup U) = Cardinality(T) + Cardinality(U)
  BY <1>1, FS_Union, FS_EmptySet
<1>3. Cardinality(T \cup U) <= Cardinality(S)
  BY FS_Subset
<1> QED
  BY <1>1, <1>2, <1>3

(* The elements of R before x. *)
Under(R, x) == {y \in R : y < x}

LEMMA UnderGrows ==
  ASSUME NEW R \in SUBSET Nat, IsFiniteSet(R), NEW x \in R
  PROVE  /\ Under(R, x) \in SUBSET R /\ IsFiniteSet(Under(R, x)) /\ x \notin Under(R, x)
         /\ Cardinality(Under(R, x)) \in Nat /\ Cardinality(Under(R, x)) <= Cardinality(R)
         /\ \A y \in R : x < y => x \in Under(R, y) /\ Under(R, x) \in SUBSET Under(R, y)
<1>1. \A z \in R : z \in Nat
  OBVIOUS
<1>2. ~(x < x) /\ \A y, z \in R : x < y /\ z < x => z < y
  BY <1>1
<1>3. Under(R, x) \in SUBSET R /\ x \notin Under(R, x)
  BY <1>2 DEF Under
<1>4. \A y \in R : x < y => x \in Under(R, y) /\ Under(R, x) \in SUBSET Under(R, y)
  BY <1>2 DEF Under
<1> QED
  BY <1>3, <1>4, FS_Subset, FS_CardinalityType

LEMMA MaxIsGreatest ==
  ASSUME NEW S \in SUBSET Nat, IsFiniteSet(S), S # {}
  PROVE  Max(S) \in S /\ \A y \in S : y <= Max(S)
<1> DEFINE Below(x) == Under(S, x)
           Missing == {n \in Nat : \E x \in S : n = Cardinality(S) - Cardinality(Below(x))}
<1>0. \A x \in S : x \in Nat
  OBVIOUS
<1>1. Cardinality(S) \in Nat
  BY FS_CardinalityType
<1>2. \A x \in S : Cardinality(Below(x)) \in Nat /\ Cardinality(Below(x)) <= Cardinality(S)
  BY UnderGrows
<1>3. PICK n \in Missing : \A m \in Missing : n <= m
  <2>1. PICK x \in S : TRUE
    OBVIOUS
  <2>2. Cardinality(S) - Cardinality(Below(x)) \in Missing
    <3>1. Cardinality(S) - Cardinality(Below(x)) \in Nat
      <4> HIDE DEF Below
      <4> QED BY <1>1, <1>2, <2>1
    <3> HIDE DEF Below
    <3> QED BY <2>1, <3>1
  <2>3. Missing \in SUBSET Nat /\ Missing # {}
    BY <2>2
  <2> HIDE DEF Missing
  <2> QED
    BY <2>3, LeastNat
<1>4. PICK x \in S : n = Cardinality(S) - Cardinality(Below(x))
  BY <1>3
<1>5. ASSUME NEW y \in S, x < y PROVE FALSE
  <2>1. Below(x) \in SUBSET Below(y) /\ x \in Below(y) /\ x \notin Below(x)
    BY <1>5, UnderGrows
  <2>2. IsFiniteSet(Below(y))
    BY UnderGrows
  <2>3. Cardinality(Below(x)) + 1 <= Cardinality(Below(y))
    <3> HIDE DEF Below
    <3> QED BY <2>1, <2>2, OneMore
  <2>4. Cardinality(S) - Cardinality(Below(y)) \in Missing
    <3> HIDE DEF Below
    <3> QED BY <1>1, <1>2
  <2>5. n <= Cardinality(S) - Cardinality(Below(y))
    BY <1>3, <2>4
  <2> HIDE DEF Below, Missing
  <2> QED
    BY <1>1, <1>2, <1>4, <2>3, <2>5
<1>6. \A y \in S : x >= y
  BY <1>5
<1> QED
  BY <1>6 DEF Max

(* ORDER BY id LIMIT n takes the first ones: at most n, all if they are     *)
(* fewer, and none of those left comes before one taken.                    *)
LEMMA FirstAreTaken ==
  ASSUME NEW R \in SUBSET Nat, IsFiniteSet(R), NEW n \in Nat \ {0}
  PROVE  /\ FirstOf(R, n) \in SUBSET R /\ IsFiniteSet(FirstOf(R, n))
         /\ Cardinality(FirstOf(R, n)) \in Nat
         /\ Cardinality(FirstOf(R, n)) <= n
         /\ R # {} => FirstOf(R, n) # {}
         /\ Cardinality(FirstOf(R, n)) # n => FirstOf(R, n) = R
         /\ \A x \in FirstOf(R, n), y \in R \ FirstOf(R, n) : x < y
<1> DEFINE Below(x) == Under(R, x)
           S == FirstOf(R, n)
<1>0. \A x \in R : x \in Nat
  OBVIOUS
<1>1. S = {x \in R : Cardinality(Below(x)) < n}
  BY DEF FirstOf, Under
<1> HIDE DEF S
<1>2. S \in SUBSET R /\ IsFiniteSet(S) /\ Cardinality(S) \in Nat
  BY <1>1, FS_Subset, FS_CardinalityType
<1>3. \A x \in R : IsFiniteSet(Below(x)) /\ Cardinality(Below(x)) \in Nat
  BY UnderGrows
<1>4. Cardinality(S) <= n
  <2>1. CASE S = {}
    BY <2>1, FS_EmptySet
  <2>2. CASE S # {}
    <3>1. Max(S) \in S /\ \A y \in S : y <= Max(S)
      BY <1>2, <2>2, MaxIsGreatest
    <3>2. S \in SUBSET (Below(Max(S)) \cup {Max(S)})
      <4>0. Max(S) \in Nat /\ \A y \in S : y \in Nat
        BY <1>0, <1>2, <3>1
      <4>1. \A y \in S : y < Max(S) \/ y = Max(S)
        BY <3>1, <4>0
      <4> QED
        BY <1>2, <4>1 DEF Under
    <3>3. Cardinality(Below(Max(S))) < n /\ Max(S) \notin Below(Max(S))
      <4>1. Max(S) \in R
        BY <1>2, <3>1
      <4>2. Max(S) \notin Below(Max(S))
        BY <4>1, UnderGrows
      <4> HIDE DEF Below
      <4> QED
        BY <1>1, <3>1, <4>2
    <3>4. /\ IsFiniteSet(Below(Max(S)) \cup {Max(S)})
          /\ Cardinality(Below(Max(S)) \cup {Max(S)}) = Cardinality(Below(Max(S))) + 1
      BY <1>2, <1>3, <3>1, <3>3, FS_AddElement
    <3>5. Cardinality(S) <= Cardinality(Below(Max(S)) \cup {Max(S)})
      BY <3>2, <3>4, FS_Subset
    <3>6. Cardinality(Below(Max(S))) \in Nat
      BY <1>2, <1>3, <3>1
    <3> HIDE DEF Below
    <3> QED
      BY <1>2, <3>3, <3>4, <3>5, <3>6
  <2> QED
    BY <2>1, <2>2
<1>5. \A x \in S, y \in R \ S : x < y
  <2>1. SUFFICES ASSUME NEW x \in S, NEW y \in R, y <= x PROVE y \in S
    BY <1>2
  <2>2. Below(y) \in SUBSET Below(x) /\ IsFiniteSet(Below(x))
    <3>1. CASE y = x
      BY <1>2, <1>3, <2>1, <3>1
    <3>2. CASE y # x
      <4>1. y < x /\ x \in R
        BY <1>0, <1>2, <2>1, <3>2
      <4> QED
        BY <1>3, <4>1, UnderGrows
    <3> QED
      BY <3>1, <3>2
  <2>3. Cardinality(Below(y)) <= Cardinality(Below(x))
    BY <2>2, FS_Subset
  <2>4. Cardinality(Below(x)) < n /\ Cardinality(Below(x)) \in Nat
    BY <1>1, <1>2, <1>3
  <2>5. Cardinality(Below(y)) < n
    BY <1>3, <2>1, <2>3, <2>4
  <2> QED
    BY <1>1, <2>1, <2>5
<1>6. ASSUME S # R PROVE S # {} /\ Cardinality(S) = n
  <2>1. PICK y \in R \ S : \A z \in R \ S : y <= z
    <3>1. R \ S \in SUBSET Nat /\ R \ S # {}
      BY <1>2, <1>6
    <3> QED
      BY <3>1, LeastNat
  <2>2. Below(y) \in SUBSET S
    <3>1. \A z \in R : z < y => z \in S
      BY <1>0, <2>1
    <3> QED
      BY <3>1 DEF Under
  <2>3. Cardinality(Below(y)) <= Cardinality(S) /\ Cardinality(Below(y)) \in Nat
    BY <1>2, <1>3, <2>1, <2>2, FS_Subset
  <2>4. ~(Cardinality(Below(y)) < n)
    BY <1>1, <2>1
  <2>5. Cardinality(S) = n
    BY <1>2, <1>4, <2>3, <2>4
  <2> QED
    BY <2>5, FS_EmptySet
<1> QED
  BY <1>2, <1>4, <1>5, <1>6 DEF S

-----------------------------------------------------------------------------
(* IngestionSweep: the walk over organizations. *)

Cursor == [organization : Organizations \cup {NoId}, target : Targets \cup {NoId}]

SweepTypes ==
  /\ listed \in SUBSET Organizations /\ active \in SUBSET Targets
  /\ at \in Cursor /\ after \in Organizations \cup {NoId}
  /\ waits \in [Targets -> Nat] /\ passed \in [Organizations -> Nat]
  /\ \A t \in active : OwnerOf[t] \in listed
  /\ \A t \in Targets \ active : waits[t] = 0
  /\ \A o \in Organizations \ listed : passed[o] = 0

(* Since an organization was visited, each execution has moved the cursor   *)
(* by one other at least: up from it, and around to what lies before it.    *)
FromTo(x, y) == {o \in Organizations : x < o /\ o <= y}
PassedBy(o) ==
  IF o <= after THEN FromTo(o, after)
  ELSE {x \in Organizations : o < x \/ x <= after}

OrganizationsTakeTurns ==
  \A o \in listed : passed[o] <= Cardinality(PassedBy(o))

(* What a batch of organizations is. *)
LEMMA NextOrganizations ==
  ASSUME listed \in SUBSET Organizations, NEW id \in Nat, NEW n \in Nat \ {0}
  PROVE  LET batch == OrganizationsAfter(id, n)
         IN  /\ batch \in SUBSET listed /\ IsFiniteSet(batch)
             /\ listed # {} => batch # {}
             /\ \/ /\ \A x \in batch : id < x
                   /\ \A x \in batch, y \in listed \ batch : id < y => x < y
                \/ /\ \A x \in listed : x <= id
                   /\ \A x \in batch, y \in listed \ batch : x < y
<1> DEFINE batch == OrganizationsAfter(id, n)
<1>1. /\ listed \in SUBSET Nat /\ IsFiniteSet(listed)
      /\ Beyond(listed, id) \in SUBSET Nat /\ IsFiniteSet(Beyond(listed, id))
  BY SweepAssumption, FS_Subset DEF Beyond
<1>2. CASE Beyond(listed, id) = {}
  <2>1. batch = FirstOf(listed, n)
    BY <1>2 DEF OrganizationsAfter
  <2>2. \A x \in listed : x <= id
    <3>1. \A x \in listed : x \in Nat /\ ~(x > id)
      BY <1>1, <1>2 DEF Beyond
    <3> QED
      BY <3>1
  <2> HIDE DEF batch
  <2>3. /\ batch \in SUBSET listed /\ IsFiniteSet(batch) /\ (listed # {} => batch # {})
        /\ \A x \in batch, y \in listed \ batch : x < y
    BY <1>1, <2>1, FirstAreTaken
  <2> QED
    BY <2>2, <2>3 DEF batch
<1>3. CASE Beyond(listed, id) # {}
  <2>1. batch = FirstOf(Beyond(listed, id), n)
    BY <1>3 DEF OrganizationsAfter
  <2> HIDE DEF batch
  <2>2. /\ batch \in SUBSET Beyond(listed, id) /\ IsFiniteSet(batch) /\ batch # {}
        /\ \A x \in batch, y \in Beyond(listed, id) \ batch : x < y
    BY <1>1, <1>3, <2>1, FirstAreTaken
  <2>3. \A x \in listed : x \in Nat /\ (x \in Beyond(listed, id) <=> id < x)
    BY <1>1 DEF Beyond
  <2>4. Beyond(listed, id) \in SUBSET listed
    BY DEF Beyond
  <2>5. /\ batch \in SUBSET listed
        /\ \A x \in batch : id < x
        /\ \A x \in batch, y \in listed \ batch : id < y => x < y
    BY <2>2, <2>3, <2>4
  <2> QED
    BY <2>2, <2>5 DEF batch
<1> QED
  BY <1>2, <1>3

LEMMA PassedByIsFinite ==
  ASSUME NEW o
  PROVE  /\ PassedBy(o) \in SUBSET Organizations /\ IsFiniteSet(PassedBy(o))
         /\ Cardinality(PassedBy(o)) \in Nat
         /\ Cardinality(PassedBy(o)) <= Cardinality(Organizations)
<1>1. PassedBy(o) \in SUBSET Organizations
  BY DEF PassedBy, FromTo
<1> QED
  BY <1>1, SweepAssumption, FS_Subset, FS_CardinalityType

(* An execution that does not visit an organization moves the cursor.       *)
LEMMA VisitsMoveOn ==
  ASSUME SweepTypes, OrganizationsTakeTurns, VisitOrganizations
  PROVE  OrganizationsTakeTurns' /\ after' \in Organizations \cup {NoId}
<1> DEFINE batch == OrganizationsAfter(after, BatchSize)
<1>1. /\ after \in Nat /\ listed \in SUBSET Organizations
      /\ \A o \in Organizations : o \in Nat /\ o > 0
      /\ BatchSize \in Nat \ {0} /\ listed' = listed
  BY SweepAssumption DEF SweepTypes, VisitOrganizations
<1>2. /\ after' = (IF batch = {} THEN NoId ELSE Max(batch))
      /\ \A o \in listed : passed'[o] = IF o \in batch THEN 0 ELSE passed[o] + 1
  BY <1>1 DEF VisitOrganizations
<1>3. /\ batch \in SUBSET listed /\ IsFiniteSet(batch)
      /\ listed # {} => batch # {}
      /\ \/ /\ \A x \in batch : after < x
            /\ \A x \in batch, y \in listed \ batch : after < y => x < y
         \/ /\ \A x \in listed : x <= after
            /\ \A x \in batch, y \in listed \ batch : x < y
  BY <1>1, NextOrganizations
<1> HIDE DEF batch
<1>4. batch # {} => Max(batch) \in batch /\ \A x \in batch : x <= Max(batch)
  <2>1. batch \in SUBSET Nat
    BY <1>1, <1>3
  <2> QED
    BY <1>3, <2>1, MaxIsGreatest
<1>5. after' \in Organizations \cup {NoId}
  BY <1>1, <1>2, <1>3, <1>4
<1>6. ASSUME NEW o \in listed PROVE passed'[o] <= Cardinality(PassedBy(o)')
  <2>1. /\ IsFiniteSet(PassedBy(o)') /\ Cardinality(PassedBy(o)') \in Nat
        /\ Cardinality(PassedBy(o)) \in Nat
    <3>1. PassedBy(o)' \in SUBSET Organizations
      BY DEF PassedBy, FromTo
    <3>2. IsFiniteSet(PassedBy(o)')
      BY <3>1, SweepAssumption, FS_Subset
    <3> QED
      BY <3>2, PassedByIsFinite, FS_CardinalityType
  <2>2. CASE o \in batch
    BY <1>2, <2>1, <2>2
  <2>3. CASE o \notin batch
    <3>1. batch # {} /\ after' \in batch /\ after' \in Organizations /\ after' \in Nat
          /\ o \in Nat /\ o # after'
      BY <1>1, <1>2, <1>3, <1>4, <2>3
    <3>2. PassedBy(o) \in SUBSET PassedBy(o)' /\ after' \in PassedBy(o)'
          /\ after' \notin PassedBy(o)
      <4>1. CASE after < after' /\ (after < o => after' < o)
        <5>1. o <= after' <=> o <= after
          BY <1>1, <3>1, <4>1
        <5>2. \A x \in Organizations : x <= after => x <= after'
          BY <1>1, <3>1, <4>1
        <5>3. ~(after' <= after) /\ after' <= after' /\ (o <= after => o < after')
              /\ (~(o <= after) => ~(o < after'))
          BY <1>1, <3>1, <4>1
        <5> QED
          BY <3>1, <5>1, <5>2, <5>3 DEF PassedBy, FromTo
      <4>2. CASE o <= after /\ after' < o
        <5>1. ~(o <= after') /\ ~(o < after') /\ after' <= after'
          BY <1>1, <3>1, <4>2
        <5> QED
          BY <3>1, <4>2, <5>1 DEF PassedBy, FromTo
      <4> QED
        BY <1>3, <2>3, <3>1, <4>1, <4>2
    <3>3. Cardinality(PassedBy(o)) + 1 <= Cardinality(PassedBy(o)')
      BY <2>1, <3>2, OneMore
    <3>4. passed[o] <= Cardinality(PassedBy(o)) /\ passed'[o] = passed[o] + 1
          /\ passed[o] \in Nat
      BY <1>1, <1>2, <2>3 DEF OrganizationsTakeTurns, SweepTypes
    <3> QED
      BY <2>1, <3>3, <3>4
  <2> QED
    BY <2>2, <2>3
<1> QED
  BY <1>1, <1>5, <1>6 DEF OrganizationsTakeTurns

-----------------------------------------------------------------------------
(* IngestionSweep: the walk over targets.                                   *)

(* The targets of an organization, those that a walk through them has       *)
(* reached, and the full batches that so many targets make.                 *)
Mine(o) == {t \in Targets : OwnerOf[t] = o}
UpTo(o, x) == {s \in Mine(o) : s <= x}
Upward(t, x) == {s \in Mine(OwnerOf[t]) : t < s /\ s <= x}
Later(t) == {s \in Mine(OwnerOf[t]) : t < s}
Full(S) == Cardinality(S) \div BatchSize

(* What of the walk lies behind a cursor: an organization has had all of    *)
(* its turns, or one for each full batch up to the cursor's target.         *)
TurnsTaken(c) ==
  IF c.target = NoId THEN Turns(c.organization) ELSE Full(UpTo(c.organization, c.target))
Behind(c) ==
  {x \in Walk : \/ x[1] < c.organization
                \/ x[1] = c.organization /\ x[2] <= TurnsTaken(c)}
After(S, o) == {x \in S : x[1] > o}
Others(o) == {x \in Walk : x[1] # o}

(* The turns that a target may have waited for: those left to its own       *)
(* organization when it was synced, those of the organizations behind, and  *)
(* those of its own before it.                                              *)
StillToCome(t) == Full(Later(t)) + 1
MayWait(t, c) ==
  LET o == OwnerOf[t]
  IN  IF c.organization = o
      THEN IF c.target = NoId THEN StillToCome(t)
           ELSE IF t <= c.target THEN Full(Upward(t, c.target))
           ELSE StillToCome(t) + Cardinality(Others(o)) + Full(UpTo(o, c.target))
      ELSE IF o < c.organization THEN StillToCome(t) + Cardinality(After(Behind(c), o))
      ELSE StillToCome(t) + Cardinality(After(Walk, o)) + Cardinality(Behind(c))

(* The target of a cursor ends a full batch. *)
CursorIsSound ==
  at.target # NoId => /\ at.organization = OwnerOf[at.target]
                      /\ BatchSize <= Cardinality(UpTo(at.organization, at.target))

SweepInv ==
  /\ SweepTypes /\ CursorIsSound /\ OrganizationsTakeTurns
  /\ \A t \in active : waits[t] <= MayWait(t, at)

(* Arithmetic of full batches. *)
LEMMA Batches ==
  /\ \A a \in Nat : a \div BatchSize \in Nat /\ a \div BatchSize <= a
  /\ \A a, b \in Nat : a <= b => a \div BatchSize <= b \div BatchSize
  /\ \A a \in Nat : (a + BatchSize) \div BatchSize = a \div BatchSize + 1
  /\ \A a \in Nat : BatchSize <= a => 1 <= a \div BatchSize
  /\ \A a, b \in Nat : a \div BatchSize + b \div BatchSize <= (a + b) \div BatchSize
<1>1. BatchSize \in Nat \ {0}
  BY SweepAssumption
<1>2. \A a \in Nat : a \div BatchSize \in Nat /\ a \div BatchSize <= a
  BY <1>1
<1>3. \A a, b \in Nat : a <= b => a \div BatchSize <= b \div BatchSize
  BY <1>1
<1>4. \A a \in Nat : (a + BatchSize) \div BatchSize = a \div BatchSize + 1
  BY <1>1
<1>5. \A a \in Nat : BatchSize <= a => 1 <= a \div BatchSize
  BY <1>1
<1>6. \A a, b \in Nat : a \div BatchSize + b \div BatchSize <= (a + b) \div BatchSize
  BY <1>1
<1> QED
  BY <1>2, <1>3, <1>4, <1>5, <1>6

LEMMA TargetsAreNumbers ==
  /\ \A t \in Targets : t \in Nat /\ t > 0 /\ OwnerOf[t] \in Organizations
  /\ \A o \in Organizations : o \in Nat /\ o > 0
  BY SweepAssumption

LEMMA FullIsNat ==
  ASSUME NEW S \in SUBSET Targets
  PROVE  /\ IsFiniteSet(S) /\ Cardinality(S) \in Nat /\ Full(S) \in Nat
         /\ Full(S) <= Cardinality(Targets) /\ Cardinality(Targets) \in Nat
<1>1. /\ IsFiniteSet(S) /\ Cardinality(S) \in Nat
      /\ Cardinality(S) <= Cardinality(Targets) /\ Cardinality(Targets) \in Nat
  BY SweepAssumption, FS_Subset, FS_CardinalityType
<1>2. Full(S) \in Nat /\ Full(S) <= Cardinality(S)
  BY <1>1, Batches DEF Full
<1> QED
  BY <1>1, <1>2

LEMMA FullGrows ==
  ASSUME NEW S \in SUBSET Targets, NEW T \in SUBSET S
  PROVE  Full(T) <= Full(S)
<1>1. Cardinality(T) <= Cardinality(S) /\ Cardinality(S) \in Nat /\ Cardinality(T) \in Nat
  BY FullIsNat, FS_Subset
<1> QED
  BY <1>1, Batches DEF Full

(* A full batch beyond what was reached makes one more. *)
LEMMA FullByOne ==
  ASSUME NEW S \in SUBSET Targets, NEW T \in SUBSET S, NEW U \in SUBSET S,
         T \cap U = {}, Cardinality(U) = BatchSize
  PROVE  Full(T) + 1 <= Full(S)
<1>1. /\ IsFiniteSet(S) /\ Cardinality(S) \in Nat /\ Cardinality(T) \in Nat
      /\ Cardinality(T) + BatchSize <= Cardinality(S)
  BY FullIsNat, TwoParts
<1>2. Cardinality(T) + BatchSize \in Nat
  BY <1>1, SweepAssumption
<1>3. (Cardinality(T) + BatchSize) \div BatchSize <= Cardinality(S) \div BatchSize
  BY <1>1, <1>2, Batches
<1>4. (Cardinality(T) + BatchSize) \div BatchSize = Cardinality(T) \div BatchSize + 1
  BY <1>1, Batches
<1> QED
  BY <1>3, <1>4 DEF Full

LEMMA TurnsAre ==
  ASSUME NEW o
  PROVE  /\ Mine(o) \in SUBSET Targets /\ Turns(o) = Full(Mine(o)) + 1
         /\ Full(Mine(o)) \in Nat /\ Turns(o) \in Nat
         /\ 1 <= Turns(o) /\ Turns(o) <= Cardinality(Targets) + 1
<1>1. Mine(o) \in SUBSET Targets /\ Turns(o) = Full(Mine(o)) + 1
  BY DEF Mine, Turns, Full
<1> QED
  BY <1>1, FullIsNat

LEMMA WalkIsFinite ==
  ASSUME NEW S \in SUBSET Walk
  PROVE  IsFiniteSet(S) /\ Cardinality(S) \in Nat
<1>1. Cardinality(Targets) \in Nat
  BY SweepAssumption, FS_CardinalityType
<1>2. IsFiniteSet(1..(Cardinality(Targets) + 1))
  BY <1>1, FS_Interval
<1>3. IsFiniteSet(Organizations \X (1..(Cardinality(Targets) + 1)))
  BY <1>2, SweepAssumption, FS_Product
<1>4. IsFiniteSet(Walk)
  BY <1>3, FS_Subset DEF Walk
<1> QED
  BY <1>4, FS_Subset, FS_CardinalityType

LEMMA TurnIsInWalk ==
  ASSUME NEW o \in Organizations, NEW k \in Nat, 1 <= k, k <= Turns(o)
  PROVE  <<o, k>> \in Walk
<1>1. k \in 1..(Cardinality(Targets) + 1)
  <2>1. Cardinality(Targets) \in Nat /\ k <= Cardinality(Targets) + 1
    BY TurnsAre, SweepAssumption, FS_CardinalityType
  <2> QED
    BY <2>1
<1> QED
  BY <1>1 DEF Walk

LEMMA WalkMembers ==
  ASSUME NEW x \in Walk
  PROVE  /\ x = <<x[1], x[2]>> /\ x[1] \in Organizations /\ x[1] \in Nat
         /\ x[2] \in Nat /\ 1 <= x[2] /\ x[2] <= Turns(x[1])
<1>1. x \in Organizations \X (1..(Cardinality(Targets) + 1)) /\ x[2] <= Turns(x[1])
  BY DEF Walk
<1>2. Cardinality(Targets) \in Nat
  BY SweepAssumption, FS_CardinalityType
<1> QED
  BY <1>1, <1>2, TargetsAreNumbers

(* A cursor that has moved on has more turns behind it, by its own last one.*)
LEMMA BehindGrows ==
  ASSUME NEW c \in Cursor, NEW d \in Cursor, d.organization \in Organizations,
         \/ c.organization < d.organization
         \/ c.organization = d.organization /\ TurnsTaken(c) < TurnsTaken(d),
         TurnsTaken(c) \in Nat, TurnsTaken(d) \in Nat,
         1 <= TurnsTaken(d), TurnsTaken(d) <= Turns(d.organization)
  PROVE  LET x == <<d.organization, TurnsTaken(d)>>
         IN  Behind(c) \in SUBSET Behind(d) /\ x \in Behind(d) /\ x \notin Behind(c)
<1> DEFINE x == <<d.organization, TurnsTaken(d)>>
<1>1. x \in Walk
  BY TurnIsInWalk
<1>2. c.organization \in Nat /\ d.organization \in Nat
  <2>1. \A o \in Organizations \cup {NoId} : o \in Nat
    BY TargetsAreNumbers, SweepAssumption
  <2> QED
    BY <2>1 DEF Cursor
<1>3. x \in Behind(d)
  BY <1>1 DEF Behind
<1>4. x \notin Behind(c)
  BY <1>2 DEF Behind
<1>5. ASSUME NEW y \in Behind(c) PROVE y \in Behind(d)
  <2>1. /\ y \in Walk
        /\ \/ y[1] < c.organization
           \/ y[1] = c.organization /\ y[2] <= TurnsTaken(c)
    BY <1>5, Zenon DEF Behind
  <2>2. y[1] \in Nat /\ y[2] \in Nat
    BY <2>1, WalkMembers
  <2>3. \/ y[1] < d.organization
        \/ y[1] = d.organization /\ y[2] <= TurnsTaken(d)
    BY <1>2, <2>1, <2>2
  <2> QED
    BY <2>1, <2>3 DEF Behind
<1> QED
  BY <1>3, <1>4, <1>5

(* What an execution takes up: who it is for, and which of his targets.     *)
LEMMA BatchIsNext ==
  ASSUME SweepTypes, NEW o \in Chosen
  PROVE  LET id == IF Continues THEN at.target ELSE NoId
             S  == Batch(o)
             d  == CursorAfter(o, S)
         IN  /\ o \in listed /\ o \in Organizations
             /\ Continues => o = at.organization
             /\ ~Continues => \/ /\ at.organization < o
                               /\ \A x \in listed : at.organization < x => o <= x
                            \/ \A x \in listed : x <= at.organization /\ o <= x
             /\ S \in SUBSET Mine(o) /\ \A s \in S : id < s
             /\ d \in Cursor /\ d.organization = o
             /\ d.target = NoId => \A t \in active : OwnerOf[t] = o /\ id < t => t \in S
             /\ d.target # NoId =>
                  /\ Cardinality(S) = BatchSize /\ d.target \in S
                  /\ \A s \in S : s <= d.target
                  /\ \A t \in active : OwnerOf[t] = o /\ id < t /\ t \notin S => d.target < t
<1> DEFINE id == IF Continues THEN at.target ELSE NoId
           R == Beyond({t \in active : OwnerOf[t] = o}, id)
           S == FirstOf(R, BatchSize)
           d == CursorAfter(o, S)
<1>1. /\ listed \in SUBSET Organizations /\ active \in SUBSET Targets /\ at \in Cursor
      /\ BatchSize \in Nat \ {0} /\ NoId = 0
  BY SweepAssumption DEF SweepTypes
<1>2. /\ at.organization \in Nat /\ at.organization \in Organizations \cup {NoId}
      /\ at.target \in Nat /\ id \in Nat
  <2>1. /\ at.organization \in Organizations \cup {NoId}
        /\ at.target \in Targets \cup {NoId}
    BY <1>1 DEF Cursor
  <2> QED
    BY <1>1, <2>1, TargetsAreNumbers
<1>3. /\ o \in listed
      /\ Continues => o = at.organization
      /\ ~Continues => \/ /\ at.organization < o
                        /\ \A x \in listed : at.organization < x => o <= x
                     \/ \A x \in listed : x <= at.organization /\ o <= x
  <2>1. CASE Continues
    BY <2>1 DEF Chosen, Continues
  <2>2. CASE ~Continues
    <3> DEFINE batch == OrganizationsAfter(at.organization, 1)
    <3>1. o \in batch
      BY <2>2 DEF Chosen
    <3>2. /\ batch \in SUBSET listed
          /\ \/ /\ \A x \in batch : at.organization < x
                /\ \A x \in batch, y \in listed \ batch : at.organization < y => x < y
             \/ /\ \A x \in listed : x <= at.organization
                /\ \A x \in batch, y \in listed \ batch : x < y
      BY <1>1, <1>2, NextOrganizations
    <3>3. \A x \in batch : x = o
      <4>1. Cardinality(batch) <= 1 /\ IsFiniteSet(batch)
        <5>1. /\ listed \in SUBSET Nat /\ IsFiniteSet(listed)
              /\ Beyond(listed, at.organization) \in SUBSET Nat
              /\ IsFiniteSet(Beyond(listed, at.organization))
          BY <1>1, SweepAssumption, FS_Subset DEF Beyond
        <5>2. /\ Cardinality(FirstOf(listed, 1)) <= 1 /\ IsFiniteSet(FirstOf(listed, 1))
              /\ Cardinality(FirstOf(Beyond(listed, at.organization), 1)) <= 1
              /\ IsFiniteSet(FirstOf(Beyond(listed, at.organization), 1))
          BY <5>1, FirstAreTaken
        <5> QED
          BY <5>2 DEF OrganizationsAfter
      <4>2. ASSUME NEW x \in batch, x # o PROVE FALSE
        <5> HIDE DEF batch
        <5>1. {o} \in SUBSET batch /\ x \notin {o}
          BY <3>1, <4>2
        <5>2. Cardinality({o}) = 1
          BY FS_Singleton
        <5>3. Cardinality({o}) + 1 <= Cardinality(batch) /\ Cardinality(batch) \in Nat
          BY <4>1, <4>2, <5>1, OneMore
        <5> QED
          BY <4>1, <5>2, <5>3
      <4> QED
        BY <4>2
    <3> HIDE DEF batch
    <3>4. \A x \in listed : x \in Nat
      BY <1>1, TargetsAreNumbers
    <3>5. \A x \in listed : x = o \/ x \in listed \ batch
      BY <3>3
    <3> QED
      BY <2>2, <3>1, <3>2, <3>4, <3>5
  <2> QED
    BY <2>1, <2>2
<1>4. S = Batch(o)
  BY DEF Batch, Due
<1>5. R \in SUBSET Targets /\ R \in SUBSET Nat /\ IsFiniteSet(R)
  <2>1. R \in SUBSET Targets
    BY <1>1 DEF Beyond
  <2> QED
    BY <2>1, SweepAssumption, FS_Subset
<1>6. /\ \A t \in R : t \in active /\ OwnerOf[t] = o /\ id < t
      /\ \A t \in active : OwnerOf[t] = o /\ id < t => t \in R
  <2>1. \A t \in active : t \in Nat
    BY <1>1, TargetsAreNumbers
  <2>2. R = {t \in active : OwnerOf[t] = o /\ t > id}
    BY DEF Beyond
  <2> HIDE DEF R, id
  <2> QED
    BY <1>2, <2>1, <2>2
<1> HIDE DEF R
<1>7. /\ S \in SUBSET R /\ IsFiniteSet(S) /\ Cardinality(S) \in Nat
      /\ Cardinality(S) # BatchSize => S = R
      /\ \A x \in S, y \in R \ S : x < y
  BY <1>1, <1>5, FirstAreTaken
<1>8. d = [organization |-> o,
           target |-> IF Cardinality(S) = BatchSize THEN Max(S) ELSE NoId]
  BY DEF CursorAfter
<1> HIDE DEF S, d
<1>9. S \in SUBSET Mine(o) /\ \A s \in S : id < s
  BY <1>5, <1>6, <1>7 DEF Mine
<1>10. ASSUME Cardinality(S) = BatchSize
       PROVE  Max(S) \in S /\ \A s \in S : s <= Max(S)
  <2>1. S # {} /\ S \in SUBSET Nat
    BY <1>1, <1>5, <1>7, <1>10, FS_EmptySet
  <2> QED
    BY <1>7, <2>1, MaxIsGreatest
<1>11. d \in Cursor /\ d.organization = o
  <2>1. Max(S) \in Targets \/ Cardinality(S) # BatchSize
    BY <1>5, <1>7, <1>10
  <2> QED
    BY <1>1, <1>3, <1>8, <2>1 DEF Cursor
<1>12. d.target = NoId => S = R
  <2>1. Max(S) # NoId \/ Cardinality(S) # BatchSize
    BY <1>1, <1>5, <1>7, <1>10, TargetsAreNumbers
  <2> QED
    BY <1>7, <1>8, <2>1
<1>13. d.target # NoId => Cardinality(S) = BatchSize /\ d.target = Max(S)
  BY <1>8
<1> HIDE DEF id
<1>14. d.target = NoId => \A t \in active : OwnerOf[t] = o /\ id < t => t \in S
  BY <1>6, <1>12
<1>15. d.target # NoId =>
         /\ Cardinality(S) = BatchSize /\ d.target \in S /\ \A s \in S : s <= d.target
         /\ \A t \in active : OwnerOf[t] = o /\ id < t /\ t \notin S => d.target < t
  BY <1>6, <1>7, <1>10, <1>13
<1>16. o \in Organizations
  BY <1>1, <1>3
<1> QED
  BY <1>3, <1>4, <1>9, <1>11, <1>14, <1>15, <1>16 DEF id, d

(* The execution takes a turn of the walk.                                  *)
LEMMA TakesATurn ==
  ASSUME SweepTypes, CursorIsSound, NEW o \in Chosen
  PROVE  LET d == CursorAfter(o, Batch(o))
         IN  /\ TurnsTaken(at) \in Nat /\ TurnsTaken(d) \in Nat
             /\ 1 <= TurnsTaken(d) /\ TurnsTaken(d) <= Turns(o)
             /\ Continues => TurnsTaken(at) < TurnsTaken(d)
             /\ d.target # NoId => /\ o = OwnerOf[d.target]
                                   /\ BatchSize <= Cardinality(UpTo(o, d.target))
<1> DEFINE id == IF Continues THEN at.target ELSE NoId
           S == Batch(o)
           d == CursorAfter(o, S)
           p == at.organization
<1>1. /\ o \in listed /\ o \in Organizations /\ (Continues => o = p)
      /\ S \in SUBSET Mine(o) /\ \A s \in S : id < s
      /\ d \in Cursor /\ d.organization = o
      /\ d.target # NoId =>
           /\ Cardinality(S) = BatchSize /\ d.target \in S /\ \A s \in S : s <= d.target
  BY BatchIsNext
<1>2. id \in Nat /\ at.target \in Nat /\ NoId = 0
  <2>1. at.target \in Targets \cup {NoId} /\ NoId = 0
    BY SweepAssumption DEF SweepTypes, Cursor
  <2> QED
    BY <2>1, TargetsAreNumbers
<1> HIDE DEF S, d, id
<1>3. /\ TurnsTaken(at) \in Nat
      /\ UpTo(p, at.target) \in SUBSET Mine(p)
      /\ Mine(p) \in SUBSET Targets /\ Mine(o) \in SUBSET Targets
  <2>1. UpTo(p, at.target) \in SUBSET Mine(p) /\ Mine(p) \in SUBSET Targets
        /\ Mine(o) \in SUBSET Targets
    BY DEF UpTo, Mine
  <2>2. Full(UpTo(p, at.target)) \in Nat
    BY <2>1, FullIsNat
  <2>3. Turns(p) \in Nat
    BY TurnsAre
  <2> QED
    BY <2>1, <2>2, <2>3 DEF TurnsTaken
<1>4. CASE d.target = NoId
  <2>1. TurnsTaken(d) = Turns(o)
    BY <1>1, <1>4 DEF TurnsTaken
  <2>2. Turns(o) \in Nat /\ 1 <= Turns(o) /\ Turns(o) = Full(Mine(o)) + 1 /\ Full(Mine(o)) \in Nat
    BY TurnsAre
  <2>3. ASSUME Continues PROVE TurnsTaken(at) < Turns(o)
    <3>0. at.target # NoId /\ o = p
      BY <1>1, <2>3 DEF Continues
    <3>1. TurnsTaken(at) = Full(UpTo(p, at.target)) /\ o = p
      BY <3>0 DEF TurnsTaken
    <3>2. Full(UpTo(p, at.target)) <= Full(Mine(p))
      BY <1>3, FullGrows
    <3> QED
      BY <1>3, <2>2, <3>1, <3>2
  <2> QED
    BY <1>3, <1>4, <2>1, <2>2, <2>3 DEF d, S
<1>5. CASE d.target # NoId
  <2>1. TurnsTaken(d) = Full(UpTo(o, d.target))
    BY <1>1, <1>5 DEF TurnsTaken
  <2>2. /\ UpTo(o, d.target) \in SUBSET Mine(o) /\ UpTo(o, d.target) \in SUBSET Targets
        /\ S \in SUBSET UpTo(o, d.target)
    BY <1>1, <1>3, <1>5 DEF UpTo
  <2>3. /\ IsFiniteSet(UpTo(o, d.target)) /\ Cardinality(UpTo(o, d.target)) \in Nat
        /\ Full(UpTo(o, d.target)) \in Nat
    BY <2>2, FullIsNat
  <2>4. BatchSize <= Cardinality(UpTo(o, d.target))
    BY <1>1, <1>5, <2>2, <2>3, FS_Subset
  <2>5. 1 <= Full(UpTo(o, d.target))
    BY <2>3, <2>4, Batches DEF Full
  <2>6. Full(UpTo(o, d.target)) <= Full(Mine(o)) /\ Turns(o) = Full(Mine(o)) + 1
        /\ Full(Mine(o)) \in Nat
    BY <1>3, <2>2, FullGrows, TurnsAre
  <2>7. o = OwnerOf[d.target]
    BY <1>1, <1>5 DEF Mine
  <2>8. ASSUME Continues PROVE TurnsTaken(at) < TurnsTaken(d)
    <3>0. at.target # NoId /\ o = p /\ id = at.target
      BY <1>1, <2>8 DEF Continues, id
    <3>1. TurnsTaken(at) = Full(UpTo(o, id)) /\ id = at.target
      BY <3>0 DEF TurnsTaken
    <3>2. UpTo(o, id) \in SUBSET UpTo(o, d.target) /\ UpTo(o, id) \cap S = {}
      <4>1. \A s \in Mine(o) : s \in Nat
        BY <1>3, TargetsAreNumbers
      <4>2. id < d.target /\ d.target \in Nat
        BY <1>1, <1>5, <4>1
      <4>3. \A s \in Mine(o) : s <= id => s <= d.target /\ ~(id < s)
        BY <1>2, <4>1, <4>2
      <4> QED
        BY <1>1, <4>3 DEF UpTo
    <3>3. Full(UpTo(o, id)) + 1 <= Full(UpTo(o, d.target))
      BY <1>1, <1>5, <2>2, <3>2, FullByOne
    <3> QED
      BY <1>3, <2>1, <2>3, <3>1, <3>3
  <2> QED
    BY <1>3, <2>1, <2>3, <2>4, <2>5, <2>6, <2>7, <2>8 DEF d, S
<1> QED
  BY <1>4, <1>5

LEMMA MayWaitIsNat ==
  ASSUME NEW t \in Targets, NEW c \in Cursor
  PROVE  MayWait(t, c) \in Nat /\ StillToCome(t) \in Nat /\ StillToCome(t) >= 1
<1>1. /\ Later(t) \in SUBSET Targets /\ Upward(t, c.target) \in SUBSET Targets
      /\ UpTo(OwnerOf[t], c.target) \in SUBSET Targets
  BY DEF Later, Upward, UpTo, Mine
<1>2. /\ Others(OwnerOf[t]) \in SUBSET Walk /\ After(Behind(c), OwnerOf[t]) \in SUBSET Walk
      /\ After(Walk, OwnerOf[t]) \in SUBSET Walk /\ Behind(c) \in SUBSET Walk
  BY DEF Others, After, Behind
<1>3. /\ Full(Later(t)) \in Nat /\ Full(Upward(t, c.target)) \in Nat
      /\ Full(UpTo(OwnerOf[t], c.target)) \in Nat
  BY <1>1, FullIsNat
<1>4. /\ Cardinality(Others(OwnerOf[t])) \in Nat
      /\ Cardinality(After(Behind(c), OwnerOf[t])) \in Nat
      /\ Cardinality(After(Walk, OwnerOf[t])) \in Nat /\ Cardinality(Behind(c)) \in Nat
  BY <1>2, WalkIsFinite
<1>5. StillToCome(t) \in Nat /\ StillToCome(t) >= 1
  BY <1>3 DEF StillToCome
<1> QED
  BY <1>3, <1>4, <1>5 DEF MayWait

(* Nobody waits for more than the walk has turns.                           *)
LEMMA WaitIsWithinWalk ==
  ASSUME NEW t \in Targets, NEW c \in Cursor
  PROVE  MayWait(t, c) <= Cardinality(Walk)
<1> DEFINE p == OwnerOf[t]
           x == c.target
           Own == {y \in Walk : y[1] = p}
<1>1. /\ t \in Nat /\ p \in Organizations /\ p \in Nat
      /\ c.organization \in Nat /\ x \in Nat
  <2>1. c.organization \in Organizations \cup {NoId} /\ x \in Targets \cup {NoId} /\ NoId = 0
    BY SweepAssumption DEF Cursor
  <2> QED
    BY <2>1, TargetsAreNumbers
<1>2. /\ Turns(p) = Full(Mine(p)) + 1 /\ Turns(p) \in Nat /\ Full(Mine(p)) \in Nat
      /\ Mine(p) \in SUBSET Targets
  BY TurnsAre
<1>3. Turns(p) <= Cardinality(Own) /\ Cardinality(Own) \in Nat
  <2> DEFINE f == [k \in 1..Turns(p) |-> <<p, k>>]
  <2>1. \A k \in 1..Turns(p) : <<p, k>> \in Own
    BY <1>1, <1>2, TurnIsInWalk
  <2>2. f \in Injection(1..Turns(p), Own)
    BY <2>1 DEF Injection, IsInjective
  <2>3. IsFiniteSet(Own) /\ Cardinality(Own) \in Nat
    BY WalkIsFinite
  <2>4. Cardinality(1..Turns(p)) = Turns(p)
    BY <1>2, FS_Interval
  <2> HIDE DEF f, Own
  <2> QED
    BY <2>2, <2>3, <2>4, FS_Injection
<1>4. \A U \in SUBSET Others(p) : /\ Cardinality(U) \in Nat /\ Cardinality(Walk) \in Nat
                               /\ Turns(p) + Cardinality(U) <= Cardinality(Walk)
  <2>1. SUFFICES ASSUME NEW U \in SUBSET Others(p)
                 PROVE  /\ Cardinality(U) \in Nat /\ Cardinality(Walk) \in Nat
                        /\ Turns(p) + Cardinality(U) <= Cardinality(Walk)
    OBVIOUS
  <2>2. IsFiniteSet(Walk) /\ Own \in SUBSET Walk /\ U \in SUBSET Walk /\ Own \cap U = {}
    BY <2>1, WalkIsFinite DEF Others
  <2>3. /\ Cardinality(Walk) \in Nat /\ Cardinality(U) \in Nat
        /\ Cardinality(Own) + Cardinality(U) <= Cardinality(Walk)
    <3> HIDE DEF Own
    <3> QED
      BY <2>2, TwoParts
  <2> HIDE DEF Own, p
  <2> QED
    BY <1>2, <1>3, <2>3
<1>5. Turns(p) <= Cardinality(Walk) /\ Cardinality(Walk) \in Nat
  <2>1. {} \in SUBSET Others(p) /\ Cardinality({}) = 0
    BY FS_EmptySet
  <2> HIDE DEF p
  <2> QED
    BY <1>2, <1>4, <2>1
<1>6. /\ Later(t) \in SUBSET Mine(p) /\ Upward(t, x) \in SUBSET Mine(p)
      /\ UpTo(p, x) \in SUBSET Mine(p)
  BY DEF Later, Upward, UpTo
<1>7. Full(Later(t)) <= Full(Mine(p)) /\ Full(Upward(t, x)) <= Full(Mine(p))
  BY <1>2, <1>6, FullGrows
<1>8. /\ Full(Later(t)) \in Nat /\ Full(Upward(t, x)) \in Nat /\ Full(UpTo(p, x)) \in Nat
      /\ StillToCome(t) = Full(Later(t)) + 1
  <2>1. /\ Later(t) \in SUBSET Targets /\ Upward(t, x) \in SUBSET Targets
        /\ UpTo(p, x) \in SUBSET Targets
    BY <1>2, <1>6
  <2> QED
    BY <2>1, FullIsNat DEF StillToCome
<1>9. StillToCome(t) <= Turns(p) /\ StillToCome(t) \in Nat
  BY <1>2, <1>7, <1>8
<1>10. CASE c.organization = p /\ x = NoId
  <2>1. MayWait(t, c) = StillToCome(t)
    BY <1>10 DEF MayWait
  <2> QED
    BY <1>2, <1>5, <1>9, <2>1
<1>11. CASE c.organization = p /\ x # NoId /\ t <= x
  <2>1. MayWait(t, c) = Full(Upward(t, x))
    BY <1>11 DEF MayWait
  <2> QED
    BY <1>2, <1>5, <1>7, <1>8, <2>1
<1>12. CASE c.organization = p /\ x # NoId /\ ~(t <= x)
  <2>1. MayWait(t, c) = StillToCome(t) + Cardinality(Others(p)) + Full(UpTo(p, x))
    BY <1>12 DEF MayWait
  <2>2. Later(t) \cap UpTo(p, x) = {}
    <3>1. \A s \in Mine(p) : s <= x => ~(t < s)
      <4>1. \A s \in Mine(p) : s \in Nat
        BY <1>2, TargetsAreNumbers
      <4> QED
        BY <1>1, <1>12, <4>1
    <3> QED
      BY <1>6, <3>1 DEF Later, UpTo
  <2>3. Full(Later(t)) + Full(UpTo(p, x)) <= Full(Mine(p))
    <3>1. IsFiniteSet(Mine(p)) /\ Cardinality(Mine(p)) \in Nat
      BY <1>2, FullIsNat
    <3>2. /\ Cardinality(Later(t)) \in Nat /\ Cardinality(UpTo(p, x)) \in Nat
          /\ Cardinality(Later(t)) + Cardinality(UpTo(p, x)) <= Cardinality(Mine(p))
      BY <1>6, <2>2, <3>1, TwoParts
    <3>3. (Cardinality(Later(t)) + Cardinality(UpTo(p, x))) \div BatchSize
            <= Cardinality(Mine(p)) \div BatchSize
      BY <3>1, <3>2, Batches
    <3>4. Full(Later(t)) + Full(UpTo(p, x))
            <= (Cardinality(Later(t)) + Cardinality(UpTo(p, x))) \div BatchSize
      BY <3>2, Batches DEF Full
    <3>5. (Cardinality(Later(t)) + Cardinality(UpTo(p, x))) \div BatchSize \in Nat
      BY <3>2, Batches
    <3>6. Full(Mine(p)) = Cardinality(Mine(p)) \div BatchSize
      BY DEF Full
    <3> HIDE DEF p, x
    <3> QED
      BY <1>2, <1>8, <3>3, <3>4, <3>5, <3>6
  <2>4. /\ Cardinality(Others(p)) \in Nat
        /\ Turns(p) + Cardinality(Others(p)) <= Cardinality(Walk)
    BY <1>4
  <2> HIDE DEF p, x
  <2> QED
    BY <1>2, <1>5, <1>8, <2>1, <2>3, <2>4
<1>13. CASE c.organization # p /\ p < c.organization
  <2>1. MayWait(t, c) = StillToCome(t) + Cardinality(After(Behind(c), p))
    BY <1>13 DEF MayWait
  <2>2. After(Behind(c), p) \in SUBSET Others(p)
    <3>1. \A y \in After(Behind(c), p) : y \in Walk /\ y[1] > p
      BY DEF After, Behind
    <3>2. \A y \in After(Behind(c), p) : y[1] # p
      BY <1>1, <3>1, WalkMembers
    <3> QED
      BY <3>1, <3>2 DEF Others
  <2>3. /\ Cardinality(After(Behind(c), p)) \in Nat
        /\ Turns(p) + Cardinality(After(Behind(c), p)) <= Cardinality(Walk)
    BY <1>4, <2>2
  <2> HIDE DEF p
  <2> QED
    BY <1>2, <1>5, <1>9, <2>1, <2>3
<1>14. CASE c.organization # p /\ ~(p < c.organization)
  <2>1. MayWait(t, c) = StillToCome(t) + Cardinality(After(Walk, p)) + Cardinality(Behind(c))
    BY <1>14 DEF MayWait
  <2>2. /\ After(Walk, p) \in SUBSET Others(p) /\ Behind(c) \in SUBSET Others(p)
        /\ After(Walk, p) \cap Behind(c) = {}
    <3>1. \A y \in Walk : y[1] \in Nat
      BY WalkMembers
    <3>2. \A y \in After(Walk, p) : y \in Walk /\ y[1] > p
      BY DEF After
    <3>3. \A y \in Behind(c) : y \in Walk /\ (y[1] < c.organization \/ y[1] = c.organization)
      BY Zenon DEF Behind
    <3>4. \A y \in Behind(c) : y \in Walk /\ y[1] # p /\ ~(y[1] > p)
      BY <1>1, <1>14, <3>1, <3>3
    <3>5. \A y \in After(Walk, p) : y[1] # p
      BY <1>1, <3>1, <3>2
    <3> QED
      BY <3>2, <3>4, <3>5 DEF Others
  <2>3. IsFiniteSet(Others(p))
    <3>1. Others(p) \in SUBSET Walk
      BY DEF Others
    <3> QED
      BY <3>1, WalkIsFinite
  <2>4. /\ Cardinality(After(Walk, p)) \in Nat /\ Cardinality(Behind(c)) \in Nat
        /\ Cardinality(Others(p)) \in Nat
        /\ Cardinality(After(Walk, p)) + Cardinality(Behind(c)) <= Cardinality(Others(p))
    BY <2>2, <2>3, TwoParts
  <2>5. Turns(p) + Cardinality(Others(p)) <= Cardinality(Walk)
    BY <1>4
  <2> HIDE DEF p
  <2> QED
    BY <1>2, <1>5, <1>9, <2>1, <2>4, <2>5
<1> QED
  BY <1>10, <1>11, <1>12, <1>13, <1>14

(* A target that is not in the batch may wait for one turn more than before.*)
LEMMA WaitGrows ==
  ASSUME SweepTypes, CursorIsSound, NEW o \in Chosen, NEW t \in active, t \notin Batch(o)
  PROVE  MayWait(t, at) + 1 <= MayWait(t, CursorAfter(o, Batch(o)))
<1> DEFINE id == IF Continues THEN at.target ELSE NoId
           S == Batch(o)
           d == CursorAfter(o, S)
           p == OwnerOf[t]
           q == at.organization
<1>1. /\ o \in listed /\ o \in Organizations
      /\ Continues => o = q
      /\ ~Continues => \/ q < o /\ \A x \in listed : q < x => o <= x
                      \/ \A x \in listed : x <= q /\ o <= x
      /\ S \in SUBSET Mine(o) /\ \A s \in S : id < s
      /\ d \in Cursor /\ d.organization = o
      /\ d.target = NoId => (p = o /\ id < t => t \in S)
      /\ d.target # NoId =>
           /\ Cardinality(S) = BatchSize /\ d.target \in S /\ \A s \in S : s <= d.target
           /\ p = o /\ id < t => d.target < t
  BY BatchIsNext
<1>2. /\ TurnsTaken(at) \in Nat /\ TurnsTaken(d) \in Nat
      /\ 1 <= TurnsTaken(d) /\ TurnsTaken(d) <= Turns(o)
      /\ Continues => TurnsTaken(at) < TurnsTaken(d)
  BY TakesATurn
<1>3. /\ at \in Cursor /\ t \in Targets /\ p \in listed /\ listed \in SUBSET Organizations
  BY DEF SweepTypes
<1>4. /\ t \in Nat /\ t > 0 /\ p \in Organizations /\ p \in Nat /\ o \in Nat /\ q \in Nat
      /\ id \in Nat /\ at.target \in Nat /\ NoId = 0 /\ d.target \in Nat
  <2>1. /\ q \in Organizations \cup {NoId} /\ at.target \in Targets \cup {NoId} /\ NoId = 0
        /\ d.target \in Targets \cup {NoId}
    BY <1>1, <1>3, SweepAssumption DEF Cursor
  <2> HIDE DEF d
  <2> QED
    BY <1>1, <1>3, <2>1, TargetsAreNumbers
<1>5. /\ MayWait(t, at) \in Nat /\ StillToCome(t) \in Nat /\ StillToCome(t) >= 1 /\ MayWait(t, d) \in Nat
  BY <1>1, <1>3, MayWaitIsNat
<1>6. t \notin S
  OBVIOUS
<1>7. (q = p /\ ~Continues) => at.target = NoId
  BY <1>3 DEF Continues
<1>8. Continues => at.target # NoId /\ id = at.target
  BY DEF Continues
<1>9. ~Continues => id = NoId
  OBVIOUS
<1> SUFFICES MayWait(t, at) + 1 <= MayWait(t, d)
  OBVIOUS
<1> HIDE DEF id, S, d
<1>10. /\ Mine(p) \in SUBSET Targets /\ Mine(o) \in SUBSET Targets
       /\ \A x : Later(t) \in SUBSET Mine(p) /\ Upward(t, x) \in SUBSET Mine(p)
       /\ \A x : UpTo(p, x) \in SUBSET Mine(p)
  BY DEF Mine, Later, Upward, UpTo
<1>11. /\ \A s \in Mine(p) : s \in Nat
       /\ \A x : Full(Upward(t, x)) \in Nat /\ Full(UpTo(p, x)) \in Nat
  <2>1. \A x : Upward(t, x) \in SUBSET Targets /\ UpTo(p, x) \in SUBSET Targets
    BY <1>10
  <2> HIDE DEF p
  <2> QED
    BY <1>10, <2>1, FullIsNat, TargetsAreNumbers
<1>12. /\ \A c : Behind(c) \in SUBSET Walk /\ After(Behind(c), p) \in SUBSET After(Walk, p)
       /\ After(Walk, p) \in SUBSET Walk /\ Others(p) \in SUBSET Walk
       /\ After(Walk, p) \in SUBSET Others(p)
  <2>1. \A x \in Walk : x[1] \in Nat
    BY WalkMembers
  <2>2. \A x \in Walk : x[1] > p => x[1] # p
    BY <1>4, <2>1
  <2> QED
    BY <2>2 DEF Behind, After, Others
<1>13. /\ \A c : Cardinality(Behind(c)) \in Nat /\ Cardinality(After(Behind(c), p)) \in Nat
       /\ Cardinality(After(Walk, p)) \in Nat /\ Cardinality(Others(p)) \in Nat
       /\ \A c : Cardinality(After(Behind(c), p)) <= Cardinality(After(Walk, p))
       /\ Cardinality(After(Walk, p)) <= Cardinality(Others(p))
  <2>1. IsFiniteSet(After(Walk, p)) /\ IsFiniteSet(Others(p))
    BY <1>12, WalkIsFinite
  <2>2. /\ \A c : After(Behind(c), p) \in SUBSET Walk
    BY <1>12
  <2>3. /\ \A c : Cardinality(Behind(c)) \in Nat /\ Cardinality(After(Behind(c), p)) \in Nat
        /\ Cardinality(After(Walk, p)) \in Nat /\ Cardinality(Others(p)) \in Nat
    BY <1>12, <2>2, WalkIsFinite
  <2> QED
    BY <1>12, <2>1, <2>3, FS_Subset
(* The turn that the execution takes is behind the new cursor. *)
<1>14. LET x == <<o, TurnsTaken(d)>>
       IN  x \in Walk /\ x \in Behind(d) /\ (o > p => x \in After(Behind(d), p))
  BY <1>1, <1>2, TurnIsInWalk DEF Behind, After
<1>15. Cardinality(Behind(d)) >= 1 /\ (o > p => Cardinality(After(Behind(d), p)) >= 1)
  <2>1. {} \in SUBSET Behind(d) /\ {} \in SUBSET After(Behind(d), p)
    OBVIOUS
  <2>2. IsFiniteSet(Behind(d)) /\ IsFiniteSet(After(Behind(d), p))
    <3>1. After(Behind(d), p) \in SUBSET Walk
      BY <1>12
    <3> QED
      BY <1>12, <3>1, WalkIsFinite
  <2>3. Cardinality({}) + 1 <= Cardinality(Behind(d))
    BY <1>14, <2>1, <2>2, OneMore
  <2>4. o > p => Cardinality({}) + 1 <= Cardinality(After(Behind(d), p))
    BY <1>14, <2>1, <2>2, OneMore
  <2> QED
    BY <1>13, <2>3, <2>4, FS_EmptySet
(* If the cursor has moved on in the order of the organizations, what was   *)
(* behind it still is.                                                      *)
<1>16. ASSUME q < o \/ (q = o /\ Continues)
       PROVE  /\ Cardinality(Behind(at)) + 1 <= Cardinality(Behind(d))
              /\ o > p => Cardinality(After(Behind(at), p)) + 1 <= Cardinality(After(Behind(d), p))
  <2>1. LET x == <<o, TurnsTaken(d)>>
        IN  Behind(at) \in SUBSET Behind(d) /\ x \in Behind(d) /\ x \notin Behind(at)
    BY <1>1, <1>2, <1>3, <1>16, BehindGrows
  <2>2. LET x == <<o, TurnsTaken(d)>>
        IN  /\ After(Behind(at), p) \in SUBSET After(Behind(d), p)
            /\ x \notin After(Behind(at), p)
    BY <2>1 DEF After
  <2>3. IsFiniteSet(Behind(d)) /\ IsFiniteSet(After(Behind(d), p))
    <3>1. After(Behind(d), p) \in SUBSET Walk
      BY <1>12
    <3> QED
      BY <1>12, <3>1, WalkIsFinite
  <2> QED
    BY <1>14, <2>1, <2>2, <2>3, OneMore
<1>20. CASE o = p /\ d.target = NoId
  (* It is the last batch of the target's organization, from beyond it. *)
  <2>1. Continues /\ ~(id < t) /\ q = p
    BY <1>1, <1>4, <1>6, <1>9, <1>20
  <2>2. MayWait(t, at) = Full(Upward(t, at.target)) /\ MayWait(t, d) = StillToCome(t)
    <3>1. t <= at.target /\ at.target # NoId
      BY <1>4, <1>8, <2>1
    <3> QED
      BY <1>1, <1>20, <2>1, <3>1 DEF MayWait
  <2>3. Full(Upward(t, at.target)) <= Full(Later(t))
    <3>1. Upward(t, at.target) \in SUBSET Later(t) /\ Later(t) \in SUBSET Targets
      BY <1>10 DEF Upward, Later
    <3> QED
      BY <3>1, FullGrows
  <2>4. Full(Later(t)) \in Nat
    BY <1>10, FullIsNat
  <2> HIDE DEF p, q
  <2> QED
    BY <1>11, <2>2, <2>3, <2>4 DEF StillToCome
<1>21. CASE o = p /\ d.target # NoId /\ id < t
  (* The batch lies before the target. *)
  <2>1. d.target < t /\ ~(t <= d.target)
    BY <1>1, <1>4, <1>21
  <2>2. MayWait(t, d) = StillToCome(t) + Cardinality(Others(p)) + Full(UpTo(p, d.target))
    BY <1>1, <1>21, <2>1 DEF MayWait
  <2>3. TurnsTaken(d) = Full(UpTo(p, d.target))
    BY <1>1, <1>21 DEF TurnsTaken
  <2>4. CASE Continues
    <3>1. q = p /\ at.target # NoId /\ ~(t <= at.target)
      BY <1>1, <1>4, <1>8, <1>21, <2>4
    <3>2. MayWait(t, at) = StillToCome(t) + Cardinality(Others(p)) + Full(UpTo(p, at.target))
      BY <3>1 DEF MayWait
    <3>3. TurnsTaken(at) = Full(UpTo(p, at.target))
      BY <3>1 DEF TurnsTaken
    <3> HIDE DEF p, q
    <3> QED
      BY <1>2, <1>5, <1>13, <2>2, <2>3, <2>4, <3>2, <3>3
  <2>5. CASE ~Continues
    <3>1. MayWait(t, at) <= StillToCome(t) + Cardinality(Others(p))
      <4>1. CASE q = p
        <5>1. MayWait(t, at) = StillToCome(t)
          BY <1>7, <2>5, <4>1 DEF MayWait
        <5> HIDE DEF p, q
        <5> QED
          BY <1>5, <1>13, <5>1
      <4>2. CASE q # p /\ p < q
        <5>1. MayWait(t, at) = StillToCome(t) + Cardinality(After(Behind(at), p))
          BY <4>2 DEF MayWait
        <5>2. /\ Cardinality(After(Behind(at), p)) <= Cardinality(After(Walk, p))
              /\ Cardinality(After(Behind(at), p)) \in Nat
          BY <1>13
        <5> HIDE DEF p, q
        <5> QED
          BY <1>5, <1>13, <5>1, <5>2
      <4>3. CASE q # p /\ ~(p < q)
        <5>1. MayWait(t, at) = StillToCome(t) + Cardinality(After(Walk, p)) + Cardinality(Behind(at))
          BY <4>3 DEF MayWait
        <5>2. Behind(at) \in SUBSET Others(p) /\ After(Walk, p) \cap Behind(at) = {}
          <6>1. \A y \in Walk : y[1] \in Nat
            BY WalkMembers
          <6>2. \A y \in Behind(at) : y \in Walk /\ (y[1] < q \/ y[1] = q)
            BY Zenon DEF Behind
          <6>3. \A y \in Behind(at) : y \in Walk /\ y[1] # p /\ ~(y[1] > p)
            BY <1>4, <4>3, <6>1, <6>2
          <6> QED
            BY <6>3 DEF Others, After
        <5>3. IsFiniteSet(Others(p))
          BY <1>12, WalkIsFinite
        <5>4. Cardinality(After(Walk, p)) + Cardinality(Behind(at)) <= Cardinality(Others(p))
          BY <1>12, <5>2, <5>3, TwoParts
        <5>5. Cardinality(Behind(at)) \in Nat
          BY <1>13
        <5> HIDE DEF p, q
        <5> QED
          BY <1>5, <1>13, <5>1, <5>4, <5>5
      <4> QED
        BY <4>1, <4>2, <4>3
    <3> HIDE DEF p, q
    <3> QED
      BY <1>2, <1>5, <1>13, <2>2, <2>3, <3>1
  <2> QED
    BY <2>4, <2>5
<1>22. CASE o = p /\ d.target # NoId /\ ~(id < t)
  (* The batch lies beyond the target. *)
  <2>1. Continues /\ q = p /\ t <= at.target /\ at.target # NoId /\ id = at.target
    BY <1>1, <1>4, <1>8, <1>9, <1>22
  <2>2. \A s \in S : s \in Nat /\ s \in Mine(p)
    BY <1>1, <1>11, <1>22
  <2>3. at.target < d.target /\ t <= d.target
    BY <1>1, <1>4, <1>22, <2>1, <2>2
  <2>4. MayWait(t, at) = Full(Upward(t, at.target)) /\ MayWait(t, d) = Full(Upward(t, d.target))
    BY <1>1, <1>22, <2>1, <2>3 DEF MayWait
  <2>5. /\ Upward(t, at.target) \in SUBSET Upward(t, d.target)
        /\ S \in SUBSET Upward(t, d.target)
        /\ Upward(t, at.target) \cap S = {}
    <3>1. \A s \in Mine(p) : s <= at.target => s <= d.target /\ ~(at.target < s)
      BY <1>4, <1>11, <2>3
    <3>2. \A s \in S : t < s /\ s <= d.target /\ at.target < s
      BY <1>1, <1>4, <1>22, <2>1, <2>2
    <3> QED
      BY <2>2, <3>1, <3>2 DEF Upward
  <2>6. Upward(t, d.target) \in SUBSET Targets
    BY <1>10
  <2>7. Full(Upward(t, at.target)) + 1 <= Full(Upward(t, d.target))
    BY <1>1, <1>22, <2>5, <2>6, FullByOne
  <2> QED
    BY <2>4, <2>7
<1>23. CASE o # p /\ p < o
  <2>1. MayWait(t, d) = StillToCome(t) + Cardinality(After(Behind(d), p))
    BY <1>1, <1>23 DEF MayWait
  <2>2. ~(q < p)
    BY <1>1, <1>3, <1>4, <1>23
  <2>3. q < o \/ (q = o /\ Continues)
    BY <1>1, <1>3, <1>4, <1>23
  <2>4. CASE q = p
    <3>1. ~Continues
      BY <1>1, <1>23, <2>4
    <3>2. MayWait(t, at) = StillToCome(t)
      BY <1>7, <2>4, <3>1 DEF MayWait
    <3>3. Cardinality(After(Behind(d), p)) >= 1 /\ Cardinality(After(Behind(d), p)) \in Nat
      BY <1>4, <1>13, <1>15, <1>23
    <3> HIDE DEF p, q
    <3> QED
      BY <1>5, <2>1, <3>2, <3>3
  <2>5. CASE q # p
    <3>1. MayWait(t, at) = StillToCome(t) + Cardinality(After(Behind(at), p))
      BY <1>4, <2>2, <2>5 DEF MayWait
    <3>2. Cardinality(After(Behind(at), p)) + 1 <= Cardinality(After(Behind(d), p))
      BY <1>4, <1>16, <1>23, <2>3
    <3>3. Cardinality(After(Behind(at), p)) \in Nat /\ Cardinality(After(Behind(d), p)) \in Nat
      BY <1>13
    <3> HIDE DEF p, q
    <3> QED
      BY <1>5, <2>1, <3>1, <3>2, <3>3
  <2> QED
    BY <2>4, <2>5
<1>24. CASE o # p /\ ~(p < o)
  <2>1. MayWait(t, d) = StillToCome(t) + Cardinality(After(Walk, p)) + Cardinality(Behind(d))
    BY <1>1, <1>24 DEF MayWait
  <2>2. Cardinality(Behind(d)) \in Nat /\ Cardinality(Behind(at)) \in Nat
        /\ Cardinality(After(Behind(at), p)) \in Nat
        /\ Cardinality(After(Behind(at), p)) <= Cardinality(After(Walk, p))
    BY <1>13
  <2>3. CASE q = p
    <3>1. ~Continues
      BY <1>1, <1>24, <2>3
    <3>2. MayWait(t, at) = StillToCome(t)
      BY <1>7, <2>3, <3>1 DEF MayWait
    <3> HIDE DEF p, q
    <3> QED
      BY <1>5, <1>13, <1>15, <2>1, <2>2, <3>2
  <2>4. CASE q # p /\ p < q
    <3>1. MayWait(t, at) = StillToCome(t) + Cardinality(After(Behind(at), p))
      BY <2>4 DEF MayWait
    <3> HIDE DEF p, q
    <3> QED
      BY <1>5, <1>13, <1>15, <2>1, <2>2, <3>1
  <2>5. CASE q # p /\ ~(p < q)
    <3>1. q < p /\ (q < o \/ (q = o /\ Continues))
      BY <1>1, <1>3, <1>4, <1>24, <2>5
    <3>2. MayWait(t, at) = StillToCome(t) + Cardinality(After(Walk, p)) + Cardinality(Behind(at))
      BY <2>5 DEF MayWait
    <3>3. Cardinality(Behind(at)) + 1 <= Cardinality(Behind(d))
      BY <1>16, <3>1
    <3> HIDE DEF p, q
    <3> QED
      BY <1>5, <1>13, <2>1, <2>2, <3>2, <3>3
  <2> QED
    BY <2>3, <2>4, <2>5
<1> QED
  BY <1>20, <1>21, <1>22, <1>23, <1>24

LEMMA SweepInitInv == SweepInit => SweepInv
<1> SUFFICES ASSUME SweepInit PROVE SweepInv
  OBVIOUS
<1>1. SweepTypes
  BY SweepAssumption DEF SweepInit, SweepTypes, Cursor
<1>2. CursorIsSound
  BY DEF SweepInit, CursorIsSound
<1>3. OrganizationsTakeTurns
  <2>1. \A o \in listed : passed[o] = 0
    BY DEF SweepInit
  <2> QED
    BY <2>1, PassedByIsFinite DEF OrganizationsTakeTurns
<1>4. \A t \in active : waits[t] <= MayWait(t, at)
  <2>1. \A t \in active : t \in Targets /\ waits[t] = 0
    BY <1>1 DEF SweepInit, SweepTypes
  <2> QED
    BY <1>1, <2>1, MayWaitIsNat DEF SweepTypes
<1> QED
  BY <1>1, <1>2, <1>3, <1>4 DEF SweepInv

(* What is left alone. *)
LEMMA CursorStays ==
  ASSUME SweepInv, at' = at, SweepTypes',
         \A t \in active' : waits'[t] = 0 \/ (t \in active /\ waits'[t] = waits[t])
  PROVE  CursorIsSound' /\ \A t \in active' : waits'[t] <= MayWait(t, at)'
<1>1. CursorIsSound'
  BY DEF SweepInv, CursorIsSound, UpTo, Mine
<1>2. \A t : MayWait(t, at)' = MayWait(t, at)
  BY DEF MayWait, StillToCome, Later, Upward, UpTo, Mine, Full, After, Others, Behind, TurnsTaken
<1>3. ASSUME NEW t \in active' PROVE waits'[t] <= MayWait(t, at)'
  <2>1. t \in Targets /\ at \in Cursor
    BY DEF SweepInv, SweepTypes
  <2>2. MayWait(t, at) \in Nat
    BY <2>1, MayWaitIsNat
  <2> QED
    BY <1>2, <2>2 DEF SweepInv
<1> QED
  BY <1>1, <1>3

LEMMA OrganizationsStay ==
  ASSUME SweepInv, after' = after, SweepTypes',
         \A o \in listed' : passed'[o] = 0 \/ (o \in listed /\ passed'[o] = passed[o])
  PROVE  OrganizationsTakeTurns'
<1>1. \A o : PassedBy(o)' = PassedBy(o)
  BY DEF PassedBy, FromTo
<1> QED
  BY <1>1, PassedByIsFinite DEF SweepInv, OrganizationsTakeTurns

LEMMA SweepNextKeeps == SweepInv /\ SweepNext => SweepInv'
<1> SUFFICES ASSUME SweepInv, SweepNext PROVE SweepInv'
  OBVIOUS
<1>0. /\ SweepTypes /\ CursorIsSound /\ OrganizationsTakeTurns
      /\ \A t \in active : waits[t] <= MayWait(t, at)
  BY DEF SweepInv
<1>1. CASE IngestBatch
  <2>1. PICK o \in Chosen : at' = CursorAfter(o, Batch(o)) /\ waits' = Waited(Batch(o))
    BY <1>1 DEF IngestBatch
  <2>2. UNCHANGED <<listed, active, after, passed>>
    BY <1>1 DEF IngestBatch
  <2>3. at' \in Cursor /\ at'.organization = o
    BY <1>0, <2>1, BatchIsNext
  <2>4. \A t \in Targets : waits'[t] = IF t \in Batch(o) \/ t \notin active THEN 0
                                     ELSE waits[t] + 1
    BY <2>1 DEF Waited
  <2>5. SweepTypes'
    <3>1. waits' \in [Targets -> Nat]
      BY <1>0, <2>1 DEF Waited, SweepTypes
    <3>2. \A t \in Targets \ active' : waits'[t] = 0
      BY <2>2, <2>4
    <3> QED
      BY <1>0, <2>2, <2>3, <3>1, <3>2 DEF SweepTypes
  <2>6. CursorIsSound'
    <3>1. at'.target # NoId => /\ o = OwnerOf[at'.target]
                               /\ BatchSize <= Cardinality(UpTo(o, at'.target))
      BY <1>0, <2>1, TakesATurn
    <3> QED
      BY <2>3, <3>1 DEF CursorIsSound, UpTo, Mine
  <2>7. OrganizationsTakeTurns'
    BY <2>2, <2>5, OrganizationsStay
  <2>8. ASSUME NEW t \in active' PROVE waits'[t] <= MayWait(t, at)'
    <3>1. t \in active /\ t \in Targets /\ waits[t] \in Nat
      BY <1>0, <2>2 DEF SweepTypes
    <3>2. MayWait(t, at)' = MayWait(t, at')
      BY DEF MayWait, StillToCome, Later, Upward, UpTo, Mine, Full, After, Others, Behind, TurnsTaken
    <3>3. MayWait(t, at') \in Nat /\ MayWait(t, at) \in Nat
      BY <1>0, <2>3, <3>1, MayWaitIsNat DEF SweepTypes
    <3>4. CASE t \in Batch(o)
      BY <2>4, <3>1, <3>2, <3>3, <3>4
    <3>5. CASE t \notin Batch(o)
      <4>1. MayWait(t, at) + 1 <= MayWait(t, at')
        BY <1>0, <2>1, <3>1, <3>5, WaitGrows
      <4>2. waits'[t] = waits[t] + 1 /\ waits[t] <= MayWait(t, at)
        BY <1>0, <2>4, <3>1, <3>5
      <4> QED
        BY <3>1, <3>2, <3>3, <4>1, <4>2
    <3> QED
      BY <3>4, <3>5
  <2> QED
    BY <2>5, <2>6, <2>7, <2>8 DEF SweepInv
<1>2. CASE IngestFails
  <2>1. /\ UNCHANGED <<listed, active, at, after, passed>>
        /\ \E done \in SUBSET Targets :
             waits' = [t \in Targets |-> IF t \in done THEN 0 ELSE waits[t]]
    <3>1. PICK o \in Chosen : \E done \in SUBSET Batch(o) :
            waits' = [t \in Targets |-> IF t \in done THEN 0 ELSE waits[t]]
      BY <1>2 DEF IngestFails
    <3>2. Batch(o) \in SUBSET Targets
      <4>1. Batch(o) \in SUBSET Mine(o)
        BY <1>0, BatchIsNext
      <4> QED
        BY <4>1 DEF Mine
    <3> QED
      BY <1>2, <3>1, <3>2 DEF IngestFails
  <2>2. SweepTypes'
    BY <1>0, <2>1 DEF SweepTypes
  <2>3. CursorIsSound' /\ \A t \in active' : waits'[t] <= MayWait(t, at)'
    <3>1. \A t \in active' : waits'[t] = 0 \/ (t \in active /\ waits'[t] = waits[t])
      BY <1>0, <2>1 DEF SweepTypes
    <3> QED
      BY <2>1, <2>2, <3>1, CursorStays
  <2>4. OrganizationsTakeTurns'
    BY <2>1, <2>2, OrganizationsStay
  <2> QED
    BY <2>2, <2>3, <2>4 DEF SweepInv
<1>3. CASE VisitOrganizations
  <2>1. /\ UNCHANGED <<listed, active, at, waits>>
        /\ \E batch : passed' = [o \in Organizations |->
             IF o \in batch \/ o \notin listed THEN 0 ELSE passed[o] + 1]
    BY <1>3 DEF VisitOrganizations
  <2>2. OrganizationsTakeTurns' /\ after' \in Organizations \cup {NoId}
    BY <1>0, <1>3, VisitsMoveOn
  <2>3. SweepTypes'
    BY <1>0, <2>1, <2>2 DEF SweepTypes
  <2>4. CursorIsSound' /\ \A t \in active' : waits'[t] <= MayWait(t, at)'
    BY <2>1, <2>3, CursorStays
  <2> QED
    BY <2>2, <2>3, <2>4 DEF SweepInv
<1>4. ASSUME NEW u \in Targets, OwnerOf[u] \in listed, Toggle(u) PROVE SweepInv'
  <2>1. /\ UNCHANGED <<listed, at, after, passed>>
        /\ active' = (IF u \in active THEN active \ {u} ELSE active \cup {u})
        /\ waits' = [waits EXCEPT ![u] = 0]
    BY <1>4 DEF Toggle
  <2>2. SweepTypes'
    BY <1>0, <1>4, <2>1 DEF SweepTypes
  <2>3. \A t \in active' : waits'[t] = 0 \/ (t \in active /\ waits'[t] = waits[t])
    BY <1>0, <2>1 DEF SweepTypes
  <2>4. CursorIsSound' /\ \A t \in active' : waits'[t] <= MayWait(t, at)'
    BY <2>1, <2>2, <2>3, CursorStays
  <2>5. OrganizationsTakeTurns'
    BY <2>1, <2>2, OrganizationsStay
  <2> QED
    BY <2>2, <2>4, <2>5 DEF SweepInv
<1>5. ASSUME NEW u \in Organizations, Register(u) PROVE SweepInv'
  <2>1. /\ UNCHANGED <<at, after>>
        /\ listed' = (IF u \in listed THEN listed \ {u} ELSE listed \cup {u})
        /\ active' = (IF u \in listed THEN {t \in active : OwnerOf[t] # u} ELSE active)
        /\ waits' = [t \in Targets |-> IF OwnerOf[t] = u THEN 0 ELSE waits[t]]
        /\ passed' = [passed EXCEPT ![u] = 0]
    BY <1>5 DEF Register
  <2>2. SweepTypes'
    BY <1>0, <1>5, <2>1 DEF SweepTypes
  <2>3. \A t \in active' : waits'[t] = 0 \/ (t \in active /\ waits'[t] = waits[t])
    BY <1>0, <2>1 DEF SweepTypes
  <2>4. CursorIsSound' /\ \A t \in active' : waits'[t] <= MayWait(t, at)'
    BY <2>1, <2>2, <2>3, CursorStays
  <2>5. \A o \in listed' : passed'[o] = 0 \/ (o \in listed /\ passed'[o] = passed[o])
    BY <1>0, <1>5, <2>1 DEF SweepTypes
  <2>6. OrganizationsTakeTurns'
    BY <2>1, <2>2, <2>5, OrganizationsStay
  <2> QED
    BY <2>2, <2>4, <2>6 DEF SweepInv
<1> QED
  BY <1>1, <1>2, <1>3, <1>4, <1>5 DEF SweepNext

LEMMA SweepInvBounds == SweepInv => TargetsTakeTurns
<1> SUFFICES ASSUME SweepInv PROVE TargetsTakeTurns
  OBVIOUS
<1>0. SweepTypes /\ OrganizationsTakeTurns /\ \A t \in active : waits[t] <= MayWait(t, at)
  BY DEF SweepInv
<1>1. ASSUME NEW t \in Targets PROVE waits[t] <= Cardinality(Walk)
  <2>1. Cardinality(Walk) \in Nat /\ waits[t] \in Nat
    BY <1>0, WalkIsFinite DEF SweepTypes
  <2>2. CASE t \in active
    <3>1. MayWait(t, at) \in Nat /\ MayWait(t, at) <= Cardinality(Walk)
      BY <1>0, MayWaitIsNat, WaitIsWithinWalk DEF SweepTypes
    <3> QED
      BY <1>0, <2>1, <2>2, <3>1
  <2>3. CASE t \notin active
    BY <1>0, <2>1, <2>3 DEF SweepTypes
  <2> QED
    BY <2>2, <2>3
<1>2. ASSUME NEW o \in Organizations PROVE passed[o] <= Cardinality(Organizations)
  <2>1. Cardinality(Organizations) \in Nat /\ passed[o] \in Nat
    BY <1>0, SweepAssumption, FS_CardinalityType DEF SweepTypes
  <2>2. CASE o \in listed
    BY <1>0, <2>1, <2>2, PassedByIsFinite DEF OrganizationsTakeTurns
  <2>3. CASE o \notin listed
    BY <1>0, <2>1, <2>3 DEF SweepTypes
  <2> QED
    BY <2>2, <2>3
<1> QED
  BY <1>1, <1>2 DEF TargetsTakeTurns

(* Safety: bounded waiting.  An active target is synced within one walk of  *)
(* successful executions, and a listed organization is visited within as    *)
(* many executions as there are organizations, whatever others come and go  *)
(* (jobs.ts:208).                                                           *)
THEOREM EveryoneGetsATurn == SweepSpec => []TargetsTakeTurns
<1>1. SweepInv /\ UNCHANGED sweep => SweepInv'
  BY ZenonT(40) DEF sweep, SweepInv, SweepTypes, CursorIsSound, OrganizationsTakeTurns, PassedBy, FromTo,
         MayWait, StillToCome, Later, Upward, UpTo, Mine, Full, After, Others, Behind, TurnsTaken
<1> QED
  BY <1>1, SweepInitInv, SweepNextKeeps, SweepInvBounds, PTL DEF SweepSpec

-----------------------------------------------------------------------------
(* ConsensusCheck. *)

CheckRow == [state : {"none", "pending"} \cup Settled, done : BOOLEAN, live : BOOLEAN]
Selected == [stage |-> "selected"]
Observer == [stage : {"asking"}, claim : {"latest", "stale"},
             status : [Providers -> {"nothing", "confirmed", "finalized", Asked}],
             answer : [Providers -> Versions \cup {"nothing", Asked}]]

ConsensusTypeOK ==
  /\ has \in [Providers -> Versions]
  /\ shows \in [Providers -> {"nothing", "confirmed", "finalized"}]
  /\ check \in CheckRow
  /\ verifier \in [Verifiers -> Observer \cup {Away, Selected}]
  /\ transfer \in {"finalized", "quarantined"}

(* What a verifier was told is still true: a provider does not take back    *)
(* what it has finalized.                                                   *)
Truthful(q) ==
  \A p \in Providers :
    /\ q.status[p] = "finalized" => shows[p] = "finalized"
    /\ q.answer[p] \notin {"nothing", Asked} => q.answer[p] = has[p]

ConsensusInv ==
  /\ ConsensusTypeOK
  /\ \A v \in Verifiers : verifier[v].stage = "asking" => Truthful(verifier[v])
  /\ check.state \in Settled => check.done
  /\ (transfer = "quarantined") = (check.state = "disagreed")
  /\ AgreedIsShown

LEMMA ConsensusInitInv == ConsensusInit => ConsensusInv
<1> SUFFICES ASSUME ConsensusInit PROVE ConsensusInv
  OBVIOUS
<1>1. check \in CheckRow /\ check.state = "none"
  BY DEF ConsensusInit, NoCheck, CheckRow
<1>2. \A v \in Verifiers : verifier[v] = Away /\ verifier[v].stage # "asking"
  BY DEF ConsensusInit, Away
<1> QED
  BY <1>1, <1>2
  DEF ConsensusInit, ConsensusInv, ConsensusTypeOK, Settled, AgreedIsShown

(* A verifier that becomes q while the check stays.                         *)
LEMMA VerifierKeeps ==
  ASSUME ConsensusInv, NEW v \in Verifiers, NEW q \in Observer \cup {Away, Selected},
         verifier' = [verifier EXCEPT ![v] = q], q.stage = "asking" => Truthful(q),
         UNCHANGED <<has, shows, check, transfer>>
  PROVE  ConsensusInv'
<1> USE DEF ConsensusInv
<1>1. \A w \in Verifiers : verifier'[w] = (IF w = v THEN q ELSE verifier[w])
  BY DEF ConsensusTypeOK
<1>2. ConsensusTypeOK'
  BY DEF ConsensusTypeOK
<1>3. ASSUME NEW w \in Verifiers, verifier'[w].stage = "asking"
      PROVE  Truthful(verifier[w])'
  BY <1>1, <1>3 DEF Truthful
<1> QED
  BY <1>2, <1>3 DEF AgreedIsShown, Truthful

LEMMA HoldingNothing ==
  ASSUME NEW c \in {"latest", "stale"}
  PROVE  Holding(c) \in Observer /\ Truthful(Holding(c))
  BY DEF Holding, Observer, Truthful, Asked

LEMMA ClaimStepKeeps ==
  ASSUME ConsensusInv, NEW v \in Verifiers, ClaimStep(v), UNCHANGED <<has, shows, transfer>>
  PROVE  ConsensusInv'
<1>1. CASE check.state \in Settled
  <2>1. verifier' = [verifier EXCEPT ![v] = Away] /\ UNCHANGED check
    BY <1>1 DEF ClaimStep
  <2>2. Away.stage # "asking"
    BY DEF Away
  <2> QED
    BY <2>1, <2>2, VerifierKeeps
<1>2. CASE check.state \notin Settled /\ ~check.done /\ check.live
  <2>1. verifier' = [verifier EXCEPT ![v] = Holding("latest")] /\ UNCHANGED check
    BY <1>2 DEF ClaimStep
  <2> QED
    BY <2>1, HoldingNothing, VerifierKeeps
<1>3. CASE check.state \notin Settled /\ ~(~check.done /\ check.live)
  <2> USE DEF ConsensusInv
  <2>1. NewGeneration(v)
    BY <1>3 DEF ClaimStep
  <2>2. check' \in CheckRow /\ check'.state = "pending"
    BY <2>1 DEF NewGeneration, CheckRow
  <2>3. ASSUME NEW w \in Verifiers
        PROVE  /\ verifier'[w] \in Observer \cup {Away, Selected}
               /\ verifier'[w].stage = "asking" => Truthful(verifier'[w])
    <3>1. CASE w = v
      BY <2>1, <3>1, HoldingNothing DEF NewGeneration
    <3>2. CASE w # v /\ verifier[w].stage = "asking"
      <4> DEFINE q == [verifier[w] EXCEPT !.claim = "stale"]
      <4>1. verifier'[w] = q
        BY <2>1, <3>2 DEF NewGeneration
      <4>2. verifier[w] \in Observer
        BY <3>2 DEF ConsensusTypeOK, Away, Selected
      <4>3. q \in Observer /\ q.status = verifier[w].status /\ q.answer = verifier[w].answer
        BY <4>2 DEF Observer
      <4> QED
        BY <3>2, <4>1, <4>3 DEF Truthful
    <3>3. CASE w # v /\ verifier[w].stage # "asking"
      <4>1. verifier'[w] = verifier[w]
        BY <2>1, <3>3 DEF NewGeneration
      <4> QED
        BY <3>3, <4>1 DEF ConsensusTypeOK
    <3> QED
      BY <3>1, <3>2, <3>3
  <2>4. verifier' \in [Verifiers -> Observer \cup {Away, Selected}]
    <3>1. verifier' = [w \in Verifiers |-> verifier'[w]]
      BY <2>1 DEF NewGeneration
    <3> QED
      BY <2>3, <3>1
  <2>5. ConsensusTypeOK'
    BY <2>2, <2>4 DEF ConsensusTypeOK
  <2>6. \A w \in Verifiers : verifier'[w].stage = "asking" => Truthful(verifier[w])'
    BY <2>3 DEF Truthful
  <2>7. check.state # "disagreed"
    BY <1>3 DEF Settled
  <2> QED
    BY <2>2, <2>5, <2>6, <2>7 DEF Settled, AgreedIsShown
<1> QED
  BY <1>1, <1>2, <1>3

(* An answer of a provider. *)
LEMMA AnswerKeeps ==
  ASSUME ConsensusInv, NEW v \in Verifiers, NEW p \in Providers,
         AnswerStatus(v, p) \/ AnswerTransaction(v, p) \/ RequestFails(v, p)
  PROVE  ConsensusInv'
<1> DEFINE q == verifier[v]
<1>1. q.stage = "asking" /\ q \in Observer /\ Truthful(q)
  BY DEF AnswerStatus, AnswerTransaction, RequestFails, ConsensusInv, ConsensusTypeOK, Away,
         Selected
<1>2. shows[p] \in {"nothing", "confirmed", "finalized"} /\ has[p] \in Versions
  BY DEF ConsensusInv, ConsensusTypeOK
<1>3. CASE AnswerStatus(v, p)
  <2> DEFINE r == [q EXCEPT !.status[p] = StatusOf(p)]
  <2>1. r \in Observer /\ r.answer = q.answer /\ r.status = [q.status EXCEPT ![p] = shows[p]]
    BY <1>1, <1>2 DEF Observer, StatusOf
  <2>2. verifier' = [verifier EXCEPT ![v] = r] /\ UNCHANGED <<has, shows, check, transfer>>
    BY <1>3 DEF AnswerStatus
  <2> HIDE DEF r
  <2>3. Truthful(r)
    BY <1>1, <2>1 DEF Truthful, Observer
  <2> QED
    BY <2>1, <2>2, <2>3, VerifierKeeps
<1>4. ASSUME NEW a \in {has[p], "nothing"},
             verifier' = [verifier EXCEPT ![v].answer[p] = a],
             UNCHANGED <<has, shows, check, transfer>>
      PROVE  ConsensusInv'
  <2> DEFINE r == [q EXCEPT !.answer[p] = a]
  <2>1. r \in Observer /\ r.status = q.status /\ r.answer = [q.answer EXCEPT ![p] = a]
    BY <1>1, <1>2 DEF Observer
  <2>2. verifier' = [verifier EXCEPT ![v] = r]
    BY <1>4
  <2> HIDE DEF r
  <2>3. Truthful(r)
    BY <1>1, <2>1 DEF Truthful, Observer
  <2> QED
    BY <1>4, <2>1, <2>2, <2>3, VerifierKeeps
<1>5. CASE AnswerTransaction(v, p) \/ RequestFails(v, p)
  BY <1>4, <1>5 DEF AnswerTransaction, RequestFails, TransactionOf
<1> QED
  BY <1>3, <1>5

(* A verdict agrees only with what both have finalized.                     *)
LEMMA CompleteCheckKeeps ==
  ASSUME ConsensusInv, NEW v \in Verifiers, CompleteCheck(v)
  PROVE  ConsensusInv'
<1> DEFINE q == verifier[v]
<1> USE DEF ConsensusInv
<1>1. Away.stage # "asking"
  BY DEF Away
<1>2. verifier' = [verifier EXCEPT ![v] = Away] /\ UNCHANGED <<has, shows>>
  BY DEF CompleteCheck
<1>3. CASE ~Applies(v)
  BY <1>1, <1>2, <1>3, VerifierKeeps DEF CompleteCheck
<1>4. CASE Applies(v)
  <2>1. /\ check' = [check EXCEPT !.state = Verdict(v), !.done = TRUE]
        /\ transfer' = (IF Verdict(v) = "disagreed" THEN "quarantined" ELSE transfer)
        /\ check.state = "pending"
    BY <1>4 DEF CompleteCheck, Applies
  <2>2. Verdict(v) \in {"pending", "agreed", "disagreed"}
    BY DEF Verdict
  <2> DEFINE d == Verdict(v)
  <2> HIDE DEF d
  <2>3. check' \in CheckRow /\ check'.state = Verdict(v) /\ check'.done
    <3>1. check' = [check EXCEPT !.state = d, !.done = TRUE] /\ d \in {"pending"} \cup Settled
      BY <2>1, <2>2 DEF d, Settled
    <3> QED
      BY <3>1 DEF ConsensusTypeOK, CheckRow, d
  <2>4. ConsensusTypeOK'
    BY <1>2, <2>1, <2>3 DEF ConsensusTypeOK
  <2>5. \A w \in Verifiers : verifier'[w].stage = "asking" => Truthful(verifier[w])'
    <3>1. \A w \in Verifiers : verifier'[w] = (IF w = v THEN Away ELSE verifier[w])
      BY <1>2 DEF ConsensusTypeOK
    <3> QED
      BY <1>1, <1>2, <3>1 DEF Truthful
  <2>6. (transfer' = "quarantined") = (check'.state = "disagreed")
    BY <2>1, <2>2, <2>3
  <2>7. Verdict(v) = "agreed" => \A p, p2 \in Providers :
                                   shows[p] = "finalized" /\ has[p] = has[p2]
    <3> SUFFICES ASSUME Verdict(v) = "agreed", NEW p \in Providers, NEW p2 \in Providers
                 PROVE  shows[p] = "finalized" /\ has[p] = has[p2]
      OBVIOUS
    <3>1. /\ q.stage = "asking" /\ Truthful(q)
          /\ \A r \in Providers : q.answer[r] # Asked
      BY DEF CompleteCheck, Answered
    <3>2. /\ \A r \in Providers : Available(v, r) /\ Finalized(v, r)
          /\ SameAnswers(v)
      BY DEF Verdict
    <3> QED
      BY <3>1, <3>2 DEF Truthful, Available, Finalized, SameAnswers
  <2>8. AgreedIsShown'
    BY <1>2, <2>3, <2>7 DEF AgreedIsShown
  <2> QED
    BY <2>3, <2>4, <2>5, <2>6, <2>8
<1> QED
  BY <1>3, <1>4

LEMMA ConsensusStep == ConsensusInv /\ [ConsensusNext]_consensus => ConsensusInv'
<1> SUFFICES ASSUME ConsensusInv, [ConsensusNext]_consensus PROVE ConsensusInv'
  OBVIOUS
<1>1. ASSUME NEW p \in Providers, Follow(p) PROVE ConsensusInv'
  <2>1. /\ shows' \in [Providers -> {"nothing", "confirmed", "finalized"}]
        /\ \A r \in Providers : shows[r] = "finalized" => shows'[r] = "finalized"
        /\ UNCHANGED <<has, check, verifier, transfer>>
    BY <1>1 DEF Follow, ConsensusInv, ConsensusTypeOK
  <2> QED
    BY <2>1 DEF ConsensusInv, ConsensusTypeOK, Truthful, AgreedIsShown
<1>2. ASSUME NEW v \in Verifiers, Select(v) \/ VerifierDies(v) PROVE ConsensusInv'
  <2>1. Away.stage # "asking" /\ Selected.stage # "asking"
    BY DEF Away, Selected
  <2> QED
    BY <1>2, <2>1, VerifierKeeps DEF Select, VerifierDies, Selected
<1>3. ASSUME NEW v \in Verifiers, Claim(v) PROVE ConsensusInv'
  BY <1>3, ClaimStepKeeps DEF Claim
<1>4. ASSUME NEW v \in Verifiers, CompleteCheck(v) PROVE ConsensusInv'
  BY <1>4, CompleteCheckKeeps
<1>5. ASSUME NEW v \in Verifiers, NEW p \in Providers,
             AnswerStatus(v, p) \/ AnswerTransaction(v, p) \/ RequestFails(v, p)
      PROVE  ConsensusInv'
  BY <1>5, AnswerKeeps
<1>6. CASE Lapse
  <2>1. /\ check' \in CheckRow /\ check'.state = check.state /\ check'.done = check.done
        /\ UNCHANGED <<has, shows, verifier, transfer>>
    BY <1>6 DEF Lapse, CheckRow, ConsensusInv, ConsensusTypeOK
  <2> QED
    BY <2>1 DEF ConsensusInv, ConsensusTypeOK, Truthful, AgreedIsShown
<1>7. CASE UNCHANGED consensus
  BY <1>7 DEF consensus, ConsensusInv, ConsensusTypeOK, Truthful, AgreedIsShown
<1> QED
  BY <1>1, <1>2, <1>3, <1>4, <1>5, <1>6, <1>7 DEF ConsensusNext, VerifierStep

(* A verdict is for good, it agrees only with what both providers have      *)
(* finalized, and the transfer is quarantined with a disagreement only.     *)
THEOREM VerdictStands == ConsensusSpec => VerdictIsForGood
<1> DEFINE Stands == /\ check.state \in Settled => check' = check
                     /\ (transfer' = "quarantined") = (check'.state = "disagreed")
                     /\ AgreedIsShown'
<1>1. ConsensusInv /\ [ConsensusNext]_consensus => [Stands]_consensus
  <2> SUFFICES ASSUME ConsensusInv, ConsensusNext PROVE Stands
    OBVIOUS
  <2>1. ConsensusInv'
    BY ConsensusStep
  <2>2. check.state \in Settled => check' = check
    BY DEF ConsensusInv, ConsensusNext, VerifierStep, Follow, Select, Claim, ClaimStep,
           CompleteCheck, Applies, AnswerStatus, AnswerTransaction, RequestFails, Lapse,
           VerifierDies, Settled
  <2> QED
    BY <2>1, <2>2 DEF ConsensusInv
<1> QED
  BY <1>1, ConsensusInitInv, ConsensusStep, PTL DEF ConsensusSpec, VerdictIsForGood
-----------------------------------------------------------------------------
(* Accounts. *)

Row == [to : Addresses, token : Callers, consumed : BOOLEAN]
Call ==
  {NotCalled, Ended} \cup [step : {"mailing"}]
  \cup [step : {"inviting"}, org : Orgs, to : Addresses]
  \cup [step : {"hashing"}, token : Callers]
  \cup [step : {"accepting"}, org : Orgs, row : Nat]
  \cup [step : {"asking", "demoting"}, org : Orgs, whom : Addresses]
Locking == {"inviting", "demoting"}

AccountsTypes ==
  /\ invitations \in [Orgs -> Seq(Row)]
  /\ owners \in [Orgs -> SUBSET Addresses]
  /\ calls \in [Callers -> Call]

(* What a transaction found is still so while it holds its locks. *)
LocksHold ==
  /\ \A c \in Callers :
       /\ calls[c].step = "accepting" => calls[c].row \in DOMAIN invitations[calls[c].org]
       /\ calls[c].step = "inviting" => owners[calls[c].org] = {}
       /\ calls[c].step = "demoting" => owners[calls[c].org] \ {calls[c].whom} # {}
  /\ \A c, d \in Callers :
       calls[c].step \in Locking /\ calls[d].step \in Locking /\ calls[c].org = calls[d].org
         => c = d

TokensAreOfCommands == mails \subseteq Callers

AtMostOneInvitation == \A o \in Orgs : Len(invitations[o]) <= 1

AccountsInv == AccountsTypes /\ LocksHold /\ AtMostOneInvitation /\ InvitedOnce

LEMMA AccountsInitInv == AccountsInit => AccountsInv
<1> SUFFICES ASSUME AccountsInit PROVE AccountsInv
  OBVIOUS
<1>1. AccountsTypes /\ AtMostOneInvitation /\ InvitedOnce
  BY DEF AccountsInit, AccountsTypes, AtMostOneInvitation, InvitedOnce, Call
<1>2. LocksHold
  BY DEF AccountsInit, LocksHold, NotCalled, Locking
<1> QED
  BY <1>1, <1>2 DEF AccountsInv

(* A caller goes on; the rows and the owners stay. *)
LEMMA CallKeeps ==
  ASSUME AccountsInv, NEW c \in Callers, NEW r \in Call,
         calls' = [calls EXCEPT ![c] = r], UNCHANGED <<invitations, owners>>,
         r.step = "accepting" => r.row \in DOMAIN invitations[r.org],
         r.step = "inviting" => owners[r.org] = {},
         r.step = "demoting" => owners[r.org] \ {r.whom} # {},
         r.step \in Locking => ~OrganizationLocked(r.org)
  PROVE  AccountsInv'
<1> USE DEF AccountsInv
<1>1. AccountsTypes' /\ AtMostOneInvitation' /\ InvitedOnce'
  BY DEF AccountsTypes, AtMostOneInvitation, InvitedOnce
<1>2. \A d \in Callers : calls'[d] = IF d = c THEN r ELSE calls[d]
  BY DEF AccountsTypes
<1>3. r.step \in Locking =>
        \A d \in Callers : calls[d].step \in Locking => calls[d].org # r.org
  BY DEF OrganizationLocked, Locking
<1>4. LocksHold'
  BY <1>2, <1>3 DEF LocksHold
<1> QED
  BY <1>1, <1>4

LEMMA EndKeeps ==
  ASSUME AccountsInv, NEW c \in Callers, Ends(c), UNCHANGED <<invitations, owners>>
  PROVE  AccountsInv'
<1>1. Ended \in Call /\ Ended.step = "done"
  BY DEF Call, Ended
<1> QED
  BY <1>1, CallKeeps DEF Ends, Locking

LEMMA StartInvitationKeeps ==
  ASSUME AccountsInv, NEW c \in Callers, NEW o \in Orgs, NEW a \in Addresses,
         StartInvitation(c, o, a)
  PROVE  AccountsInv'
<1> DEFINE r == [step |-> "inviting", org |-> o, to |-> a]
<1>1. r \in Call
  BY DEF Call
<1> QED
  BY <1>1, CallKeeps DEF StartInvitation

LEMMA AskDemotionKeeps ==
  ASSUME AccountsInv, NEW c \in Callers, NEW o \in Orgs, NEW a \in Addresses,
         AskDemotion(c, o, a)
  PROVE  AccountsInv'
<1> DEFINE r == [step |-> "asking", org |-> o, whom |-> a]
<1>1. r \in Call
  BY DEF Call
<1> QED
  BY <1>1, CallKeeps DEF AskDemotion, Locking

LEMMA AskAcceptanceKeeps ==
  ASSUME AccountsInv, TokensAreOfCommands, NEW c \in Callers, NEW t \in mails,
         AskAcceptance(c, t)
  PROVE  AccountsInv'
<1> DEFINE r == [step |-> "hashing", token |-> t]
<1>1. r \in Call
  BY DEF Call, TokensAreOfCommands
<1> QED
  BY <1>1, CallKeeps DEF AskAcceptance, Locking

LEMMA StartAcceptanceKeeps ==
  ASSUME AccountsInv, NEW c \in Callers, StartAcceptance(c)
  PROVE  AccountsInv'
<1>1. CASE Ends(c)
  BY <1>1, EndKeeps DEF StartAcceptance
<1>2. CASE ~Ends(c)
  <2>1. PICK row \in Rows :
          calls' = [calls EXCEPT ![c] = [step |-> "accepting", org |-> row[1], row |-> row[2]]]
    BY <1>2 DEF StartAcceptance
  <2>2. PICK o \in Orgs : row \in {o} \X DOMAIN invitations[o]
    BY DEF Rows
  <2>3. row[1] = o /\ row[2] \in DOMAIN invitations[o] /\ row[2] \in Nat
    BY <2>2 DEF AccountsInv, AccountsTypes
  <2> DEFINE r == [step |-> "accepting", org |-> row[1], row |-> row[2]]
  <2>4. r \in Call
    BY <2>3 DEF Call
  <2> QED
    BY <2>1, <2>3, <2>4, CallKeeps DEF StartAcceptance, Locking
<1> QED
  BY <1>1, <1>2

LEMMA ProtectLastOwnerKeeps ==
  ASSUME AccountsInv, NEW c \in Callers, ProtectLastOwner(c)
  PROVE  AccountsInv'
<1>1. CASE Ends(c)
  BY <1>1, EndKeeps DEF ProtectLastOwner
<1>2. CASE ~Ends(c)
  <2> DEFINE r == [calls[c] EXCEPT !.step = "demoting"]
  <2>1. calls[c] \in [step : {"asking", "demoting"}, org : Orgs, whom : Addresses]
    BY DEF ProtectLastOwner, AccountsInv, AccountsTypes, Call, NotCalled, Ended
  <2>2. /\ r \in Call /\ r.step = "demoting"
        /\ r.org = calls[c].org /\ r.whom = calls[c].whom
    BY <2>1 DEF Call
  <2>3. /\ calls' = [calls EXCEPT ![c] = r] /\ UNCHANGED <<invitations, owners>>
        /\ ~OrganizationLocked(r.org) /\ owners[r.org] \ {r.whom} # {}
    BY <1>2, <2>2 DEF ProtectLastOwner, AccountsInv, AccountsTypes
  <2> QED
    BY <2>2, <2>3, CallKeeps DEF Locking
<1> QED
  BY <1>1, <1>2

(* A row of an organization is changed by a caller that then is done with   *)
(* it.                                                                      *)
LEMMA RowKeeps ==
  ASSUME AccountsInv, NEW c \in Callers, NEW r \in Call, r.step \in {"mailing", "done"},
         NEW o \in Orgs, NEW s \in Seq(Row),
         calls' = [calls EXCEPT ![c] = r], invitations' = [invitations EXCEPT ![o] = s],
         Len(s) >= Len(invitations[o]), Len(s) <= 1,
         NEW w \in [Orgs -> SUBSET Addresses], owners' = w,
         \A q \in Orgs : owners[q] \subseteq w[q] /\ (OrganizationLocked(q) => w[q] = owners[q]),
         \A i \in DOMAIN s : s[i].consumed => w[o] # {}
  PROVE  AccountsInv'
<1> USE DEF AccountsInv
<1>1. AccountsTypes'
  BY DEF AccountsTypes
<1>2. \A q \in Orgs : invitations'[q] = IF q = o THEN s ELSE invitations[q]
  BY DEF AccountsTypes
<1>3. AtMostOneInvitation'
  BY <1>2 DEF AtMostOneInvitation
<1>4. \A d \in Callers : calls'[d] = IF d = c THEN r ELSE calls[d]
  BY DEF AccountsTypes
<1>5. LocksHold'
  <2>1. ASSUME NEW d \in Callers, calls'[d].step = "accepting"
        PROVE  calls'[d].row \in DOMAIN invitations'[calls'[d].org]
    <3>1. calls'[d] = calls[d] /\ calls[d].row \in DOMAIN invitations[calls[d].org]
      BY <1>4, <2>1 DEF LocksHold
    <3>2. calls[d].org \in Orgs
      BY <2>1, <3>1 DEF AccountsTypes, Call, NotCalled, Ended
    <3>3. DOMAIN invitations[o] \subseteq DOMAIN s
      BY DEF AccountsTypes
    <3> QED
      BY <1>2, <3>1, <3>2, <3>3
  <2>2. ASSUME NEW d \in Callers, calls'[d].step \in Locking
        PROVE  calls'[d] = calls[d] /\ calls[d].org \in Orgs /\ w[calls[d].org] = owners[calls[d].org]
    <3>1. calls'[d] = calls[d]
      BY <1>4, <2>2 DEF Locking
    <3>2. calls[d].org \in Orgs
      BY <2>2, <3>1 DEF AccountsTypes, Call, NotCalled, Ended, Locking
    <3> QED
      BY <2>2, <3>1, <3>2 DEF OrganizationLocked, Locking
  <2> QED
    BY <2>1, <2>2, SMTT(30) DEF LocksHold, Locking
<1>6. InvitedOnce'
  <2> SUFFICES ASSUME NEW q \in Orgs, NEW i \in DOMAIN invitations'[q],
                      invitations'[q][i].consumed
               PROVE  w[q] # {} /\ Len(invitations'[q]) = 1
    BY DEF InvitedOnce
  <2>1. invitations'[q] \in Seq(Row)
    BY <1>1 DEF AccountsTypes
  <2>2. Len(invitations'[q]) = 1
    <3>1. ASSUME NEW z \in Seq(Row), NEW j \in DOMAIN z, Len(z) <= 1 PROVE Len(z) = 1
      <4> DEFINE k == Len(z)
      <4>1. k \in Nat /\ j \in 1..k /\ k <= 1
        BY <3>1
      <4> HIDE DEF k
      <4>2. k = 1
        BY <4>1
      <4> QED
        BY <4>2 DEF k
    <3> QED
      BY <1>3, <2>1, <3>1 DEF AtMostOneInvitation
  <2>3. w[q] # {}
    BY <1>2 DEF InvitedOnce
  <2> QED
    BY <2>2, <2>3
<1> QED
  BY <1>1, <1>3, <1>5, <1>6

LEMMA CommitInvitationKeeps ==
  ASSUME AccountsInv, NEW c \in Callers, CommitInvitation(c)
  PROVE  AccountsInv'
<1> DEFINE o == calls[c].org
           a == calls[c].to
           r == [step |-> "mailing"]
<1>1. /\ o \in Orgs /\ a \in Addresses /\ owners[o] = {}
      /\ UNCHANGED owners /\ owners \in [Orgs -> SUBSET Addresses]
      /\ invitations[o] \in Seq(Row)
  BY DEF CommitInvitation, AccountsInv, AccountsTypes, Call, NotCalled, Ended, LocksHold
<1>2. r \in Call /\ r.step = "mailing"
  BY DEF Call
<1>3. \A i \in DOMAIN invitations[o] : ~invitations[o][i].consumed
  BY <1>1 DEF AccountsInv, InvitedOnce
<1>4. CASE Unconsumed(o) = {}
  <2> DEFINE x == [to |-> a, token |-> c, consumed |-> FALSE]
             s == Append(invitations[o], x)
  <2>1. x \in Row /\ ~x.consumed
    BY <1>1 DEF Row
  <2>2. DOMAIN invitations[o] = {}
    BY <1>3, <1>4 DEF Unconsumed
  <2>3. Len(invitations[o]) = 0
    <3>1. \A z \in Seq(Row) : DOMAIN z = {} => Len(z) = 0
      OBVIOUS
    <3> QED
      BY <1>1, <2>2, <3>1
  <2>4. invitations' = [invitations EXCEPT ![o] = s] /\ calls' = [calls EXCEPT ![c] = r]
    BY <1>4 DEF CommitInvitation
  <2> HIDE DEF x, o
  <2>5. s \in Seq(Row) /\ Len(s) = 1 /\ DOMAIN s = {1} /\ s[1] = x
    BY <1>1, <2>1, <2>3
  <2>6. \A j \in DOMAIN s : s[j].consumed => owners[o] # {}
    BY <2>1, <2>5
  <2>7. Len(s) >= Len(invitations[o]) /\ Len(s) <= 1
    BY <2>3, <2>5
  <2> HIDE DEF s, r
  <2> QED
    BY <1>1, <1>2, <2>4, <2>5, <2>6, <2>7, RowKeeps
<1>5. ASSUME NEW i \in Unconsumed(o),
             invitations' = [invitations EXCEPT ![o][i].token = c],
             calls' = [calls EXCEPT ![c] = r]
      PROVE  AccountsInv'
  <2> DEFINE x == [invitations[o][i] EXCEPT !.token = c]
             s == [invitations[o] EXCEPT ![i] = x]
  <2>1. i \in DOMAIN invitations[o] /\ invitations[o][i] \in Row
    BY <1>1 DEF Unconsumed
  <2>2. x \in Row /\ x.consumed = invitations[o][i].consumed
    BY <2>1 DEF Row
  <2>3. invitations' = [invitations EXCEPT ![o] = s]
    BY <1>5
  <2> HIDE DEF x, o
  <2>4. s \in Seq(Row) /\ Len(s) = Len(invitations[o]) /\ DOMAIN s = DOMAIN invitations[o]
    BY <1>1, <2>1, <2>2
  <2>5. \A j \in DOMAIN s : ~s[j].consumed
    BY <1>3, <2>1, <2>2, <2>4
  <2>6. Len(s) <= 1
    BY <1>1, <2>4 DEF AccountsInv, AtMostOneInvitation
  <2>7. Len(s) >= Len(invitations[o])
    BY <1>1, <2>4
  <2>8. \A j \in DOMAIN s : s[j].consumed => owners[o] # {}
    BY <2>5
  <2> HIDE DEF s, r
  <2> QED
    BY <1>1, <1>2, <1>5, <2>3, <2>4, <2>6, <2>7, <2>8, RowKeeps
<1>6. CASE Ends(c) /\ UNCHANGED invitations
  BY <1>1, <1>6, EndKeeps
<1> QED
  BY <1>4, <1>5, <1>6 DEF CommitInvitation

LEMMA CommitAcceptanceKeeps ==
  ASSUME AccountsInv, NEW c \in Callers, CommitAcceptance(c)
  PROVE  AccountsInv'
<1> DEFINE o == calls[c].org
           i == calls[c].row
           a == invitations[o][i].to
           x == [invitations[o][i] EXCEPT !.consumed = TRUE]
           s == [invitations[o] EXCEPT ![i] = x]
           w == [owners EXCEPT ![o] = owners[o] \cup {a}]
<1>1. /\ o \in Orgs /\ i \in DOMAIN invitations[o] /\ invitations[o] \in Seq(Row)
      /\ owners \in [Orgs -> SUBSET Addresses]
  BY DEF CommitAcceptance, AccountsInv, AccountsTypes, Call, NotCalled, Ended, LocksHold
<1>2. invitations[o][i] \in Row
  BY <1>1
<1>3. x \in Row /\ a \in Addresses
  BY <1>2 DEF Row
<1>4. /\ invitations' = [invitations EXCEPT ![o] = s] /\ owners' = w
      /\ calls' = [calls EXCEPT ![c] = Ended] /\ ~OrganizationLocked(o)
  BY DEF CommitAcceptance, Ends
<1> HIDE DEF x, a, o, i
<1>5. s \in Seq(Row) /\ Len(s) = Len(invitations[o])
  BY <1>1, <1>3
<1>6. Len(s) <= 1
  BY <1>1, <1>5 DEF AccountsInv, AtMostOneInvitation
<1>7. /\ w \in [Orgs -> SUBSET Addresses] /\ w[o] # {}
      /\ \A q \in Orgs : owners[q] \subseteq w[q] /\ (q # o => w[q] = owners[q])
  BY <1>1, <1>3
<1>8. Ended \in Call /\ Ended.step = "done"
  BY DEF Call, Ended
<1>9. Len(s) >= Len(invitations[o])
  BY <1>1, <1>5
<1>10. \A q \in Orgs :
         owners[q] \subseteq w[q] /\ (OrganizationLocked(q) => w[q] = owners[q])
  BY <1>4, <1>7
<1> HIDE DEF s, w
<1> QED
  BY <1>1, <1>4, <1>5, <1>6, <1>7, <1>8, <1>9, <1>10, RowKeeps, ZenonT(40)

LEMMA MakeOwnerKeeps ==
  ASSUME AccountsInv, NEW o \in Orgs, NEW a \in Addresses, MakeOwner(o, a)
  PROVE  AccountsInv'
<1> USE DEF AccountsInv, MakeOwner
<1>1. AccountsTypes' /\ AtMostOneInvitation'
  BY DEF AccountsTypes, AtMostOneInvitation
<1>2. \A q \in Orgs : owners'[q] = IF q = o THEN owners[o] \cup {a} ELSE owners[q]
  BY DEF AccountsTypes
<1>3. \A c \in Callers : calls[c].step \in {"accepting", "inviting", "demoting"} =>
                           calls[c].org \in Orgs
  BY DEF AccountsTypes, Call, NotCalled, Ended
<1>4. LocksHold'
  BY <1>2, <1>3 DEF LocksHold
<1>5. InvitedOnce'
  BY <1>2 DEF InvitedOnce
<1> QED
  BY <1>1, <1>4, <1>5

LEMMA CommitDemotionKeeps ==
  ASSUME AccountsInv, NEW c \in Callers, CommitDemotion(c)
  PROVE  AccountsInv'
<1> USE DEF AccountsInv, CommitDemotion, Ends
<1> DEFINE o == calls[c].org
<1>1. o \in Orgs /\ owners[o] \ {calls[c].whom} # {}
  <2>1. o \in Orgs
    BY DEF AccountsTypes, Call, NotCalled, Ended
  <2> QED
    BY <2>1 DEF LocksHold
<1>2. \A q \in Orgs : owners'[q] = IF q = o THEN owners[o] \ {calls[c].whom} ELSE owners[q]
  BY DEF AccountsTypes
<1>3. \A d \in Callers : calls'[d] = IF d = c THEN Ended ELSE calls[d]
  BY DEF AccountsTypes
<1>4. AccountsTypes' /\ AtMostOneInvitation'
  <2>1. Ended \in Call
    BY DEF Call
  <2> QED
    BY <2>1 DEF AccountsTypes, AtMostOneInvitation
<1>5. \A d \in Callers : calls[d].step \in {"accepting", "inviting", "demoting"} =>
                           calls[d].org \in Orgs
  BY DEF AccountsTypes, Call, NotCalled, Ended
<1>6. \A d \in Callers : d # c /\ calls[d].step \in Locking => calls[d].org # o
  BY DEF LocksHold, Locking
<1>7. Ended.step = "done"
  BY DEF Ended
<1>8. LocksHold'
  BY <1>2, <1>3, <1>5, <1>6, <1>7 DEF LocksHold, Locking
<1>9. InvitedOnce'
  BY <1>1, <1>2 DEF InvitedOnce
<1> QED
  BY <1>4, <1>8, <1>9

LEMMA AccountsStep ==
  AccountsInv /\ TokensAreOfCommands /\ [AccountsNext]_accounts =>
    AccountsInv' /\ TokensAreOfCommands'
<1> SUFFICES ASSUME AccountsInv, TokensAreOfCommands, [AccountsNext]_accounts
             PROVE  AccountsInv' /\ TokensAreOfCommands'
  BY SMTT(30)
<1>1. TokensAreOfCommands'
  BY DEF TokensAreOfCommands, AccountsNext, accounts, StartInvitation, AskDemotion, AskAcceptance, MakeOwner,
         CommitInvitation, SendInvitation, StartAcceptance, CommitAcceptance,
         ProtectLastOwner, CommitDemotion, TransactionFails
<1>2. ASSUME NEW c \in Callers, SendInvitation(c) \/ TransactionFails(c) PROVE AccountsInv'
  BY <1>2, EndKeeps DEF SendInvitation, TransactionFails
<1>3. ASSUME UNCHANGED accounts PROVE AccountsInv'
  BY <1>3 DEF accounts, AccountsInv, AccountsTypes, LocksHold, AtMostOneInvitation,
              InvitedOnce
<1> QED
  BY <1>1, <1>2, <1>3, StartInvitationKeeps, AskDemotionKeeps, AskAcceptanceKeeps,
     MakeOwnerKeeps, CommitInvitationKeeps, StartAcceptanceKeeps, CommitAcceptanceKeeps,
     ProtectLastOwnerKeeps, CommitDemotionKeeps DEF AccountsNext

(* Once an invitation was accepted, its organization always has an owner    *)
(* and no other invitation: the locks of the command, of the acceptance's   *)
(* foreign key and of the trigger on the last owner see to it.              *)
THEOREM OwnersAreInvitedOnce == AccountsSpec => []InvitedOnce
<1>1. AccountsInit => AccountsInv /\ TokensAreOfCommands
  BY AccountsInitInv DEF AccountsInit, TokensAreOfCommands
<1>2. AccountsInv => InvitedOnce
  BY DEF AccountsInv
<1> QED
  BY <1>1, <1>2, AccountsStep, PTL DEF AccountsSpec

-----------------------------------------------------------------------------
(* DatabaseRoles. *)

(* Each migration is found at its place. *)
LEMMA MigrationsInOrder ==
  /\ Len(Migrations) = 7
  /\ Position("4010") = 1 /\ Position("4011") = 2 /\ Position("4012") = 3
  /\ Position("4013") = 4 /\ Position("4014") = 5 /\ Position("4015") = 6
  /\ Position("4016") = 7
<1>1. Len(Migrations) = 7
  BY DEF Migrations
<1>2. /\ Migrations[1] = "4010" /\ Migrations[2] = "4011" /\ Migrations[3] = "4012"
      /\ Migrations[4] = "4013" /\ Migrations[5] = "4014" /\ Migrations[6] = "4015"
      /\ Migrations[7] = "4016"
  BY DEF Migrations
<1>3. 1..Len(Migrations) = {1, 2, 3, 4, 5, 6, 7}
  BY <1>1
<1>4. \A k \in {1, 2, 3, 4, 5, 6, 7} : Position(Migrations[k]) = k
  <2> SUFFICES ASSUME NEW k \in {1, 2, 3, 4, 5, 6, 7} PROVE Position(Migrations[k]) = k
    OBVIOUS
  <2>1. \A i \in 1..Len(Migrations) : Migrations[i] = Migrations[k] => i = k
    BY <1>2, <1>3
  <2> QED
    BY <1>3, <2>1 DEF Position
<1> QED
  BY <1>1, <1>2, <1>4

LEMMA ObjectsAre ==
  /\ Objects = {"tables", "audit", "controls", "attestations", "health", "buckets"}
  /\ CreatedBy["tables"] = "4010" /\ CreatedBy["audit"] = "4010"
  /\ CreatedBy["controls"] = "4011" /\ CreatedBy["attestations"] = "4012"
  /\ CreatedBy["health"] = "4015" /\ CreatedBy["buckets"] = "4016"
<1> QED
  BY DEF Objects, CreatedBy

(* When the migration that creates an object was applied. *)
LEMMA Creation ==
  /\ \A o \in Objects, k \in 1..7 : CreatedBy[o] = Migrations[k] <=> Position(CreatedBy[o]) = k
  /\ \A o \in Objects : Position(CreatedBy[o]) \in 1..7
  /\ Position(CreatedBy["attestations"]) = 3 /\ Position(CreatedBy["audit"]) = 1
  /\ \A k \in 1..7 : Position(Migrations[k]) = k
<1>1. /\ Migrations[1] = "4010" /\ Migrations[2] = "4011" /\ Migrations[3] = "4012"
      /\ Migrations[4] = "4013" /\ Migrations[5] = "4014" /\ Migrations[6] = "4015"
      /\ Migrations[7] = "4016"
  BY DEF Migrations
<1>2. 1..7 = {1, 2, 3, 4, 5, 6, 7}
  OBVIOUS
<1>3. \A k \in 1..7 : Position(Migrations[k]) = k
  BY <1>1, <1>2, MigrationsInOrder
<1>4. \A o \in Objects : Position(CreatedBy[o]) \in 1..7
                         /\ CreatedBy[o] = Migrations[Position(CreatedBy[o])]
  BY <1>1, <1>2, MigrationsInOrder, ObjectsAre
<1> QED
  BY <1>3, <1>4, MigrationsInOrder, ObjectsAre

(* An object is there once its migration was applied. *)
CreatedInOrder ==
  \A o \in Objects : owner[o] # Absent <=> Position(CreatedBy[o]) <= ledger

RolesInv ==
  /\ ledger \in 0..7
  /\ owner \in [Objects -> Principals \cup {Absent, Authority}]
  /\ rights \in [Objects -> SUBSET Everything]
  /\ CreatedInOrder /\ ProtectedAtRest

LEMMA RolesInitInv == RolesInit => RolesInv
<1> SUFFICES ASSUME RolesInit PROVE RolesInv
  OBVIOUS
<1>1. CreatedInOrder
  BY Creation DEF RolesInit, CreatedInOrder
<1>2. ProtectedAtRest
  BY DEF RolesInit, ProtectedAtRest
<1> QED
  BY <1>1, <1>2 DEF RolesInit, RolesInv

LEMMA MigrateKeeps ==
  ASSUME RolesInv, NEW p \in Principals, Migrate(p)
  PROVE  RolesInv'
<1> DEFINE m == Migrations[ledger + 1]
           own == [o \in Objects |-> IF o \in Created(m) THEN p ELSE owner[o]]
<1>1. ledger + 1 \in 1..7 /\ ledger' = ledger + 1 /\ ledger \in 0..6 /\ ledger' \in 0..7
  BY MigrationsInOrder DEF Migrate, RolesInv
<1>2. p # Absent /\ Authority # Absent
  BY RolesAssumption DEF Absent, Authority
<1>3. \A o \in Objects : own[o] # Absent <=> Position(CreatedBy[o]) <= ledger + 1
  <2> SUFFICES ASSUME NEW o \in Objects
               PROVE  own[o] # Absent <=> Position(CreatedBy[o]) <= ledger + 1
    OBVIOUS
  <2>1. o \in Created(m) <=> Position(CreatedBy[o]) = ledger + 1
    BY <1>1, Creation DEF Created
  <2>2. Position(CreatedBy[o]) \in Int
    BY Creation
  <2>3. own[o] = IF o \in Created(m) THEN p ELSE owner[o]
    OBVIOUS
  <2> HIDE DEF own, m
  <2> QED
    BY <1>1, <1>2, <2>1, <2>2, <2>3 DEF RolesInv, CreatedInOrder
<1>4. own \in [Objects -> Principals \cup {Absent, Authority}]
  BY DEF RolesInv
<1>5. CallsFinalizer(m) <=> ledger + 1 >= 3
  BY <1>1, Creation, MigrationsInOrder DEF CallsFinalizer, Applied
<1>6. IF CallsFinalizer(m) THEN Finalize(own) ELSE owner' = own /\ UNCHANGED rights
  BY DEF Migrate
<1> HIDE DEF m, own
<1>7. CASE CallsFinalizer(m)
  <2>1. /\ \A o \in Objects :
             /\ owner'[o] = IF own[o] # Absent /\ o # "tables" THEN Authority ELSE own[o]
             /\ rights'[o] = IF own[o] # Absent THEN Left(o) ELSE rights[o]
        /\ owner' = [o \in Objects |-> owner'[o]] /\ rights' = [o \in Objects |-> rights'[o]]
    BY <1>6, <1>7 DEF Finalize, TakenOver
  <2>2. \A o \in Objects : Left(o) \subseteq Everything
                           /\ (o # "tables" => "delete" \notin Left(o))
    BY DEF Left, Everything
  <2>3. owner' \in [Objects -> Principals \cup {Absent, Authority}]
    BY <1>4, <2>1
  <2>4. rights' \in [Objects -> SUBSET Everything]
    BY <2>1, <2>2 DEF RolesInv
  <2>5. CreatedInOrder'
    BY <1>1, <1>2, <1>3, <2>1 DEF CreatedInOrder
  <2>6. ProtectedAtRest'
    BY <2>1, <2>2 DEF ProtectedAtRest
  <2> QED
    BY <1>1, <2>3, <2>4, <2>5, <2>6 DEF RolesInv
<1>8. CASE ~CallsFinalizer(m)
  <2>1. owner' = own /\ rights' = rights
    BY <1>6, <1>8
  <2>2. ProtectedAtRest'
    BY <1>1, <1>5, <1>8, MigrationsInOrder DEF ProtectedAtRest, Applied
  <2> QED
    BY <1>1, <1>3, <1>4, <2>1, <2>2 DEF RolesInv, CreatedInOrder
<1> QED
  BY <1>7, <1>8

LEMMA RolesStep == RolesInv /\ [RolesNext]_roles => RolesInv'
<1> SUFFICES ASSUME RolesInv, [RolesNext]_roles PROVE RolesInv'
  OBVIOUS
<1>1. ASSUME UNCHANGED <<ledger, owner, rights>> PROVE RolesInv'
  BY <1>1 DEF RolesInv, CreatedInOrder, ProtectedAtRest
<1> QED
  BY <1>1, MigrateKeeps DEF RolesNext, roles, StartBoot, ReadTables, ReadLedger, FinishBoot,
     BootFails

LEMMA RolesInvariance == RolesSpec => []RolesInv
<1> QED
  BY RolesInitInv, RolesStep, PTL DEF RolesSpec

(* From migration 4012 on, the tables that decide about production belong   *)
(* to the authority, and the runtime can delete from none of them.          *)
THEOREM TablesAreProtected == RolesSpec => []ProtectedAtRest
<1> QED
  BY RolesInvariance, PTL DEF RolesInv

(* Wherever a run of the migrations ended, the bootstrap accepts what it    *)
(* finds (assertProtectedObjectState).                                      *)
THEOREM BootstrapMayRepeat == RolesSpec => []BootstrapRepeats
<1>1. RolesInv => BootstrapRepeats
  <2> SUFFICES ASSUME RolesInv PROVE BootstrapRepeats
    OBVIOUS
  <2>1. CASE ~Applied(ledger, "4012")
    <3>1. owner["attestations"] = Absent
      BY <2>1, Creation, MigrationsInOrder, ObjectsAre DEF RolesInv, CreatedInOrder, Applied
    <3>2. \A t \in Tables(owner) : t[1] # "attestations"
      BY <3>1 DEF Tables
    <3> QED
      BY <2>1, <3>2 DEF BootstrapRepeats, Accepted
  <2>2. CASE Applied(ledger, "4012")
    <3> SUFFICES ASSUME NEW o \in ExpectedOwners(ledger) PROVE <<o, Authority>> \in Tables(owner)
      BY <2>2 DEF BootstrapRepeats, Accepted
    <3>1. o \in Objects \ {"tables"} /\ Position(CreatedBy[o]) <= ledger
      BY <2>2, Creation, MigrationsInOrder, ObjectsAre DEF ExpectedOwners, Applied, RolesInv
    <3>2. owner[o] # Absent
      BY <3>1 DEF RolesInv, CreatedInOrder
    <3>3. owner[o] = Authority
      BY <2>2, <3>1, <3>2 DEF RolesInv, ProtectedAtRest
    <3> QED
      BY <3>1, <3>2, <3>3 DEF Tables
  <2> QED
    BY <2>1, <2>2
<1> QED
  BY <1>1, RolesInvariance, PTL

-----------------------------------------------------------------------------
(* OperationalHealth and ProductionControl. *)

HistoryEvent ==
  [action : {"opened", "reobserved", "acknowledged", "resolved"},
   from : IncidentState \cup {None}, to : IncidentState, count : Nat]

(* What a transaction works on: the incidents and their history. *)
Handled ==
  [incidents : Seq(Incident), log : Seq(Seq(HistoryEvent)), measured : Nat, ok : BOOLEAN]

RowIsTold(row, events) ==
  /\ row.version = Len(events)
  /\ events[row.version].to = row.state
  /\ events[row.version].count = row.count
  /\ \A v \in 2..row.version : events[v].from = events[v - 1].to

OneActive(rows) ==
  \A i, k \in 1..Len(rows) :
    Active(rows[i]) /\ Active(rows[k]) /\ rows[k].scope = rows[i].scope => k = i

Whole(h) ==
  /\ h \in Handled
  /\ Len(h.log) = Len(h.incidents)
  /\ \A i \in 1..Len(h.incidents) : RowIsTold(h.incidents[i], h.log[i])
  /\ OneActive(h.incidents)

(* A critical incident is open to an operator, or was resolved by one. *)
InHand(row) ==
  \/ Active(row) /\ row.severity = "critical"
  \/ row.state = "resolved" /\ row.code = "operator_resolved"

(* What may become of a row that is resolved with the code how, if at all. *)
RowGoesOn(a, b, how) ==
  /\ b.scope = a.scope
  /\ b.version >= a.version /\ (b.version = a.version => b = a)
  /\ b.code \in {a.code, how}
  /\ a.scope \notin Conditions /\ InHand(a) => InHand(b)

GoesOn(a, b, how) ==
  /\ Len(a.incidents) <= Len(b.incidents)
  /\ \A i \in 1..Len(a.incidents) : RowGoesOn(a.incidents[i], b.incidents[i], how)

Tracked(h, scope) ==
  \E i \in 1..Len(h.incidents) : h.incidents[i].scope = scope /\ InHand(h.incidents[i])

(* A row that is active may be changed; the history follows. *)
LEMMA ChangedIsWhole ==
  ASSUME NEW h, Whole(h), NEW i \in 1..Len(h.incidents), Active(h.incidents[i]),
         NEW action \in {"opened", "reobserved", "acknowledged", "resolved"},
         NEW row \in Incident,
         row.scope = h.incidents[i].scope, row.version = h.incidents[i].version + 1
  PROVE  /\ Whole(Changed(h, i, action, row))
         /\ Changed(h, i, action, row).incidents = [h.incidents EXCEPT ![i] = row]
         /\ Changed(h, i, action, row).ok = h.ok
<1> DEFINE old == h.incidents[i]
           event == Event(action, old.state, row.state, row.count)
           rows == [h.incidents EXCEPT ![i] = row]
           events == [h.log EXCEPT ![i] = Append(h.log[i], event)]
           g == [incidents |-> rows, log |-> events, measured |-> h.measured, ok |-> h.ok]
<1>1. /\ h.incidents \in Seq(Incident) /\ h.log \in Seq(Seq(HistoryEvent))
      /\ Len(h.log) = Len(h.incidents)
      /\ h = [incidents |-> h.incidents, log |-> h.log, measured |-> h.measured, ok |-> h.ok]
      /\ h.measured \in Nat /\ h.ok \in BOOLEAN
  BY DEF Whole, Handled
<1>2. old \in Incident /\ h.log[i] \in Seq(HistoryEvent) /\ event \in HistoryEvent
  <2>1. old \in Incident /\ h.log[i] \in Seq(HistoryEvent)
    BY <1>1
  <2>2. old.state \in IncidentState /\ row.state \in IncidentState /\ row.count \in Nat
    BY <2>1 DEF Incident
  <2> HIDE DEF old
  <2> QED
    BY <2>1, <2>2 DEF HistoryEvent, Event
<1>3. Changed(h, i, action, row) = g
  <2> DEFINE e == Event(action, h.incidents[i].state, row.state, row.count)
             H(rs, ls) == [incidents |-> rs, log |-> ls, measured |-> h.measured, ok |-> h.ok]
  <2>1. \A rs, ls : [H(rs, ls) EXCEPT !.incidents[i] = row] = H([rs EXCEPT ![i] = row], ls)
    OBVIOUS
  <2>2. \A rs, ls : [H(rs, ls) EXCEPT !.log[i] = Append(@, e)]
                      = H(rs, [ls EXCEPT ![i] = Append(@, e)])
    <3> HIDE DEF e
    <3>1. \A rs, ls : /\ H(rs, ls).log = ls
                     /\ [H(rs, ls) EXCEPT !.log[i] = Append(@, e)]
                          = [H(rs, ls) EXCEPT !.log = [ls EXCEPT ![i] = Append(ls[i], e)]]
      OBVIOUS
    <3>2. \A rs, ls, new : [H(rs, ls) EXCEPT !.log = new] = H(rs, new)
      OBVIOUS
    <3> QED
      BY <3>1, <3>2
  <2>3. h = H(h.incidents, h.log)
    BY <1>1
  <2>4. Changed(h, i, action, row)
          = [[h EXCEPT !.incidents[i] = row] EXCEPT !.log[i] = Append(@, e)]
    BY Zenon DEF Changed
  <2>5. events = [h.log EXCEPT ![i] = Append(@, e)]
    BY Zenon
  <2> HIDE DEF H, e, rows, events
  <2>6. [h EXCEPT !.incidents[i] = row] = H(rows, h.log)
    BY <2>1, <2>3, Zenon DEF rows
  <2>7. [H(rows, h.log) EXCEPT !.log[i] = Append(@, e)] = H(rows, events)
    BY <2>2, <2>5, Zenon
  <2> QED
    BY <2>4, <2>6, <2>7, Zenon DEF H
<1>4. rows \in Seq(Incident) /\ Len(rows) = Len(h.incidents)
  BY <1>1
<1>5. Append(h.log[i], event) \in Seq(HistoryEvent)
  BY <1>2
<1>6. events \in Seq(Seq(HistoryEvent)) /\ Len(events) = Len(h.log)
  BY <1>1, <1>5
<1>7. ASSUME NEW k \in 1..Len(rows) PROVE RowIsTold(rows[k], events[k])
  <2>1. RowIsTold(h.incidents[k], h.log[k])
    BY <1>4 DEF Whole
  <2>2. CASE k # i
    BY <1>1, <1>4, <2>1, <2>2
  <2>3. CASE k = i
    <3>1. rows[k] = row /\ events[k] = Append(h.log[i], event)
      BY <1>1, <2>3
    <3>2. /\ row.version = Len(h.log[i]) + 1 /\ old.version = Len(h.log[i])
          /\ old.version \in Nat \ {0}
      BY <1>2, <2>1, <2>3 DEF RowIsTold, Incident
    <3>3. event.to = row.state /\ event.count = row.count /\ event.from = old.state
      BY DEF Event
    <3> DEFINE told == Append(h.log[i], event)
    <3>4. Len(told) = Len(h.log[i]) + 1 /\ told[Len(h.log[i]) + 1] = event
          /\ \A v \in 1..Len(h.log[i]) : told[v] = h.log[i][v]
      BY <1>2
    <3>5. ASSUME NEW v \in 2..row.version PROVE told[v].from = told[v - 1].to
      <4>1. CASE v = row.version
        BY <2>1, <2>3, <3>2, <3>3, <3>4, <4>1 DEF RowIsTold
      <4>2. CASE v # row.version
        <5>1. v \in 2..old.version /\ v \in 1..Len(h.log[i]) /\ v - 1 \in 1..Len(h.log[i])
          BY <3>2, <4>2
        <5> QED
          BY <2>1, <2>3, <3>4, <5>1 DEF RowIsTold
      <4> QED
        BY <4>1, <4>2
    <3> HIDE DEF event, told, rows, events
    <3>6. told[row.version] = event
      BY <3>2, <3>4
    <3>7. row.version = Len(told)
      BY <3>2, <3>4
    <3>8. RowIsTold(row, told)
      BY <3>3, <3>5, <3>6, <3>7 DEF RowIsTold
    <3> QED
      BY <3>1, <3>8 DEF told
  <2> QED
    BY <2>2, <2>3
<1>8. OneActive(rows)
  <2>1. \A k \in 1..Len(rows) :
          /\ rows[k].scope = h.incidents[k].scope
          /\ Active(rows[k]) => Active(h.incidents[k])
    BY <1>1
  <2>2. OneActive(h.incidents)
    BY DEF Whole
  <2> HIDE DEF rows
  <2> QED
    BY <1>4, <2>1, <2>2 DEF OneActive
<1> HIDE DEF rows, events
<1>9. g \in Handled
  BY <1>1, <1>4, <1>6 DEF Handled
<1>10. Whole(g)
  BY <1>1, <1>4, <1>6, <1>7, <1>8, <1>9 DEF Whole
<1> QED
  BY <1>3, <1>10 DEF rows

(* Changing one row of a scope that is active. *)
LEMMA ChangedGoesOn ==
  ASSUME NEW how, NEW h, Whole(h), NEW i \in 1..Len(h.incidents), NEW row,
         RowGoesOn(h.incidents[i], row, how),
         NEW g, g.incidents = [h.incidents EXCEPT ![i] = row]
  PROVE  GoesOn(h, g, how)
<1>1. h.incidents \in Seq(Incident)
  BY DEF Whole, Handled
<1>2. Len(g.incidents) = Len(h.incidents)
  BY <1>1
<1>3. ASSUME NEW k \in 1..Len(h.incidents) PROVE RowGoesOn(h.incidents[k], g.incidents[k], how)
  <2>1. CASE k = i
    BY <1>1, <2>1
  <2>2. CASE k # i
    <3>1. g.incidents[k] = h.incidents[k] /\ h.incidents[k] \in Incident
      BY <1>1, <2>2
    <3>2. h.incidents[k].version \in Nat
      BY <3>1 DEF Incident
    <3> QED
      BY <3>1, <3>2 DEF RowGoesOn
  <2> QED
    BY <2>1, <2>2
<1>4. Len(h.incidents) \in Nat
  BY <1>1
<1> QED
  BY <1>2, <1>3, <1>4 DEF GoesOn

LEMMA NothingGoesOn ==
  ASSUME NEW how, NEW h, Whole(h), NEW g, g.incidents = h.incidents
  PROVE  GoesOn(h, g, how)
<1>1. h.incidents \in Seq(Incident)
  BY DEF Whole, Handled
<1>2. \A i \in 1..Len(h.incidents) : h.incidents[i] \in Incident
  BY <1>1
<1>3. \A i \in 1..Len(h.incidents) : h.incidents[i].version \in Nat
  BY <1>2 DEF Incident
<1>4. Len(h.incidents) \in Nat
  BY <1>1
<1> QED
  BY <1>3, <1>4 DEF GoesOn, RowGoesOn

LEMMA GoingOn ==
  ASSUME NEW how, NEW a, NEW b, NEW c, Whole(a), Whole(b), Whole(c),
         GoesOn(a, b, how), GoesOn(b, c, how)
  PROVE  GoesOn(a, c, how)
<1>1. /\ Len(a.incidents) \in Nat /\ Len(b.incidents) \in Nat /\ Len(c.incidents) \in Nat
      /\ Len(a.incidents) <= Len(b.incidents) /\ Len(b.incidents) <= Len(c.incidents)
  BY DEF Whole, Handled, GoesOn
<1>2. ASSUME NEW i \in 1..Len(a.incidents) PROVE RowGoesOn(a.incidents[i], c.incidents[i], how)
  <2>1. i \in 1..Len(b.incidents) /\ i \in 1..Len(c.incidents)
    BY <1>1
  <2>2. /\ RowGoesOn(a.incidents[i], b.incidents[i], how)
        /\ RowGoesOn(b.incidents[i], c.incidents[i], how)
    BY <2>1 DEF GoesOn
  <2>3. /\ a.incidents[i] \in Incident /\ b.incidents[i] \in Incident
        /\ c.incidents[i] \in Incident
    BY <2>1 DEF Whole, Handled
  <2>4. /\ a.incidents[i].version \in Nat /\ b.incidents[i].version \in Nat
        /\ c.incidents[i].version \in Nat
    BY <2>3 DEF Incident
  <2> QED
    BY <2>2, <2>4 DEF RowGoesOn
<1> QED
  BY <1>1, <1>2 DEF GoesOn

LEMMA StaysTracked ==
  ASSUME NEW how, NEW a, NEW b, GoesOn(a, b, how), Whole(a), Whole(b),
         NEW scope, scope \notin Conditions, Tracked(a, scope)
  PROVE  Tracked(b, scope)
<1>1. PICK i \in 1..Len(a.incidents) :
        a.incidents[i].scope = scope /\ InHand(a.incidents[i])
  BY DEF Tracked
<1>2. i \in 1..Len(b.incidents)
  BY DEF GoesOn, Whole, Handled
<1>3. RowGoesOn(a.incidents[i], b.incidents[i], how)
  BY DEF GoesOn
<1> QED
  BY <1>1, <1>2, <1>3 DEF RowGoesOn, Tracked

(* A new incident, of a scope that had none that was active. *)
LEMMA OpenedGoesOn ==
  ASSUME NEW h, Whole(h), NEW s \in Signal, ActiveOf(h, s.scope) = {}
  PROVE  /\ Whole(Opened(h, s)) /\ GoesOn(h, Opened(h, s), "condition_cleared")
         /\ s.severity = "critical" => Tracked(Opened(h, s), s.scope)
<1> DEFINE row == [scope |-> s.scope, severity |-> s.severity, state |-> "open",
                   version |-> 1, count |-> 1, first |-> s.at,
                   resolved |-> None, code |-> None]
           event == Event("opened", None, "open", 1)
           rows == Append(h.incidents, row)
           events == Append(h.log, <<event>>)
           g == [incidents |-> rows, log |-> events, measured |-> h.measured, ok |-> h.ok]
           n == Len(h.incidents)
<1>1. /\ h.incidents \in Seq(Incident) /\ h.log \in Seq(Seq(HistoryEvent))
      /\ Len(h.log) = n /\ n \in Nat
      /\ h = [incidents |-> h.incidents, log |-> h.log, measured |-> h.measured, ok |-> h.ok]
      /\ h.measured \in Nat /\ h.ok \in BOOLEAN
  BY DEF Whole, Handled
<1>2. Opened(h, s) = g
  <2> DEFINE H(rs, ls) == [incidents |-> rs, log |-> ls, measured |-> h.measured, ok |-> h.ok]
  <2>1. /\ \A rs, ls : [H(rs, ls) EXCEPT !.incidents = Append(@, row)] = H(Append(rs, row), ls)
        /\ \A rs, ls : [H(rs, ls) EXCEPT !.log = Append(@, <<event>>)]
                          = H(rs, Append(ls, <<event>>))
    <3> DEFINE E == <<event>>
    <3> HIDE DEF row, E
    <3>1. \A rs, ls : [H(rs, ls) EXCEPT !.incidents = Append(@, row)] = H(Append(rs, row), ls)
      OBVIOUS
    <3>2. \A rs, ls : [H(rs, ls) EXCEPT !.log = Append(@, E)] = H(rs, Append(ls, E))
      OBVIOUS
    <3> QED
      BY <3>1, <3>2 DEF E
  <2>2. h = H(h.incidents, h.log)
    BY <1>1
  <2>3. Opened(h, s)
          = [[h EXCEPT !.incidents = Append(@, row)] EXCEPT !.log = Append(@, <<event>>)]
    BY Zenon DEF Opened
  <2>4. g = H(Append(h.incidents, row), Append(h.log, <<event>>))
    BY Zenon
  <2> HIDE DEF H, g, row, event
  <2>5. [h EXCEPT !.incidents = Append(@, row)] = H(Append(h.incidents, row), h.log)
    BY <2>1, <2>2, Zenon
  <2>6. [H(Append(h.incidents, row), h.log) EXCEPT !.log = Append(@, <<event>>)]
          = H(Append(h.incidents, row), Append(h.log, <<event>>))
    BY <2>1, Zenon
  <2> QED
    BY <2>3, <2>4, <2>5, <2>6, Zenon
<1>3. row \in Incident
  BY DEF Signal, Incident, IncidentState
<1>4. event \in HistoryEvent /\ event.to = "open" /\ event.count = 1
  BY DEF HistoryEvent, Event, IncidentState
<1> HIDE DEF event
<1>5. /\ row.version = 1 /\ row.state = "open" /\ row.count = 1 /\ row.scope = s.scope
      /\ row.severity = s.severity
  OBVIOUS
<1> HIDE DEF row
<1>6. /\ rows \in Seq(Incident) /\ Len(rows) = n + 1 /\ rows[n + 1] = row
      /\ \A k \in 1..n : rows[k] = h.incidents[k]
  BY <1>1, <1>3
<1>7. <<event>> \in Seq(HistoryEvent) /\ Len(<<event>>) = 1 /\ <<event>>[1] = event
  BY <1>4
<1>8. /\ events \in Seq(Seq(HistoryEvent)) /\ Len(events) = n + 1
      /\ events[n + 1] = <<event>> /\ \A k \in 1..n : events[k] = h.log[k]
  <2> DEFINE E == <<event>>
  <2>1. E \in Seq(HistoryEvent)
    BY <1>7
  <2> HIDE DEF E
  <2>2. /\ Append(h.log, E) \in Seq(Seq(HistoryEvent)) /\ Len(Append(h.log, E)) = n + 1
        /\ Append(h.log, E)[n + 1] = E /\ \A k \in 1..n : Append(h.log, E)[k] = h.log[k]
    BY <1>1, <2>1
  <2> QED
    BY <2>2 DEF E
<1> HIDE DEF rows, events
<1>9. ASSUME NEW k \in 1..Len(rows) PROVE RowIsTold(rows[k], events[k])
  <2>1. CASE k \in 1..n
    <3>1. RowIsTold(h.incidents[k], h.log[k])
      BY <2>1 DEF Whole
    <3> QED
      BY <1>6, <1>8, <2>1, <3>1
  <2>2. CASE k = n + 1
    <3>1. RowIsTold(row, <<event>>)
      BY <1>4, <1>5, <1>7 DEF RowIsTold
    <3> QED
      BY <1>6, <1>8, <2>2, <3>1
  <2> QED
    BY <1>1, <1>6, <2>1, <2>2
<1>10. OneActive(rows)
  <2> HIDE DEF n
  <2>1. \A k \in 1..n : ~(rows[k].scope = s.scope /\ Active(rows[k]))
    BY <1>6 DEF ActiveOf, n
  <2>2. OneActive(h.incidents)
    BY DEF Whole
  <2>3. n \in Nat
    BY <1>1
  <2>4. ASSUME NEW i \in 1..n + 1, NEW k \in 1..n + 1,
               Active(rows[i]), Active(rows[k]), rows[k].scope = rows[i].scope
        PROVE  k = i
    <3>1. CASE i \in 1..n /\ k \in 1..n
      BY <1>6, <2>2, <2>4, <3>1 DEF OneActive, n
    <3>2. CASE i = n + 1
      <4>1. rows[k].scope = s.scope
        BY <1>5, <1>6, <2>4, <3>2
      <4>2. k \notin 1..n
        BY <2>1, <2>4, <4>1
      <4> QED
        BY <3>2, <4>2, <2>3
    <3>3. CASE k = n + 1
      <4>1. rows[i].scope = s.scope
        BY <1>5, <1>6, <2>4, <3>3
      <4>2. i \notin 1..n
        BY <2>1, <2>4, <4>1
      <4> QED
        BY <3>3, <4>2, <2>3
    <3> QED
      BY <2>3, <3>1, <3>2, <3>3
  <2> QED
    BY <1>6, <2>4 DEF OneActive
<1>11. Whole(g)
  <2>1. g \in Handled
    BY <1>1, <1>6, <1>8 DEF Handled
  <2>2. Len(g.log) = Len(g.incidents) /\ g.incidents = rows /\ g.log = events
    BY <1>6, <1>8
  <2> HIDE DEF g
  <2> QED
    BY <1>9, <1>10, <2>1, <2>2 DEF Whole
<1>12. GoesOn(h, g, "condition_cleared")
  <2>1. g.incidents = rows
    OBVIOUS
  <2>2. \A k \in 1..n : h.incidents[k] \in Incident
    BY <1>1
  <2>3. \A k \in 1..n : h.incidents[k].version \in Nat
    BY <2>2 DEF Incident
  <2>4. \A k \in 1..n : RowGoesOn(h.incidents[k], rows[k], "condition_cleared")
    BY <1>6, <2>3 DEF RowGoesOn
  <2> HIDE DEF g
  <2> QED
    BY <1>1, <1>6, <2>1, <2>4 DEF GoesOn
<1>13. s.severity = "critical" => Tracked(g, s.scope)
  <2>1. g.incidents = rows /\ n + 1 \in 1..n + 1
    BY <1>1
  <2> HIDE DEF g
  <2> QED
    BY <1>5, <1>6, <2>1 DEF Tracked, InHand, Active
<1> QED
  BY <1>2, <1>11, <1>12, <1>13

(* An occurrence of what an incident is about. *)
LEMMA ObserveGoesOn ==
  ASSUME NEW h, Whole(h), NEW s \in Signal
  PROVE  /\ Whole(Observe(h, s)) /\ GoesOn(h, Observe(h, s), "condition_cleared")
         /\ s.severity = "critical" => Tracked(Observe(h, s), s.scope)
<1>1. CASE ActiveOf(h, s.scope) = {}
  BY <1>1, OpenedGoesOn DEF Observe
<1>2. CASE ActiveOf(h, s.scope) # {}
  <2> DEFINE i == CHOOSE k \in ActiveOf(h, s.scope) : TRUE
             old == h.incidents[i]
             row == [old EXCEPT !.severity = Worse(@, s.severity), !.version = @ + 1,
                                !.first = Earlier(@, s.at), !.count = @ + 1]
             g == Changed(h, i, "reobserved", row)
  <2>1. i \in 1..Len(h.incidents) /\ Active(old) /\ old.scope = s.scope
    BY <1>2 DEF ActiveOf
  <2>2. Observe(h, s) = g
    BY <1>2 DEF Observe, Reobserved
  <2>3. old \in Incident /\ h.incidents \in Seq(Incident)
    BY <2>1 DEF Whole, Handled
  <2> HIDE DEF i, old
  <2>4. /\ Worse(old.severity, s.severity) \in {"warning", "critical"}
        /\ Earlier(old.first, s.at) \in Time
    BY <2>3 DEF Incident, Signal, Worse, Earlier
  <2>5. /\ row \in Incident /\ row.scope = old.scope /\ row.version = old.version + 1
        /\ row.severity = Worse(old.severity, s.severity)
        /\ row.state = old.state /\ row.code = old.code
    <3> DEFINE a == [old EXCEPT !.severity = Worse(old.severity, s.severity)]
               b == [a EXCEPT !.version = old.version + 1]
               c == [b EXCEPT !.first = Earlier(old.first, s.at)]
               d == [c EXCEPT !.count = old.count + 1]
    <3>1. /\ a \in Incident /\ a.scope = old.scope /\ a.version = old.version
          /\ a.severity = Worse(old.severity, s.severity) /\ a.first = old.first
          /\ a.state = old.state /\ a.code = old.code /\ a.count = old.count
      BY <2>3, <2>4 DEF Incident
    <3>2. old.version + 1 \in Nat \ {0} /\ old.count + 1 \in Nat \ {0}
      BY <2>3 DEF Incident
    <3> HIDE DEF a
    <3>3. /\ b \in Incident /\ b.scope = old.scope /\ b.version = old.version + 1
          /\ b.severity = a.severity /\ b.first = old.first
          /\ b.state = old.state /\ b.code = old.code /\ b.count = old.count
      BY <3>1, <3>2 DEF Incident
    <3> HIDE DEF b
    <3>4. /\ c \in Incident /\ c.scope = old.scope /\ c.version = old.version + 1
          /\ c.severity = a.severity
          /\ c.state = old.state /\ c.code = old.code /\ c.count = old.count
      BY <2>4, <3>3 DEF Incident
    <3> HIDE DEF c
    <3>5. /\ d \in Incident /\ d.scope = old.scope /\ d.version = old.version + 1
          /\ d.severity = a.severity
          /\ d.state = old.state /\ d.code = old.code
      BY <3>2, <3>4 DEF Incident
    <3>6. row = d
      BY <3>1, <3>3, <3>4 DEF a, b, c
    <3> QED
      BY <3>1, <3>5, <3>6
  <2> HIDE DEF row
  <2>6. /\ Whole(g) /\ g.incidents = [h.incidents EXCEPT ![i] = row]
    BY <2>1, <2>5, ChangedIsWhole DEF old
  <2>7. RowGoesOn(old, row, "condition_cleared")
    <3>1. old.version \in Nat
      BY <2>3 DEF Incident
    <3> QED
      BY <2>1, <2>5, <3>1 DEF RowGoesOn, InHand, Active, Worse
  <2>8. GoesOn(h, g, "condition_cleared")
    <3> HIDE DEF g
    <3>1. i \in 1..Len(h.incidents)
      BY <2>1
    <3>2. RowGoesOn(h.incidents[i], row, "condition_cleared")
      BY <2>7 DEF old
    <3>3. g.incidents = [h.incidents EXCEPT ![i] = row]
      BY <2>6
    <3> QED
      BY <3>1, <3>2, <3>3, ChangedGoesOn
  <2>9. s.severity = "critical" => Tracked(g, s.scope)
    <3>1. i \in 1..Len(g.incidents) /\ g.incidents[i] = row
      BY <2>1, <2>3, <2>6
    <3>2. s.severity = "critical" => InHand(row)
      BY <2>1, <2>5 DEF InHand, Active, Worse
    <3> QED
      BY <2>1, <2>5, <3>1, <3>2 DEF Tracked
  <2> QED
    BY <2>2, <2>6, <2>8, <2>9
<1> QED
  BY <1>1, <1>2

(* Resolving the incident that is active. *)
LEMMA ResolvedIsWhole ==
  ASSUME NEW h, Whole(h), NEW i \in 1..Len(h.incidents), Active(h.incidents[i]),
         NEW t \in Time, NEW code \in {"condition_cleared", "operator_resolved"},
         NEW g, g = Resolved(h, i, t, code)
  PROVE  /\ Whole(g)
         /\ g.incidents = [h.incidents EXCEPT ![i] = g.incidents[i]]
         /\ g.incidents[i].scope = h.incidents[i].scope
         /\ g.incidents[i].count = h.incidents[i].count
         /\ g.incidents[i].version = h.incidents[i].version + 1
         /\ g.incidents[i].state = "resolved" /\ g.incidents[i].code = code
<1> DEFINE old == h.incidents[i]
           row == [old EXCEPT !.state = "resolved", !.version = @ + 1,
                              !.resolved = t, !.code = code]
           c == Changed(h, i, "resolved", row)
           r == [c EXCEPT !.ok = @ /\ RowAllowed(row)]
<1>1. old \in Incident
  BY DEF Whole, Handled
<1>2. g = r
  BY DEF Resolved
<1> HIDE DEF old
<1>3. /\ row \in Incident /\ row.scope = old.scope /\ row.version = old.version + 1
      /\ row.state = "resolved" /\ row.code = code /\ row.count = old.count
  <2> DEFINE a == [old EXCEPT !.state = "resolved"]
             b == [a EXCEPT !.version = old.version + 1]
             d == [b EXCEPT !.resolved = t]
             e == [d EXCEPT !.code = code]
  <2>1. /\ a \in Incident /\ a.scope = old.scope /\ a.version = old.version
        /\ a.state = "resolved" /\ a.count = old.count
    BY <1>1 DEF Incident, IncidentState
  <2>2. old.version + 1 \in Nat \ {0}
    BY <1>1 DEF Incident
  <2> HIDE DEF a
  <2>3. /\ b \in Incident /\ b.scope = old.scope /\ b.version = old.version + 1
        /\ b.state = "resolved" /\ b.count = old.count
    BY <2>1, <2>2 DEF Incident
  <2> HIDE DEF b
  <2>4. /\ d \in Incident /\ d.scope = old.scope /\ d.version = old.version + 1
        /\ d.state = "resolved" /\ d.count = old.count
    BY <2>3 DEF Incident
  <2> HIDE DEF d
  <2>5. /\ e \in Incident /\ e.scope = old.scope /\ e.version = old.version + 1
        /\ e.state = "resolved" /\ e.count = old.count /\ e.code = code
    BY <2>4 DEF Incident
  <2>6. row = e
    BY <2>1 DEF a, b, d
  <2> QED
    BY <2>5, <2>6
<1> HIDE DEF row
<1>4. Whole(c) /\ c.incidents = [h.incidents EXCEPT ![i] = row]
  BY <1>3, ChangedIsWhole DEF old
<1> HIDE DEF c
<1>5. /\ r \in Handled /\ r.incidents = c.incidents /\ r.log = c.log
  <2>1. (c.ok /\ RowAllowed(row)) \in BOOLEAN
    BY DEF RowAllowed
  <2> QED
    BY <1>4, <2>1 DEF Whole, Handled
<1> HIDE DEF r
<1>6. Whole(g)
  BY <1>2, <1>4, <1>5 DEF Whole
<1>7. g.incidents = [h.incidents EXCEPT ![i] = row]
  BY <1>2, <1>4, <1>5
<1>8. g.incidents[i] = row
  <2>1. h.incidents \in Seq(Incident)
    BY DEF Whole, Handled
  <2> QED
    BY <1>7, <2>1
<1> QED
  BY <1>3, <1>6, <1>7, <1>8 DEF old

(* Only the schedule says that something is over. *)
OnlyConditionsClear(s) == s.action = "resolve" => s.scope \in Conditions

(* One signal. *)
LEMMA ProcessedGoesOn ==
  ASSUME NEW h, Whole(h), NEW s \in Signal, OnlyConditionsClear(s)
  PROVE  /\ Whole(Processed(h, s)) /\ GoesOn(h, Processed(h, s), "condition_cleared")
         /\ s.action = "observe" /\ s.severity = "critical"
              => Tracked(Processed(h, s), s.scope)
<1> DEFINE m == Measured(h)
<1>1. /\ m \in Handled /\ m.incidents = h.incidents /\ m.log = h.log
  <2> DEFINE M == h.measured + 1
  <2>1. h \in Handled /\ M \in Nat
    BY DEF Whole, Handled
  <2>2. m = [h EXCEPT !.measured = M]
    BY DEF Measured
  <2> HIDE DEF M, m
  <2> QED
    BY <2>1, <2>2 DEF Handled
<1>2. Whole(m)
  BY <1>1 DEF Whole
<1>3. GoesOn(h, m, "condition_cleared")
  BY <1>1, NothingGoesOn
<1> HIDE DEF m
<1>4. CASE s.action = "observe"
  <2>1. Processed(h, s) = Observe(m, s)
    BY <1>4 DEF Processed, m
  <2> QED
    BY <1>2, <1>3, <2>1, ObserveGoesOn, GoingOn
<1>5. CASE s.action # "observe" /\ ActiveOf(m, s.scope) = {}
  BY <1>2, <1>3, <1>5 DEF Processed, m
<1>6. CASE s.action # "observe" /\ ActiveOf(m, s.scope) # {}
  <2> DEFINE i == CHOOSE k \in ActiveOf(m, s.scope) : TRUE
             g == Resolved(m, i, s.at, "condition_cleared")
  <2>1. i \in 1..Len(m.incidents) /\ Active(m.incidents[i]) /\ m.incidents[i].scope = s.scope
    BY <1>6 DEF ActiveOf
  <2>2. Processed(h, s) = g
    BY <1>6 DEF Processed, m
  <2> HIDE DEF i, g
  <2>3. s.at \in Time /\ s.scope \in Conditions
    BY <1>6 DEF Signal, OnlyConditionsClear
  <2>4. i \in 1..Len(m.incidents)
    BY <2>1
  <2>5. Active(m.incidents[i])
    BY <2>1
  <2>6. /\ Whole(g)
        /\ g.incidents = [m.incidents EXCEPT ![i] = g.incidents[i]]
        /\ g.incidents[i].scope = m.incidents[i].scope
        /\ g.incidents[i].version = m.incidents[i].version + 1
        /\ g.incidents[i].code = "condition_cleared"
    <3>1. g = Resolved(m, i, s.at, "condition_cleared")
      BY DEF g
    <3> QED
      BY <1>2, <2>3, <2>4, <2>5, <3>1, ResolvedIsWhole
  <2>7. RowGoesOn(m.incidents[i], g.incidents[i], "condition_cleared")
    <3>1. m.incidents[i] \in Incident
      BY <1>2, <2>4 DEF Whole, Handled
    <3>2. m.incidents[i].version \in Nat
      BY <3>1 DEF Incident
    <3> QED
      BY <2>1, <2>3, <2>6, <3>2 DEF RowGoesOn
  <2>8. GoesOn(m, g, "condition_cleared")
    <3>1. g.incidents = [m.incidents EXCEPT ![i] = g.incidents[i]]
      BY <2>6
    <3> QED
      BY <1>2, <2>4, <2>7, <3>1, ChangedGoesOn
  <2> QED
    BY <1>2, <1>3, <1>6, <2>2, <2>6, <2>8, GoingOn
<1> QED
  BY <1>4, <1>5, <1>6

(* f is what the first signals leave, up to the k-th. *)
Leaves(k, f) ==
  f = [n \in 0..k |-> IF n = 0 THEN Here
                      ELSE IF n \in Page THEN Processed(f[n - 1], signals[n])
                      ELSE f[n - 1]]

LEMMA LeavesExist ==
  ASSUME NEW N \in Nat
  PROVE  \E f : Leaves(N, f)
<1> DEFINE Missing == {k \in Nat : ~\E f : Leaves(k, f)}
<1>1. SUFFICES ASSUME Missing # {} PROVE FALSE
  OBVIOUS
<1>2. PICK k \in Missing : \A m \in Missing : k <= m
  BY <1>1, LeastNat
<1>3. CASE k = 0
  <2> DEFINE f == [n \in 0..0 |-> Here]
  <2>1. Leaves(0, f)
    BY DEF Leaves
  <2> QED
    BY <1>2, <1>3, <2>1
<1>4. CASE k # 0
  <2>1. k - 1 \in Nat /\ k - 1 \notin Missing /\ k \in Nat
    BY <1>2, <1>4
  <2>2. PICK g : Leaves(k - 1, g)
    BY <2>1
  <2> DEFINE Next1(n, x) == IF n = 0 THEN Here
                            ELSE IF n \in Page THEN Processed(x, signals[n]) ELSE x
             f == [n \in 0..k |-> IF n \in 0..k - 1 THEN g[n] ELSE Next1(k, g[k - 1])]
  <2>3. \A n \in 0..k - 1 : g[n] = Next1(n, g[n - 1])
    BY <2>1, <2>2 DEF Leaves
  <2> HIDE DEF Next1
  <2>4. \A n \in 0..k : f[n] = IF n \in 0..k - 1 THEN g[n] ELSE Next1(k, g[k - 1])
    OBVIOUS
  <2>5. ASSUME NEW n \in 0..k PROVE f[n] = Next1(n, f[n - 1])
    <3>1. CASE n = k
      <4>1. f[n] = Next1(k, g[k - 1])
        BY <2>1, <2>4, <3>1
      <4>2. f[k - 1] = g[k - 1]
        BY <2>1, <2>4
      <4> HIDE DEF f
      <4> QED
        BY <3>1, <4>1, <4>2
    <3>2. CASE n # k /\ n # 0
      <4>1. n \in 0..k - 1 /\ n - 1 \in 0..k - 1 /\ n - 1 \in 0..k
        BY <2>1, <3>2
      <4>2. f[n] = g[n] /\ f[n - 1] = g[n - 1]
        BY <2>4, <4>1
      <4> HIDE DEF f
      <4> QED
        BY <2>3, <4>1, <4>2
    <3>3. CASE n # k /\ n = 0
      <4>1. n \in 0..k - 1
        BY <2>1, <3>3
      <4>2. f[n] = g[n] /\ g[n] = Next1(n, g[n - 1])
        BY <2>3, <2>4, <4>1
      <4>3. \A x, y : Next1(0, x) = Next1(0, y)
        BY DEF Next1
      <4> HIDE DEF f
      <4> QED
        BY <3>3, <4>2, <4>3
    <3> QED
      BY <3>1, <3>2, <3>3
  <2>6. f = [n \in 0..k |-> f[n]]
    OBVIOUS
  <2>7. f = [n \in 0..k |-> Next1(n, f[n - 1])]
    <3> HIDE DEF f
    <3> QED
      BY <2>5, <2>6
  <2>8. Leaves(k, f)
    <3> HIDE DEF f
    <3> QED
      BY <2>7, Zenon DEF Leaves, Next1
  <2> QED
    BY <1>2, <2>8
<1> QED
  BY <1>3, <1>4

(* A page of signals, processed in their order. *)
LEMMA PageGoesOn ==
  ASSUME Whole(Here), signals \in Seq(Signal),
         \A n \in 1..Len(signals) : OnlyConditionsClear(signals[n])
  PROVE  /\ Whole(AfterPage) /\ GoesOn(Here, AfterPage, "condition_cleared")
         /\ \A n \in Page :
              signals[n].action = "observe" /\ signals[n].severity = "critical"
                /\ signals[n].scope \notin Conditions
              => Tracked(AfterPage, signals[n].scope)
<1> DEFINE N == Len(signals)
           f == CHOOSE g : Leaves(N, g)
           Critical(n) == /\ signals[n].action = "observe" /\ signals[n].severity = "critical"
                          /\ signals[n].scope \notin Conditions
           Sound(k) == /\ Whole(f[k]) /\ GoesOn(Here, f[k], "condition_cleared")
                       /\ \A n \in Page : n <= k /\ Critical(n) => Tracked(f[k], signals[n].scope)
<1>1. N \in Nat
  OBVIOUS
<1>2. Leaves(N, f)
  BY <1>1, LeavesExist, Zenon
<1>3. AfterPage = f[N]
  BY <1>2, Zenon DEF AfterPage, Leaves
<1> HIDE DEF f
<1>4. /\ f[0] = Here
      /\ \A n \in 1..N : f[n] = IF n \in Page THEN Processed(f[n - 1], signals[n]) ELSE f[n - 1]
  BY <1>1, <1>2 DEF Leaves
<1>5. Page \subseteq 1..N
  BY DEF Page, Pending
<1>6. Sound(0)
  <2>1. GoesOn(Here, f[0], "condition_cleared")
    BY <1>4, NothingGoesOn
  <2> QED
    BY <1>4, <1>5, <2>1
<1>7. ASSUME NEW n \in 1..N, Sound(n - 1) PROVE Sound(n)
  <2>1. CASE n \in Page
    <3>1. f[n] = Processed(f[n - 1], signals[n])
      BY <1>4, <2>1
    <3>2. signals[n] \in Signal /\ OnlyConditionsClear(signals[n])
      OBVIOUS
    <3>3. /\ Whole(f[n]) /\ GoesOn(f[n - 1], f[n], "condition_cleared")
          /\ Critical(n) => Tracked(f[n], signals[n].scope)
      BY <1>7, <3>1, <3>2, ProcessedGoesOn
    <3>4. GoesOn(Here, f[n], "condition_cleared")
      BY <1>7, <3>3, GoingOn
    <3>5. ASSUME NEW m \in Page, m <= n, Critical(m) PROVE Tracked(f[n], signals[m].scope)
      <4>1. CASE m = n
        BY <3>3, <3>5, <4>1
      <4>2. CASE m # n
        <5>1. m <= n - 1
          BY <1>5, <3>5, <4>2
        <5>2. Tracked(f[n - 1], signals[m].scope)
          BY <1>7, <3>5, <5>1
        <5> QED
          BY <1>7, <3>3, <3>5, <5>2, StaysTracked
      <4> QED
        BY <4>1, <4>2
    <3> QED
      BY <3>3, <3>4, <3>5
  <2>2. CASE n \notin Page
    <3>1. f[n] = f[n - 1]
      BY <1>4, <2>2
    <3>2. \A m \in Page : m <= n => m <= n - 1
      BY <1>5, <2>2
    <3> QED
      BY <1>7, <3>1, <3>2
  <2> QED
    BY <2>1, <2>2
<1>8. Sound(N)
  <2> DEFINE Wrong == {k \in Nat : k <= N /\ ~Sound(k)}
  <2> HIDE DEF Sound
  <2>1. SUFFICES ASSUME Wrong # {} PROVE FALSE
    BY <1>1
  <2>2. PICK k \in Wrong : \A m \in Wrong : k <= m
    BY <2>1, LeastNat
  <2>3. k # 0 /\ k \in 1..N /\ ~Sound(k)
    BY <1>1, <1>6, <2>2
  <2>4. k - 1 \in Nat /\ k - 1 <= N /\ k - 1 \notin Wrong
    BY <1>1, <2>2, <2>3
  <2> QED
    BY <1>7, <2>3, <2>4
<1>9. \A n \in Page : n <= N
  BY <1>1, <1>5
<1> QED
  BY <1>3, <1>8, <1>9

Maintenance == [at : {"idle", "enqueue", "drain"}, time : Time, pages : Nat]

HealthTypes ==
  /\ clock \in Time /\ last \in [Conditions -> Time \cup {None}] /\ happened \subseteq Facts
  /\ signals \in Seq(Signal)
  /\ job \in [Jobs -> Maintenance]
  /\ seen \in [Actors -> [incident : Nat, version : Nat, count : Nat] \cup {None}]

(* What an operator was shown is a version that the incident had, and in    *)
(* that version it had that count.                                          *)
ShownOnce(v, rows) ==
  v # None =>
    /\ v.incident \in 1..Len(rows)
    /\ v.version <= rows[v.incident].version
    /\ v.version = rows[v.incident].version => v.count = rows[v.incident].count

(* Signal s is still to be drained, and opens a critical incident of scope. *)
Announces(s, scope) ==
  ~s.done /\ s.action = "observe" /\ s.severity = "critical" /\ s.scope = scope

(* A critical fact is announced, or its incident is in hand. *)
FactsAreTracked ==
  \A f \in CriticalFacts \cap happened :
    \/ \E n \in 1..Len(signals) : Announces(signals[n], ScopeOf[f])
    \/ Tracked(Here, ScopeOf[f])

HealthInv ==
  /\ HealthTypes
  /\ Whole(Here)
  /\ \A n \in 1..Len(signals) : OnlyConditionsClear(signals[n])
  /\ \A o \in Actors : ShownOnce(seen[o], incidents)
  /\ FactsAreTracked

LEMMA HealthInitInv == HealthInit => HealthInv
<1> SUFFICES ASSUME HealthInit PROVE HealthInv
  OBVIOUS
<1>1. HealthTypes
  BY HealthAssumption DEF HealthInit, HealthTypes, Time, IdleJob, Maintenance
<1>2. Whole(Here)
  BY DEF HealthInit, Whole, Here, Handled, OneActive
<1>3. \A o \in Actors : ShownOnce(seen[o], incidents)
  BY DEF HealthInit, ShownOnce
<1> QED
  BY <1>1, <1>2, <1>3 DEF HealthInit, HealthInv, FactsAreTracked

(* Rows that go on, signals that stay: what was shown and tracked still is. *)
LEMMA RowsMove ==
  ASSUME HealthInv, NEW how, NEW h, Whole(h), GoesOn(Here, h, how),
         incidents' = h.incidents, log' = h.log, measured' \in Nat
  PROVE  /\ Whole(Here)'
         /\ \A o \in Actors : ShownOnce(seen[o], incidents')
         /\ \A f \in Facts : Tracked(Here, ScopeOf[f]) => Tracked(Here, ScopeOf[f])'
         /\ \A s \in Scopes : Tracked(h, s) => Tracked(Here, s)'
<1>1. Whole(Here) /\ Here.incidents = incidents
  BY DEF HealthInv, Here
<1>2. Here' = [incidents |-> h.incidents, log |-> h.log, measured |-> measured', ok |-> TRUE]
  BY DEF Here
<1>3. Here'.incidents = h.incidents /\ Here'.log = h.log /\ Here' \in Handled
  BY <1>2 DEF Whole, Handled
<1>4. Whole(Here')
  BY <1>3 DEF Whole
<1>5. ASSUME NEW scope PROVE Tracked(h, scope) <=> Tracked(Here', scope)
  BY <1>3 DEF Tracked
<1>6. ASSUME NEW f \in Facts, Tracked(Here, ScopeOf[f]) PROVE Tracked(Here', ScopeOf[f])
  <2>1. ScopeOf[f] \notin Conditions
    BY HealthAssumption
  <2>2. Tracked(h, ScopeOf[f])
    BY <1>1, <1>6, <2>1, StaysTracked
  <2> QED
    BY <1>5, <2>2
<1>7. ASSUME NEW o \in Actors PROVE ShownOnce(seen[o], incidents')
  <2> DEFINE v == seen[o]
             i == v.incident
  <2>1. ShownOnce(v, incidents)
    BY DEF HealthInv
  <2>2. v # None => v.version \in Nat
    BY DEF HealthInv, HealthTypes
  <2> HIDE DEF v
  <2>3. ASSUME v # None
        PROVE  /\ i \in 1..Len(incidents')
               /\ v.version <= incidents'[i].version
               /\ v.version = incidents'[i].version => v.count = incidents'[i].count
    <3>1. i \in 1..Len(incidents) /\ Len(incidents) \in Nat /\ Len(h.incidents) \in Nat
      BY <1>1, <2>1, <2>3 DEF ShownOnce, Whole, Handled
    <3>2. /\ Len(incidents) <= Len(h.incidents)
          /\ RowGoesOn(incidents[i], h.incidents[i], how)
      BY <1>1, <3>1 DEF GoesOn
    <3>3. i \in 1..Len(h.incidents)
      BY <3>1, <3>2
    <3>4. incidents[i] \in Incident /\ h.incidents[i] \in Incident
      BY <1>1, <3>1, <3>3 DEF Whole, Handled
    <3>5. incidents[i].version \in Nat /\ h.incidents[i].version \in Nat
      BY <3>4 DEF Incident
    <3>6. /\ h.incidents[i].version >= incidents[i].version
          /\ h.incidents[i].version = incidents[i].version => h.incidents[i] = incidents[i]
      BY <3>2 DEF RowGoesOn
    <3>7. /\ v.version <= incidents[i].version
          /\ v.version = incidents[i].version => v.count = incidents[i].count
      BY <2>1, <2>3 DEF ShownOnce
    <3> QED
      BY <2>2, <2>3, <3>3, <3>5, <3>6, <3>7
  <2> QED
    BY <2>3 DEF ShownOnce, v
<1> QED
  BY <1>4, <1>5, <1>6, <1>7

(* Signals are only added, and no incident changes. *)
LEMMA AddedKeeps ==
  ASSUME HealthInv, NEW more \in Seq(Signal), signals' = signals \o more,
         \A k \in 1..Len(more) : OnlyConditionsClear(more[k]),
         UNCHANGED <<incidents, log, measured, seen>>, HealthTypes',
         \A f \in CriticalFacts \cap (happened' \ happened) :
           \E k \in 1..Len(more) : Announces(more[k], ScopeOf[f])
  PROVE  HealthInv'
<1>1. signals \in Seq(Signal) /\ signals' \in Seq(Signal)
  BY DEF HealthInv, HealthTypes
<1>2. /\ Len(signals') = Len(signals) + Len(more)
      /\ Len(signals) \in Nat /\ Len(more) \in Nat
      /\ \A n \in 1..Len(signals) : signals'[n] = signals[n]
      /\ \A k \in 1..Len(more) : signals'[Len(signals) + k] = more[k]
  BY <1>1
<1>3. Here' = Here
  BY DEF Here
<1>4. ASSUME NEW n \in 1..Len(signals') PROVE OnlyConditionsClear(signals'[n])
  <2>1. CASE n \in 1..Len(signals)
    BY <1>2, <2>1 DEF HealthInv
  <2>2. CASE n \notin 1..Len(signals)
    <3>1. n - Len(signals) \in 1..Len(more) /\ Len(signals) + (n - Len(signals)) = n
      BY <1>2, <2>2
    <3> QED
      BY <1>2, <3>1
  <2> QED
    BY <2>1, <2>2
<1>5. ASSUME NEW f \in CriticalFacts \cap happened'
      PROVE  \/ \E n \in 1..Len(signals') : Announces(signals'[n], ScopeOf[f])
             \/ Tracked(Here', ScopeOf[f])
  <2>1. CASE f \in happened
    <3>1. CASE Tracked(Here, ScopeOf[f])
      BY <1>3, <3>1
    <3>2. CASE \E n \in 1..Len(signals) : Announces(signals[n], ScopeOf[f])
      <4>1. PICK n \in 1..Len(signals) : Announces(signals[n], ScopeOf[f])
        BY <3>2
      <4>2. n \in 1..Len(signals') /\ signals'[n] = signals[n]
        BY <1>2
      <4> QED
        BY <4>1, <4>2
    <3> QED
      BY <1>5, <2>1, <3>1, <3>2 DEF HealthInv, FactsAreTracked
  <2>2. CASE f \notin happened
    <3>1. PICK k \in 1..Len(more) : Announces(more[k], ScopeOf[f])
      BY <1>5, <2>2
    <3>2. Len(signals) + k \in 1..Len(signals') /\ signals'[Len(signals) + k] = more[k]
      BY <1>2
    <3> QED
      BY <3>1, <3>2
  <2> QED
    BY <2>1, <2>2
<1> QED
  BY <1>3, <1>4, <1>5 DEF HealthInv, FactsAreTracked

LEMMA FactsHaveScopes ==
  ASSUME NEW f \in Facts
  PROVE  ScopeOf[f] \in Scopes /\ ScopeOf[f] \notin Conditions
BY HealthAssumption DEF Scopes

LEMMA RecordKeeps ==
  ASSUME HealthInv, NEW f \in Facts, Record(f)
  PROVE  HealthInv'
<1> DEFINE s == Observation(f, IF KindOf[f] = "webhook_dead_letter"
                               THEN "warning" ELSE "critical")
<1>1. signals' = Append(signals, s)
  <2>1. KindOf[f] \in {"rpc_disagreement", "ledger_mismatch", "webhook_dead_letter"}
    BY HealthAssumption
  <2> QED
    BY <2>1 DEF Record, Disagreement, Mismatch, DeadLetter
<1>2. s \in Signal
  BY FactsHaveScopes DEF Observation, Signal, HealthInv, HealthTypes
<1>3. OnlyConditionsClear(s)
  BY DEF Observation, OnlyConditionsClear
<1>4. f \in CriticalFacts => Announces(s, ScopeOf[f])
  BY DEF CriticalFacts, Observation, Announces
<1> HIDE DEF s
<1>5. /\ <<s>> \in Seq(Signal) /\ Len(<<s>>) = 1 /\ <<s>>[1] = s
  BY <1>2
<1>6. signals \in Seq(Signal)
  BY DEF HealthInv, HealthTypes
<1>7. signals' = signals \o <<s>>
  BY <1>1, <1>2, <1>6
<1>8. \A k \in 1..Len(<<s>>) : OnlyConditionsClear(<<s>>[k])
  BY <1>3, <1>5
<1>9. signals' \in Seq(Signal)
  BY <1>1, <1>2, <1>6
<1>10. HealthTypes'
  BY <1>9 DEF HealthInv, HealthTypes, Record
<1>11. ASSUME NEW e \in CriticalFacts \cap (happened' \ happened)
       PROVE  \E k \in 1..Len(<<s>>) : Announces(<<s>>[k], ScopeOf[e])
  <2>1. e = f
    BY <1>11 DEF Record
  <2> QED
    BY <1>4, <1>5, <1>11, <2>1
<1>12. UNCHANGED <<incidents, log, measured, seen>>
  BY DEF Record
<1> QED
  BY <1>5, <1>7, <1>8, <1>10, <1>11, <1>12, AddedKeeps

(* A finite set in some order. *)
LEMMA InSomeOrder ==
  ASSUME NEW S, IsFiniteSet(S)
  PROVE  SetToSeq(S) \in Seq(S)
<1>1. Cardinality(S) \in Nat /\ ExistsBijection(1..Cardinality(S), S)
  BY FS_CardinalityType
<1>2. \E f \in [1..Cardinality(S) -> S] : IsInjective(f)
  BY <1>1 DEF ExistsBijection, Bijection, Injection
<1>3. SetToSeq(S) \in [1..Cardinality(S) -> S]
  BY <1>2 DEF SetToSeq
<1> QED
  BY <1>1, <1>3

LEMMA EnqueueKeeps ==
  ASSUME HealthInv, NEW j \in Jobs, EnqueueScheduled(j)
  PROVE  HealthInv'
<1> DEFINE reports == {Report(c, job[j].time) : c \in Conditions}
           new == {s \in reports : ~Known(s)}
<1>1. HealthTypes
  BY DEF HealthInv
<1>2. job[j].time \in Time
  BY <1>1 DEF HealthTypes, Maintenance
<1>3. \A s \in new : s \in Signal /\ OnlyConditionsClear(s)
  <2>1. ASSUME NEW c \in Conditions
        PROVE  Report(c, job[j].time) \in Signal /\ OnlyConditionsClear(Report(c, job[j].time))
    <3> DEFINE act == IF last[c] = None \/ job[j].time - last[c] > Threshold
                      THEN "observe" ELSE "resolve"
               r == [scope |-> c, severity |-> "warning", action |-> act,
                     at |-> job[j].time, done |-> FALSE]
    <3>1. Report(c, job[j].time) = r
      BY DEF Report
    <3>2. act \in {"observe", "resolve"} /\ c \in Scopes
      BY DEF Scopes
    <3> HIDE DEF act
    <3>3. r \in Signal /\ r.scope = c
      BY <1>2, <3>2 DEF Signal
    <3> QED
      BY <3>1, <3>3 DEF OnlyConditionsClear
  <2> QED
    BY <2>1
<1>4. IsFiniteSet(new)
  <2>1. IsFiniteSet(reports)
    <3> DEFINE f == [c \in Conditions |-> Report(c, job[j].time)]
    <3>1. f \in Surjection(Conditions, reports)
      BY DEF Surjection
    <3> QED
      BY <3>1, HealthAssumption, FS_Surjection
  <2> QED
    BY <2>1, FS_Subset
<1>5. signals' = signals \/ signals' = signals \o SetToSeq(new)
  BY DEF EnqueueScheduled
<1> HIDE DEF new
<1>6. SetToSeq(new) \in Seq(Signal) /\ SetToSeq(new) \in Seq(new)
  <2>1. SetToSeq(new) \in Seq(new)
    BY <1>4, InSomeOrder
  <2>2. new \subseteq Signal
    BY <1>3
  <2> QED
    BY <2>1, <2>2
<1>7. PICK more : /\ more \in Seq(Signal) /\ signals' = signals \o more
                  /\ \A k \in 1..Len(more) : OnlyConditionsClear(more[k])
  <2>1. CASE signals' = signals \o SetToSeq(new)
    <3>1. \A k \in 1..Len(SetToSeq(new)) : SetToSeq(new)[k] \in new
      BY <1>6
    <3> QED
      BY <1>3, <1>6, <2>1, <3>1
  <2>2. CASE signals' = signals
    <3>1. signals' = signals \o << >>
      BY <1>1, <2>2 DEF HealthTypes
    <3>2. << >> \in Seq(Signal) /\ 1..Len(<< >>) = {}
      OBVIOUS
    <3> QED
      BY <3>1, <3>2
  <2> QED
    BY <1>5, <2>1, <2>2
<1>8. HealthTypes'
  <2>1. signals' \in Seq(Signal)
    BY <1>1, <1>7 DEF HealthTypes
  <2>2. [at |-> "drain", time |-> 0, pages |-> 0]
          \in Maintenance
    BY HealthAssumption DEF Time, Maintenance
  <2> QED
    BY <1>1, <2>1, <2>2 DEF HealthTypes, EnqueueScheduled
<1>9. UNCHANGED <<incidents, log, measured, seen, happened>>
  BY DEF EnqueueScheduled
<1> QED
  BY <1>7, <1>8, <1>9, AddedKeeps

(* Page is drained: what it announced is tracked. *)
LEMMA DrainKeeps ==
  ASSUME HealthInv, NEW j \in Jobs, DrainPage(j)
  PROVE  HealthInv' /\ GoesOn(Here, AfterPage, "condition_cleared")
<1> DEFINE h == AfterPage
<1>1. /\ incidents' = h.incidents /\ log' = h.log /\ measured' = h.measured
      /\ signals' = MarkPage /\ UNCHANGED <<clock, last, happened, seen>>
  BY DEF DrainPage
<1>2. /\ Whole(Here) /\ signals \in Seq(Signal)
      /\ \A n \in 1..Len(signals) : OnlyConditionsClear(signals[n])
  BY DEF HealthInv, HealthTypes
<1>3. /\ Whole(h) /\ GoesOn(Here, h, "condition_cleared")
      /\ \A n \in Page :
           signals[n].action = "observe" /\ signals[n].severity = "critical"
             /\ signals[n].scope \notin Conditions
           => Tracked(h, signals[n].scope)
  BY <1>2, PageGoesOn
<1> HIDE DEF h
<1>4. measured' \in Nat
  BY <1>1, <1>3 DEF Whole, Handled
<1>5. /\ Whole(Here)'
      /\ \A o \in Actors : ShownOnce(seen[o], incidents')
      /\ \A f \in Facts : Tracked(Here, ScopeOf[f]) => Tracked(Here, ScopeOf[f])'
      /\ \A s \in Scopes : Tracked(h, s) => Tracked(Here, s)'
  BY <1>1, <1>3, <1>4, RowsMove
<1>6. /\ signals' \in Seq(Signal) /\ Len(signals') = Len(signals)
      /\ \A n \in 1..Len(signals) :
           /\ signals'[n].scope = signals[n].scope /\ signals'[n].action = signals[n].action
           /\ signals'[n].severity = signals[n].severity
           /\ n \notin Page => signals'[n].done = signals[n].done
  <2> DEFINE m == [n \in 1..Len(signals) |-> [signals[n] EXCEPT !.done = @ \/ n \in Page]]
  <2>1. ASSUME NEW n \in 1..Len(signals)
        PROVE  /\ m[n] \in Signal
               /\ m[n].scope = signals[n].scope /\ m[n].action = signals[n].action
               /\ m[n].severity = signals[n].severity
               /\ n \notin Page => m[n].done = signals[n].done
    <3> DEFINE x == signals[n]
               d == x.done \/ n \in Page
    <3>1. x \in Signal
      BY <1>2
    <3>2. m[n] = [x EXCEPT !.done = d]
      OBVIOUS
    <3>3. d \in BOOLEAN /\ (n \notin Page => d = x.done)
      BY <3>1 DEF Signal
    <3> HIDE DEF m, x, d
    <3>4. /\ m[n] \in Signal
          /\ m[n].scope = x.scope /\ m[n].action = x.action
          /\ m[n].severity = x.severity /\ m[n].done = d
      BY <3>1, <3>2, <3>3 DEF Signal
    <3> QED
      BY <3>3, <3>4 DEF x
  <2>2. m \in [1..Len(signals) -> Signal] /\ Len(signals) \in Nat
    <3>1. m = [n \in 1..Len(signals) |-> m[n]]
      OBVIOUS
    <3> HIDE DEF m
    <3> QED
      BY <1>2, <2>1, <3>1
  <2>3. signals' = m
    BY <1>1 DEF MarkPage
  <2> HIDE DEF m
  <2>4. m \in Seq(Signal) /\ Len(m) = Len(signals)
    BY <2>2
  <2> QED
    BY <2>1, <2>3, <2>4
<1>7. \A n \in 1..Len(signals') : OnlyConditionsClear(signals'[n])
  BY <1>2, <1>6 DEF OnlyConditionsClear
<1>8. HealthTypes'
  <2> DEFINE more == [job[j] EXCEPT !.pages = @ + 1]
  <2>1. job[j] \in Maintenance /\ job \in [Jobs -> Maintenance]
    BY DEF HealthInv, HealthTypes
  <2>2. more \in Maintenance /\ IdleJob \in Maintenance
    BY <2>1, HealthAssumption DEF Time, IdleJob, Maintenance
  <2>3. \/ job' = [job EXCEPT ![j] = IdleJob]
        \/ job' = [job EXCEPT ![j] = more]
    <3> DEFINE full == Cardinality(Page) < PageSize \/ job[j].pages + 1 = Pages
    <3>1. job' = [job EXCEPT ![j] = IF full THEN IdleJob ELSE more]
      BY DEF DrainPage
    <3> HIDE DEF full, more
    <3> QED
      BY <3>1
  <2> HIDE DEF more
  <2>4. job' \in [Jobs -> Maintenance]
    BY <2>1, <2>2, <2>3
  <2> QED
    BY <1>1, <1>6, <2>4 DEF HealthInv, HealthTypes
<1>9. ASSUME NEW f \in CriticalFacts \cap happened'
      PROVE  \/ \E n \in 1..Len(signals') : Announces(signals'[n], ScopeOf[f])
             \/ Tracked(Here, ScopeOf[f])'
  <2>1. f \in CriticalFacts \cap happened /\ f \in Facts
    BY <1>1, <1>9 DEF CriticalFacts
  <2>2. ScopeOf[f] \in Scopes /\ ScopeOf[f] \notin Conditions
    BY <2>1, FactsHaveScopes
  <2>3. CASE Tracked(Here, ScopeOf[f])
    BY <1>5, <2>1, <2>3
  <2>4. CASE \E n \in 1..Len(signals) : Announces(signals[n], ScopeOf[f])
    <3>1. PICK n \in 1..Len(signals) : Announces(signals[n], ScopeOf[f])
      BY <2>4
    <3>2. CASE n \in Page
      <4>1. Tracked(h, ScopeOf[f])
        BY <1>3, <2>2, <3>1, <3>2 DEF Announces
      <4> QED
        BY <1>5, <2>2, <4>1
    <3>3. CASE n \notin Page
      BY <1>6, <3>1, <3>3 DEF Announces
    <3> QED
      BY <3>2, <3>3
  <2> QED
    BY <2>1, <2>3, <2>4 DEF HealthInv, FactsAreTracked
<1> QED
  BY <1>1, <1>3, <1>5, <1>7, <1>8, <1>9 DEF HealthInv, FactsAreTracked, h

-----------------------------------------------------------------------------
(* The operators' transactions. *)

LEMMA LookKeeps ==
  ASSUME HealthInv, NEW o \in Operators, Look(o)
  PROVE  HealthInv'
<1>1. PICK i \in 1..Len(incidents) :
        seen' = [seen EXCEPT ![o] = [incident |-> i, version |-> incidents[i].version,
                                     count |-> incidents[i].count]]
  BY DEF Look
<1>2. UNCHANGED <<clock, last, happened, signals, incidents, log, measured, job>>
  BY DEF Look
<1> DEFINE v == [incident |-> i, version |-> incidents[i].version, count |-> incidents[i].count]
<1>3. incidents[i] \in Incident
  BY DEF HealthInv, Whole, Handled, Here
<1>4. incidents[i].version \in Nat /\ incidents[i].count \in Nat /\ i \in Nat
  BY <1>3 DEF Incident
<1>5. /\ v \in [incident : Nat, version : Nat, count : Nat]
      /\ ShownOnce(v, incidents)
  BY <1>4 DEF ShownOnce
<1>6. seen' = [seen EXCEPT ![o] = v]
  BY <1>1
<1> HIDE DEF v
<1>7. HealthTypes'
  BY <1>2, <1>5, <1>6 DEF HealthInv, HealthTypes
<1>8. \A a \in Actors : ShownOnce(seen'[a], incidents')
  BY <1>2, <1>5, <1>6 DEF HealthInv, HealthTypes
<1>9. Here' = Here
  BY <1>2 DEF Here
<1> QED
  BY <1>2, <1>7, <1>8, <1>9 DEF HealthInv, FactsAreTracked

(* A row was changed in the version that the operator o expected. *)
LEMMA OperatorKeeps ==
  ASSUME HealthInv, NEW o \in Operators, NEW how, NEW h, Whole(h), GoesOn(Here, h, how),
         incidents' = h.incidents, log' = h.log, seen' = [seen EXCEPT ![o] = None],
         UNCHANGED <<clock, last, happened, signals, measured, job>>
  PROVE  HealthInv'
<1>1. measured' \in Nat
  BY DEF HealthInv, Whole, Handled, Here
<1>2. /\ Whole(Here)'
      /\ \A a \in Actors : ShownOnce(seen[a], incidents')
      /\ \A f \in Facts : Tracked(Here, ScopeOf[f]) => Tracked(Here, ScopeOf[f])'
  BY <1>1, RowsMove
<1>3. HealthTypes'
  BY DEF HealthInv, HealthTypes
<1>4. ShownOnce(None, incidents')
  BY DEF ShownOnce
<1>5. \A a \in Actors : ShownOnce(seen'[a], incidents')
  BY <1>2, <1>4 DEF HealthInv, HealthTypes
<1>6. \A f \in CriticalFacts : f \in Facts
  BY DEF CriticalFacts
<1> QED
  BY <1>2, <1>3, <1>5, <1>6 DEF HealthInv, FactsAreTracked

(* The row that an operator expects. *)
LEMMA ExpectedRow ==
  ASSUME HealthInv, NEW o \in Operators, Expected(o)
  PROVE  /\ seen[o].incident \in 1..Len(incidents)
         /\ seen[o].count = incidents[seen[o].incident].count
         /\ incidents[seen[o].incident] \in Incident
         /\ Whole(Here) /\ Here.incidents = incidents
<1>1. ShownOnce(seen[o], incidents) /\ seen[o] # None
  BY DEF HealthInv, Expected, Operators
<1>2. seen[o].incident \in 1..Len(incidents)
  BY <1>1 DEF ShownOnce
<1>3. seen[o].count = incidents[seen[o].incident].count
  BY <1>1 DEF ShownOnce, Expected
<1>4. incidents \in Seq(Incident)
  BY DEF HealthInv, Whole, Handled, Here
<1>5. incidents[seen[o].incident] \in Incident
  BY <1>2, <1>4
<1> QED
  BY <1>2, <1>3, <1>5 DEF HealthInv, Here

LEMMA AcknowledgeKeeps ==
  ASSUME HealthInv, NEW o \in Operators, Acknowledge(o)
  PROVE  HealthInv' /\ GoesOn(Here, Acknowledged(Here, seen[o].incident), "condition_cleared")
<1> DEFINE i == seen[o].incident
           old == incidents[i]
           row == [old EXCEPT !.state = "acknowledged", !.version = @ + 1]
           h == Acknowledged(Here, i)
<1>1. /\ Expected(o) /\ old.state = "open"
      /\ incidents' = h.incidents /\ log' = h.log /\ seen' = [seen EXCEPT ![o] = None]
      /\ UNCHANGED <<clock, last, happened, signals, measured, job>>
  BY DEF Acknowledge
<1>2. i \in 1..Len(incidents) /\ old \in Incident /\ Whole(Here) /\ Here.incidents = incidents
  BY <1>1, ExpectedRow
<1>3. h = Changed(Here, i, "acknowledged", row)
  BY <1>2 DEF Acknowledged
<1> HIDE DEF i, h, old
<1>4. /\ row \in Incident /\ row.scope = old.scope /\ row.version = old.version + 1
      /\ row.state = "acknowledged" /\ row.severity = old.severity /\ row.code = old.code
  <2> DEFINE a == [old EXCEPT !.state = "acknowledged"]
             b == [a EXCEPT !.version = old.version + 1]
  <2>1. /\ a \in Incident /\ a.scope = old.scope /\ a.version = old.version
        /\ a.state = "acknowledged" /\ a.severity = old.severity /\ a.code = old.code
    BY <1>2 DEF Incident, IncidentState
  <2>2. old.version + 1 \in Nat \ {0}
    BY <1>2 DEF Incident
  <2> HIDE DEF a
  <2>3. /\ b \in Incident /\ b.scope = old.scope /\ b.version = old.version + 1
        /\ b.state = "acknowledged" /\ b.severity = old.severity /\ b.code = old.code
    BY <2>1, <2>2 DEF Incident
  <2>4. row = b
    BY <2>1 DEF a
  <2> QED
    BY <2>3, <2>4
<1> HIDE DEF row
<1>5. i \in 1..Len(Here.incidents) /\ old = Here.incidents[i]
  BY <1>2 DEF old
<1>6. Active(old)
  BY <1>1 DEF Active
<1>7. "acknowledged" \in {"opened", "reobserved", "acknowledged", "resolved"}
  OBVIOUS
<1>8. Whole(h) /\ h.incidents = [Here.incidents EXCEPT ![i] = row]
  BY <1>2, <1>3, <1>4, <1>5, <1>6, <1>7, ChangedIsWhole
<1>9. RowGoesOn(Here.incidents[i], row, "condition_cleared")
  <2>1. old.version \in Nat
    BY <1>2 DEF Incident
  <2> QED
    BY <1>1, <1>4, <1>5, <2>1 DEF RowGoesOn, InHand, Active
<1>10. GoesOn(Here, h, "condition_cleared")
  <2>1. h.incidents = [Here.incidents EXCEPT ![i] = row]
    BY <1>8
  <2> QED
    BY <1>2, <1>5, <1>9, <2>1, ChangedGoesOn
<1>11. HealthInv'
  BY <1>1, <1>8, <1>10, OperatorKeeps
<1> QED
  BY <1>10, <1>11 DEF h, i

LEMMA ResolveKeeps ==
  ASSUME HealthInv, NEW o \in Operators, ResolveByOperator(o)
  PROVE  /\ HealthInv'
         /\ \A k \in 1..Len(incidents) :
              incidents[k].code # incidents'[k].code
              => /\ seen[o] # None /\ seen[o].incident = k
                 /\ seen[o].count = incidents'[k].count
<1> DEFINE i == seen[o].incident
           old == incidents[i]
           h == Resolved(Here, i, clock, "operator_resolved")
           row == h.incidents[i]
<1>1. /\ Expected(o) /\ Active(old)
      /\ incidents' = h.incidents /\ log' = h.log /\ seen' = [seen EXCEPT ![o] = None]
      /\ UNCHANGED <<clock, last, happened, signals, measured, job>>
  BY DEF ResolveByOperator
<1>2. /\ i \in 1..Len(incidents) /\ old \in Incident /\ Whole(Here) /\ Here.incidents = incidents
      /\ seen[o].count = old.count
  BY <1>1, ExpectedRow
<1>3. clock \in Time
  BY DEF HealthInv, HealthTypes
<1>4. "operator_resolved" \in {"condition_cleared", "operator_resolved"}
  OBVIOUS
<1>5. i \in 1..Len(Here.incidents) /\ old = Here.incidents[i]
  BY <1>2
<1>6. Active(Here.incidents[i])
  BY <1>1, <1>5
<1>7. h = Resolved(Here, i, clock, "operator_resolved")
  OBVIOUS
<1> HIDE DEF i, h, old
<1>8. /\ Whole(h)
      /\ h.incidents = [Here.incidents EXCEPT ![i] = row]
      /\ row.scope = Here.incidents[i].scope /\ row.count = Here.incidents[i].count
      /\ row.version = Here.incidents[i].version + 1
      /\ row.state = "resolved" /\ row.code = "operator_resolved"
  BY <1>2, <1>3, <1>4, <1>5, <1>6, <1>7, ResolvedIsWhole
<1> HIDE DEF row
<1>9. RowGoesOn(Here.incidents[i], row, "operator_resolved")
  <2>1. old.version \in Nat
    BY <1>2 DEF Incident
  <2> QED
    BY <1>5, <1>8, <2>1 DEF RowGoesOn, InHand
<1>10. GoesOn(Here, h, "operator_resolved")
  <2>1. h.incidents = [Here.incidents EXCEPT ![i] = row]
    BY <1>8
  <2> QED
    BY <1>2, <1>5, <1>9, <2>1, ChangedGoesOn
<1>11. HealthInv'
  BY <1>1, <1>8, <1>10, OperatorKeeps
<1>12. ASSUME NEW k \in 1..Len(incidents), incidents[k].code # incidents'[k].code
       PROVE  seen[o] # None /\ seen[o].incident = k /\ seen[o].count = incidents'[k].count
  <2>1. incidents' = [incidents EXCEPT ![i] = row] /\ incidents \in Seq(Incident)
    BY <1>1, <1>2, <1>8 DEF Whole, Handled
  <2>2. k = i
    BY <1>12, <2>1
  <2>3. incidents'[k] = row
    BY <2>1, <2>2
  <2> QED
    BY <1>1, <1>2, <1>5, <1>8, <2>2, <2>3 DEF Expected, i
<1> QED
  BY <1>11, <1>12

-----------------------------------------------------------------------------
(* Every step of operational health. *)

LEMMA HealthStep ==
  ASSUME HealthInv, HealthNext
  PROVE  HealthInv'
<1>1. ASSUME NEW j \in Jobs, StartMaintenance(j) \/ DrainFails(j) \/ JobDies(j) PROVE HealthInv'
  <2>1. UNCHANGED <<clock, last, happened, signals, incidents, log, measured, seen>>
    BY <1>1 DEF StartMaintenance, DrainFails, JobDies
  <2>2. job' \in [Jobs -> Maintenance]
    <3>1. [at |-> "enqueue", time |-> clock, pages |-> 0] \in Maintenance
      BY DEF HealthInv, HealthTypes, Maintenance
    <3>2. IdleJob \in Maintenance
      BY HealthAssumption DEF IdleJob, Time, Maintenance
    <3> QED
      BY <1>1, <3>1, <3>2 DEF HealthInv, HealthTypes, StartMaintenance, DrainFails, JobDies
  <2>3. Here' = Here
    BY <2>1 DEF Here
  <2> QED
    BY <2>1, <2>2, <2>3 DEF HealthInv, HealthTypes, FactsAreTracked
<1>2. ASSUME \/ \E c \in Conditions : Refresh(c)
             \/ Tick
      PROVE  HealthInv'
  <2>1. UNCHANGED <<happened, signals, incidents, log, measured, job, seen>>
    BY <1>2 DEF Refresh, Tick
  <2>2. clock' \in Time /\ last' \in [Conditions -> Time \cup {None}]
    <3>1. clock \in Time /\ last \in [Conditions -> Time \cup {None}]
      BY DEF HealthInv, HealthTypes
    <3>2. ASSUME NEW c \in Conditions, Refresh(c)
          PROVE  clock' \in Time /\ last' \in [Conditions -> Time \cup {None}]
      BY <3>1, <3>2 DEF Refresh
    <3>3. CASE Tick
      BY <3>1, <3>3, HealthAssumption DEF Tick, Time
    <3> QED
      BY <1>2, <3>2, <3>3
  <2>3. Here' = Here
    BY <2>1 DEF Here
  <2> QED
    BY <2>1, <2>2, <2>3 DEF HealthInv, HealthTypes, FactsAreTracked
<1> QED
  BY <1>1, <1>2, RecordKeeps, EnqueueKeeps, DrainKeeps, LookKeeps, AcknowledgeKeeps, ResolveKeeps
     DEF HealthNext, WithHealthLock, WithoutHealthLock, CriticalFacts, Drain

(* Only an operator resolves in his own name, and what he was shown. *)
LEMMA ResolvedAsShown ==
  ASSUME HealthInv, HealthNext, NEW i \in 1..Len(incidents),
         incidents[i].code # incidents'[i].code, incidents'[i].code = "operator_resolved"
  PROVE  \E o \in Operators :
           seen[o] # None /\ seen[o].incident = i /\ seen[o].count = incidents'[i].count
<1>1. ASSUME UNCHANGED incidents PROVE FALSE
  BY <1>1
<1>2. ASSUME NEW j \in Jobs, DrainPage(j) PROVE FALSE
  <2>1. GoesOn(Here, AfterPage, "condition_cleared")
    BY <1>2, DrainKeeps
  <2>2. Here.incidents = incidents /\ AfterPage.incidents = incidents'
    BY <1>2 DEF Here, DrainPage
  <2> QED
    BY <2>1, <2>2 DEF GoesOn, RowGoesOn
<1>3. ASSUME NEW o \in Operators, Acknowledge(o) PROVE FALSE
  <2> DEFINE h == Acknowledged(Here, seen[o].incident)
  <2>1. GoesOn(Here, h, "condition_cleared")
    BY <1>3, AcknowledgeKeeps
  <2>2. Here.incidents = incidents /\ h.incidents = incidents'
    BY <1>3 DEF Here, Acknowledge
  <2> HIDE DEF h
  <2> QED
    BY <2>1, <2>2 DEF GoesOn, RowGoesOn
<1> QED
  BY <1>1, <1>2, <1>3, ResolveKeeps
     DEF HealthNext, WithHealthLock, WithoutHealthLock, CriticalFacts, Drain, Record, StartMaintenance, EnqueueScheduled, DrainFails, JobDies,
         Look, Refresh, Tick

-----------------------------------------------------------------------------
(* ProductionControl. *)

Inquiry ==
  [at : {"idle", "waiting", "reading", "evaluated", "attested", "asking"},
   expected : {0, 1, 2}, read : 0..Statements, complete : BOOLEAN,
   evaluated : Time, asked : Time]

ControlTypes ==
  /\ mode \in Mode /\ version \in {1, 2} /\ met \subseteq Prerequisites
  /\ audit \subseteq {"promoted_live", "prerequisites_incomplete"}
  /\ request \in [Requests -> Inquiry]
  /\ found \in [Requests -> SUBSET Prerequisites]

(* A request has read nothing before it has the lock; what it read as met   *)
(* was met while it read; and it stops after the last statement.            *)
AsFound(x, f) ==
  /\ x.at = "waiting" => x.read = 0
  /\ x.complete => /\ 1..x.read \subseteq f
                   /\ x.at # "reading" => x.read = Statements

FoundAsRead == \A r \in Requests : AsFound(request[r], found[r])

ControlInv == HealthInv /\ ControlTypes /\ FoundAsRead

LEMMA ControlInitInv == Init => ControlInv
<1> SUFFICES ASSUME Init PROVE ControlInv
  OBVIOUS
<1>1. HealthInv
  BY HealthInitInv DEF Init
<1>2. 0 \in Time /\ 0 \in 0..Statements
  BY HealthAssumption, ControlAssumption DEF Time
<1>3. ControlTypes
  BY <1>2 DEF Init, ControlInit, ControlTypes, Mode, Inquiry, NoRequest
<1>4. FoundAsRead
  BY DEF Init, ControlInit, FoundAsRead, AsFound, NoRequest
<1> QED
  BY <1>1, <1>3, <1>4 DEF ControlInv

(* The history keeps up with a step of which every request that moves reads *)
(* no more than what is met now.                                            *)
LEMMA FoundIsKept ==
  ASSUME ControlTypes, FoundAsRead, Witness, met' \subseteq Prerequisites,
         request' \in [Requests -> Inquiry],
         \A q \in Requests :
           \/ request'[q] = request[q]
           \/ AsFound(request'[q],
                      IF request'[q].at = "reading" THEN found[q] \cup met' ELSE found[q])
  PROVE  FoundAsRead' /\ found' \in [Requests -> SUBSET Prerequisites]
<1>1. found \in [Requests -> SUBSET Prerequisites]
  BY DEF ControlTypes
<1>2. found' = [q \in Requests |->
        IF ~request'[q].complete THEN {}
        ELSE IF request'[q].at = "reading" THEN found[q] \cup met' ELSE found[q]]
  BY DEF Witness
<1>3. found' \in [Requests -> SUBSET Prerequisites]
  BY <1>1, <1>2
<1>4. ASSUME NEW q \in Requests PROVE AsFound(request'[q], found'[q])
  <2> DEFINE now == IF request'[q].at = "reading" THEN found[q] \cup met' ELSE found[q]
  <2>1. found'[q] = IF ~request'[q].complete THEN {} ELSE now
    BY <1>2
  <2>2. found[q] \subseteq now
    OBVIOUS
  <2>3. AsFound(request'[q], now)
    BY <2>2 DEF FoundAsRead, AsFound
  <2> QED
    BY <2>1, <2>3 DEF AsFound
<1> QED
  BY <1>3, <1>4 DEF FoundAsRead

(* One step of one request: what it becomes. *)
LEMMA RequestMoves ==
  ASSUME ControlInv, NEW r \in Requests, UNCHANGED healthVars, UNCHANGED met,
         \/ Begin(r) \/ TakeLock(r) \/ ReadNext(r) \/ Evaluated(r) \/ Attest(r)
         \/ AttestFails(r) \/ Ask(r) \/ Promote(r) \/ Abandon(r)
  PROVE  \E x \in Inquiry :
           /\ request' = [request EXCEPT ![r] = x]
           /\ AsFound(x, IF x.at = "reading" THEN found[r] \cup met ELSE found[r])
<1>1. request[r] \in Inquiry /\ AsFound(request[r], found[r]) /\ version \in {1, 2}
  BY DEF ControlInv, ControlTypes, FoundAsRead
<1>2. clock \in Time /\ 0 \in Time /\ 0 \in 0..Statements
  BY HealthAssumption, ControlAssumption DEF ControlInv, HealthInv, HealthTypes, Time
<1>3. NoRequest \in Inquiry /\ ~NoRequest.complete /\ NoRequest.read = 0
  BY <1>2 DEF NoRequest, Inquiry
<1>4. CASE Begin(r)
  <2> DEFINE x == IF mode = "live" THEN [NoRequest EXCEPT !.at = "asking"]
                  ELSE [NoRequest EXCEPT !.at = "waiting", !.expected = version]
  <2>1. x \in Inquiry /\ ~x.complete /\ x.read = 0
    BY <1>1, <1>3 DEF Inquiry, NoRequest
  <2>2. request' = [request EXCEPT ![r] = x]
    BY <1>4 DEF Begin
  <2> HIDE DEF x
  <2> QED
    BY <2>1, <2>2 DEF AsFound
<1>5. CASE TakeLock(r)
  <2> DEFINE x == [request[r] EXCEPT !.at = "reading", !.complete = Clear]
  <2>1. Clear \in BOOLEAN
    BY DEF Clear
  <2>2. x \in Inquiry /\ x.at = "reading" /\ x.read = request[r].read
    BY <1>1, <2>1 DEF Inquiry
  <2>3. request' = [request EXCEPT ![r] = x]
    BY <1>5 DEF TakeLock
  <2>4. request[r].read = 0
    BY <1>1, <1>5 DEF TakeLock, AsFound
  <2>5. 1..x.read = {}
    BY <2>2, <2>4
  <2> HIDE DEF x
  <2> QED
    BY <2>2, <2>3, <2>5 DEF AsFound
<1>6. CASE ReadNext(r)
  <2> DEFINE p == request[r].read + 1
             x == [request[r] EXCEPT !.read = p, !.complete = @ /\ p \in met]
  <2>1. request[r].read \in 0..Statements /\ p \in 1..Statements
    BY <1>1, <1>6, ControlAssumption DEF ReadNext, Inquiry
  <2>2. /\ x \in Inquiry /\ x.at = "reading" /\ x.read = p
        /\ x.complete => request[r].complete /\ p \in met
    <3> DEFINE c == request[r].complete /\ p \in met
    <3>1. c \in BOOLEAN /\ p \in 0..Statements
      BY <2>1, ControlAssumption
    <3>2. x = [request[r] EXCEPT !.read = p, !.complete = c]
      BY <1>1 DEF Inquiry
    <3> HIDE DEF x, c, p
    <3>3. x \in Inquiry /\ x.at = request[r].at /\ x.read = p /\ x.complete = c
      BY <1>1, <3>1, <3>2 DEF Inquiry
    <3> QED
      BY <1>6, <3>3 DEF ReadNext, c
  <2>3. request' = [request EXCEPT ![r] = x]
    BY <1>6 DEF ReadNext
  <2>4. 1..p \subseteq (1..request[r].read) \cup {p}
    BY <2>1, ControlAssumption
  <2> HIDE DEF x, p
  <2> QED
    BY <1>1, <2>2, <2>3, <2>4 DEF AsFound
<1>7. CASE Evaluated(r)
  <2> DEFINE x == [request[r] EXCEPT !.at = "evaluated", !.evaluated = clock]
  <2>1. /\ x \in Inquiry /\ x.at = "evaluated" /\ x.read = request[r].read
        /\ x.complete = request[r].complete
    BY <1>1, <1>2 DEF Inquiry
  <2>2. request' = [request EXCEPT ![r] = x] /\ request[r].read = Statements
    BY <1>7 DEF Evaluated
  <2> HIDE DEF x
  <2> QED
    BY <1>1, <2>1, <2>2 DEF AsFound
<1>8. CASE Attest(r) \/ Ask(r)
  <2>1. PICK place \in {"attested", "asking"}, t \in Time :
          request' = [request EXCEPT ![r] = [request[r] EXCEPT !.at = place, !.asked = t]]
    <3>1. CASE Ask(r)
      <4>1. request' = [request EXCEPT ![r] = [request[r] EXCEPT !.at = "asking", !.asked = clock]]
        BY <3>1 DEF Ask
      <4> QED
        BY <1>2, <4>1
    <3>2. CASE Attest(r)
      <4>1. request[r].asked \in Time
        BY <1>1 DEF Inquiry
      <4>2. [request[r] EXCEPT !.at = "attested"]
              = [request[r] EXCEPT !.at = "attested", !.asked = request[r].asked]
        BY <1>1 DEF Inquiry
      <4>3. request' = [request EXCEPT ![r] = [request[r] EXCEPT !.at = "attested"]]
        BY <3>2 DEF Attest
      <4> QED
        BY <4>1, <4>2, <4>3
    <3> QED
      BY <1>8, <3>1, <3>2
  <2> DEFINE x == [request[r] EXCEPT !.at = place, !.asked = t]
  <2>2. /\ x \in Inquiry /\ x.at \notin {"waiting", "reading"}
        /\ x.read = request[r].read /\ x.complete = request[r].complete
    BY <1>1, <2>1 DEF Inquiry
  <2>3. request[r].at # "reading"
    BY <1>8 DEF Attest, Ask
  <2>4. request' = [request EXCEPT ![r] = x]
    BY <2>1
  <2> HIDE DEF x
  <2> QED
    BY <1>1, <2>2, <2>3, <2>4 DEF AsFound
<1>9. CASE AttestFails(r) \/ Promote(r) \/ Abandon(r)
  <2>1. request' = [request EXCEPT ![r] = NoRequest]
    BY <1>9 DEF AttestFails, Promote, Abandon
  <2> QED
    BY <1>3, <2>1 DEF AsFound
<1> QED
  BY <1>4, <1>5, <1>6, <1>7, <1>8, <1>9

(* One step of one request keeps the invariant. *)
LEMMA RequestKeeps ==
  ASSUME ControlInv, NEW r \in Requests, UNCHANGED healthVars, Witness,
         \/ Begin(r) \/ TakeLock(r) \/ ReadNext(r) \/ Evaluated(r) \/ Attest(r)
         \/ AttestFails(r) \/ Ask(r) \/ Promote(r) \/ Abandon(r)
  PROVE  ControlInv'
<1>1. ControlTypes /\ request \in [Requests -> Inquiry]
  BY DEF ControlInv, ControlTypes
<1>2. /\ mode' \in Mode /\ version' \in {1, 2} /\ met' = met
      /\ audit' \subseteq {"promoted_live", "prerequisites_incomplete"}
  BY <1>1 DEF ControlTypes, Begin, TakeLock, ReadNext, Evaluated, Attest, AttestFails, Ask,
              Promote, GoLive, Abandon, Mode
<1>3. PICK x \in Inquiry :
        /\ request' = [request EXCEPT ![r] = x]
        /\ AsFound(x, IF x.at = "reading" THEN found[r] \cup met ELSE found[r])
  BY <1>2, RequestMoves
<1>4. request' \in [Requests -> Inquiry]
  BY <1>1, <1>3
<1>5. ASSUME NEW q \in Requests
      PROVE  \/ request'[q] = request[q]
             \/ AsFound(request'[q],
                        IF request'[q].at = "reading" THEN found[q] \cup met' ELSE found[q])
  BY <1>1, <1>2, <1>3
<1>6. FoundAsRead' /\ found' \in [Requests -> SUBSET Prerequisites]
  BY <1>1, <1>2, <1>4, <1>5, FoundIsKept DEF ControlInv, ControlTypes
<1>7. HealthInv'
  BY DEF ControlInv, HealthInv, HealthTypes, FactsAreTracked, Here, healthVars
<1> QED
  BY <1>1, <1>2, <1>4, <1>6, <1>7 DEF ControlInv, ControlTypes

LEMMA ControlStep == ControlInv /\ [Next]_vars => ControlInv'
<1> SUFFICES ASSUME ControlInv, [Next]_vars PROVE ControlInv'
  OBVIOUS
<1>1. CASE HealthMoves /\ Witness
  <2>1. HealthInv'
    BY <1>1, HealthStep DEF ControlInv, HealthMoves, HealthNext
  <2>2. FoundAsRead' /\ found' \in [Requests -> SUBSET Prerequisites]
    BY <1>1, FoundIsKept DEF ControlInv, ControlTypes, HealthMoves
  <2> QED
    BY <1>1, <2>1, <2>2 DEF ControlInv, ControlTypes, HealthMoves
<1>2. CASE Environment /\ UNCHANGED healthVars /\ Witness
  <2>1. HealthInv'
    BY <1>2 DEF ControlInv, HealthInv, HealthTypes, FactsAreTracked, Here, healthVars
  <2>2. met' \subseteq Prerequisites
    BY <1>2 DEF ControlInv, ControlTypes, Environment
  <2>3. FoundAsRead' /\ found' \in [Requests -> SUBSET Prerequisites]
    BY <1>2, <2>2, FoundIsKept DEF ControlInv, ControlTypes, Environment
  <2> QED
    BY <1>2, <2>1, <2>2, <2>3 DEF ControlInv, ControlTypes, Environment
<1>3. CASE UNCHANGED vars
  <2>1. UNCHANGED <<healthVars, mode, version, met, request, audit, found>>
    BY <1>3 DEF vars, controlVars
  <2>2. HealthInv'
    BY <2>1 DEF ControlInv, HealthInv, HealthTypes, FactsAreTracked, Here, healthVars
  <2> QED
    BY <2>1, <2>2 DEF ControlInv, ControlTypes, FoundAsRead, AsFound
<1> QED
  BY <1>1, <1>2, <1>3, RequestKeeps DEF Next, ControlNext

LEMMA ControlInvariance == Spec => []ControlInv
BY ControlInitInv, ControlStep, PTL DEF Spec

(* What a schedule, a worker, an operator and a request may be in the midst *)
(* of, for any facts, jobs, operators and requests.                         *)
THEOREM ControlTypesAreRight == Spec => [](HealthTypeOK /\ ControlTypeOK)
<1>1. ControlInv => HealthTypeOK /\ ControlTypeOK
  BY DEF ControlInv, ControlTypes, HealthInv, HealthTypes, HealthTypeOK, ControlTypeOK,
         Whole, Handled, Here
<1> QED
  BY <1>1, ControlInvariance, PTL

(* The history of every incident leads to its row, and one incident of a    *)
(* scope is active: draining takes whole pages, of any size, while          *)
(* operators acknowledge and resolve.                                       *)
THEOREM HistoryIsTold == Spec => []HistoryTellsIncident
<1>1. ControlInv => HistoryTellsIncident
  BY DEF ControlInv, HealthInv, Whole, Here, RowIsTold, OneActive, HistoryTellsIncident
<1> QED
  BY <1>1, ControlInvariance, PTL

(* An operator resolves exactly the occurrences that he was shown.          *)
THEOREM OperatorsSeeWhatTheyResolve == Spec => NothingUnseenIsResolved
<1> DEFINE Step == \A i \in 1..Len(incidents) :
                     incidents[i].code # incidents'[i].code
                       /\ incidents'[i].code = "operator_resolved"
                     => \E o \in Operators :
                          /\ seen[o] # None
                          /\ seen[o].incident = i
                          /\ seen[o].count = incidents'[i].count
<1>1. ControlInv /\ [Next]_vars => [Step]_healthVars
  <2> SUFFICES ASSUME ControlInv, [Next]_vars, ~UNCHANGED healthVars PROVE Step
    OBVIOUS
  <2>1. HealthInv /\ HealthNext
    BY DEF Next, ControlInv, HealthMoves, HealthNext, vars
  <2> QED
    BY <2>1, ResolvedAsShown
<1> QED
  BY <1>1, ControlInvariance, PTL DEF Spec, NothingUnseenIsResolved

(* An organization goes live only while every critical fact recorded before *)
(* was resolved by an operator, for a request whose evaluation found each   *)
(* prerequisite met as it read it, and that asked within Validity of its    *)
(* end; for any number of prerequisites and of requests at a time.          *)
THEOREM LiveWhenReady == Spec => PromotedWhenReady
<1> DEFINE AllInHand == \A f \in CriticalFacts \cap happened :
                         \E i \in 1..Len(incidents) :
                           /\ incidents[i].scope = ScopeOf[f]
                           /\ incidents[i].state = "resolved"
                           /\ incidents[i].code = "operator_resolved"
           Found == \E r \in Requests :
                      /\ request[r] # request'[r]
                      /\ found[r] = Prerequisites
                      /\ request[r].asked <= request[r].evaluated + Validity
<1>1. ControlInv /\ [Next]_vars => [mode # mode' => AllInHand /\ Found]_vars
  <2> SUFFICES ASSUME ControlInv, [Next]_vars, mode # mode' PROVE AllInHand /\ Found
    OBVIOUS
  <2>1. PICK r \in Requests : Promote(r) /\ Attested(r) /\ Clear
    BY DEF Next, ControlNext, HealthMoves, Begin, TakeLock, ReadNext, Evaluated, Attest,
           AttestFails, Ask, Promote, Abandon, Environment, vars, controlVars
  <2>2. AllInHand
    <3> SUFFICES ASSUME NEW f \in CriticalFacts \cap happened
                 PROVE  \E i \in 1..Len(incidents) :
                          /\ incidents[i].scope = ScopeOf[f]
                          /\ incidents[i].state = "resolved"
                          /\ incidents[i].code = "operator_resolved"
      OBVIOUS
    <3>1. ~\E n \in 1..Len(signals) : Announces(signals[n], ScopeOf[f])
      BY <2>1 DEF Clear, Pending, Announces
    <3>2. Tracked(Here, ScopeOf[f])
      BY <3>1 DEF ControlInv, HealthInv, FactsAreTracked
    <3>3. PICK i \in 1..Len(incidents) :
            incidents[i].scope = ScopeOf[f] /\ InHand(incidents[i])
      BY <3>2 DEF Tracked, Here
    <3> QED
      BY <2>1, <3>3 DEF Clear, InHand
  <2>3. Found
    <3>1. request[r] \in Inquiry /\ found[r] \subseteq Prerequisites
      BY DEF ControlInv, ControlTypes
    <3>2. request[r].read = Statements /\ 1..request[r].read \subseteq found[r]
      BY <2>1 DEF Promote, Attested, ControlInv, FoundAsRead, AsFound
    <3>3. found[r] = Prerequisites
      BY <3>1, <3>2 DEF Prerequisites
    <3>4. request'[r] = NoRequest
      BY <2>1 DEF Promote, ControlInv, ControlTypes
    <3>5. request[r] # request'[r]
      BY <2>1, <3>4 DEF Promote, NoRequest
    <3> QED
      BY <2>1, <3>3, <3>5 DEF Attested
  <2> QED
    BY <2>2, <2>3
<1> QED
  BY <1>1, ControlInvariance, PTL DEF Spec, PromotedWhenReady
=============================================================================
