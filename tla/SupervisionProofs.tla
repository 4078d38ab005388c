------------------------- MODULE SupervisionProofs -------------------------
(***************************************************************************)
(* Proofs about Supervision: the type invariant, the spacing of restarts   *)
(* and what a give-up has spent, for every cap, window, recovery time and  *)
(* marker age.                                                             *)
(*                                                                         *)
(* Two definitions are not first order: the shift Shl, a recursive         *)
(* function, and Expired, a CHOOSE.  Both are characterised first, by the  *)
(* least element of a set of naturals.                                     *)
(***************************************************************************)
EXTENDS Supervision, SequenceTheorems, WellFoundedInduction, TLAPS

USE SupervisionAssumption

(* A nonempty set of naturals has a least element. *)
LEMMA LeastElement ==
    ASSUME NEW T \in SUBSET Nat, T # {}
    PROVE  \E n \in T : \A m \in T : n <= m
PROOF
<1> DEFINE R == {ss \in Nat \X Nat : ss[1] < ss[2]}
<1>1. IsWellFoundedOn(R, Nat)
    BY NatLessThanWellFounded, Zenon DEF OpToRel
<1>2. PICK n \in T : \A m \in T : ~ (<<m, n>> \in R)
    <2> HIDE DEF R
    <2> QED BY <1>1, WFMin
<1>3. ASSUME NEW m \in T PROVE n <= m
    <2>1. m \in Nat /\ n \in Nat
        OBVIOUS
    <2>2. <<m, n>> \notin R
        BY <1>2
    <2> QED BY <2>1, <2>2
<1> QED BY <1>3

-----------------------------------------------------------------------------
(* The shift. *)

IsShl(f, n) ==
    /\ f \in [0 .. n -> Nat]
    /\ \A k \in 0 .. n : f[k] = IF k = 0 THEN 1 ELSE 2 * f[k - 1]

(* Shifts exist up to any length: the least length without one would have *)
(* a predecessor, whose function extends.                                 *)
LEMMA ShlUpTo == \A n \in Nat : \E f : IsShl(f, n)
PROOF
<1> DEFINE T == {n \in Nat : ~ \E f : IsShl(f, n)}
<1> SUFFICES ASSUME T # {} PROVE FALSE
    OBVIOUS
<1>1. PICK n \in T : \A m \in T : n <= m
    BY LeastElement
<1>2. n # 0
    <2>1. IsShl([k \in 0 .. 0 |-> 1], 0)
        BY DEF IsShl
    <2> QED BY <2>1
<1>3. n - 1 \in Nat /\ n - 1 \notin T
    BY <1>1, <1>2
<1>4. PICK f : IsShl(f, n - 1)
    BY <1>3
<1> DEFINE g == [k \in 0 .. n |-> IF k = n THEN 2 * f[n - 1] ELSE f[k]]
<1>5. IsShl(g, n)
    <2>1. f[n - 1] \in Nat
        BY <1>3, <1>4 DEF IsShl
    <2>2. g \in [0 .. n -> Nat]
        <3>1. ASSUME NEW k \in 0 .. n PROVE g[k] \in Nat
            BY <1>2, <1>3, <1>4, <2>1 DEF IsShl
        <3> QED BY <3>1
    <2>3. ASSUME NEW k \in 0 .. n
          PROVE  g[k] = IF k = 0 THEN 1 ELSE 2 * g[k - 1]
        <3>1. CASE k = n
            BY <3>1, <1>2, <1>3
        <3>2. CASE k # n
            <4>1. k \in 0 .. n - 1 /\ g[k] = f[k]
                BY <3>2, <1>3
            <4>2. f[k] = IF k = 0 THEN 1 ELSE 2 * f[k - 1]
                BY <4>1, <1>4 DEF IsShl
            <4>3. k # 0 => k - 1 \in 0 .. n /\ k - 1 # n /\ g[k - 1] = f[k - 1]
                BY <4>1, <1>3
            <4> QED BY <4>1, <4>2, <4>3
        <3> QED BY <3>1, <3>2
    <2> QED BY <2>2, <2>3 DEF IsShl
<1> QED BY <1>5

(* What the shift is, within the cap. *)
LEMMA ShlValues ==
    /\ Shl \in [0 .. MaxRestarts -> Nat]
    /\ Shl[0] = 1
    /\ \A n \in 1 .. MaxRestarts : Shl[n] = 2 * Shl[n - 1]
PROOF
<1> DEFINE Unfolds(f) == f = [n \in 0 .. MaxRestarts |-> IF n = 0 THEN 1 ELSE 2 * f[n - 1]]
<1>1. PICK f : IsShl(f, MaxRestarts)
    BY ShlUpTo
<1>2. Unfolds(f)
    BY <1>1 DEF IsShl
<1>3. Shl = CHOOSE g : Unfolds(g)
    BY DEF Shl
<1>4. Unfolds(Shl)
    <2> HIDE DEF Unfolds
    <2> QED BY <1>2, <1>3
<1>5. ASSUME NEW n \in 0 .. MaxRestarts PROVE Shl[n] \in Nat
    <2> DEFINE T == {m \in 0 .. MaxRestarts : Shl[m] \notin Nat}
    <2> SUFFICES ASSUME T # {} PROVE FALSE
        OBVIOUS
    <2>1. PICK m \in T : \A k \in T : m <= k
        <3>1. T \in SUBSET Nat
            OBVIOUS
        <3> HIDE DEF T
        <3> QED BY <3>1, LeastElement
    <2>2. Shl[m] = IF m = 0 THEN 1 ELSE 2 * Shl[m - 1]
        BY <1>4
    <2>3. m # 0 => m - 1 \in 0 .. MaxRestarts /\ m - 1 \notin T
        BY <2>1
    <2> QED BY <2>2, <2>3
<1> QED BY <1>4, <1>5

LEMMA ShlPositive ==
    ASSUME NEW n \in 0 .. MaxRestarts
    PROVE  Shl[n] \in Nat
PROOF BY ShlValues

(* A later restart waits at least as long as an earlier one. *)
LEMMA ShlMonotone ==
    ASSUME NEW n \in 0 .. MaxRestarts, NEW m \in 0 .. n
    PROVE  Shl[m] <= Shl[n]
PROOF
<1> DEFINE T == {j \in m .. MaxRestarts : ~ (Shl[m] <= Shl[j])}
<1>0. n \in m .. MaxRestarts
    OBVIOUS
<1> SUFFICES ASSUME T # {} PROVE FALSE
    BY <1>0, Zenon
<1>1. PICK j \in T : \A k \in T : j <= k
    <2>1. T \in SUBSET Nat
        OBVIOUS
    <2> HIDE DEF T
    <2> QED BY <2>1, LeastElement
<1>2. Shl[m] \in Nat /\ Shl[j] \in Nat
    BY ShlValues
<1>3. j # m
    BY <1>2
<1>4. j - 1 \in m .. MaxRestarts /\ j - 1 \notin T /\ j \in 1 .. MaxRestarts
    BY <1>1, <1>3
<1>5. Shl[j] = 2 * Shl[j - 1] /\ Shl[j - 1] \in Nat
    BY <1>4, ShlValues
<1> QED BY <1>2, <1>4, <1>5

-----------------------------------------------------------------------------
(* The pruned history. *)

Ordered(rs) == \A j, k \in 1 .. Len(rs) : j < k => rs[j] >= rs[k]

Spaced(rs) ==
    \A k \in 1 .. Len(rs) - 1 :
        rs[k] < Window => rs[k] - rs[k + 1] >= Shl[k - 1]

(* Where a history in order splits. *)
LEMMA ExpiredSplits ==
    ASSUME NEW rs \in Seq(Ages), Ordered(rs)
    PROVE  /\ Expired(rs) \in 0 .. Len(rs)
           /\ \A k \in 1 .. Len(rs) : rs[k] < Window <=> k > Expired(rs)
PROOF
<1> DEFINE Splits(n) == \A k \in DOMAIN rs : rs[k] < Window <=> k > n
           Recent == {k \in 1 .. Len(rs) : rs[k] < Window}
<1>0. Len(rs) \in Nat /\ DOMAIN rs = 1 .. Len(rs)
    OBVIOUS
<1>1. \E n \in 0 .. Len(rs) : Splits(n)
    <2>1. CASE Recent = {}
        <3>1. Splits(Len(rs))
            BY <2>1, <1>0
        <3> QED BY <3>1, <1>0
    <2>2. CASE Recent # {}
        <3>1. PICK n \in Recent : \A m \in Recent : n <= m
            <4>1. Recent \in SUBSET Nat
                BY <1>0
            <4> HIDE DEF Recent
            <4> QED BY <4>1, <2>2, LeastElement
        <3>2. ASSUME NEW k \in 1 .. Len(rs) PROVE rs[k] < Window <=> k > n - 1
            <4>0. rs[k] \in Int /\ rs[n] \in Int /\ Window \in Int
                BY <1>0 DEF Ages
            <4>1. CASE k < n
                <5>1. k \notin Recent
                    BY <4>1, <3>1, <1>0
                <5> QED BY <5>1, <4>1, <1>0
            <4>2. CASE k = n
                BY <4>2, <3>1, <1>0
            <4>3. CASE k > n
                <5>1. rs[n] >= rs[k]
                    BY <4>3, <3>1, <1>0 DEF Ordered
                <5>2. rs[n] < Window
                    BY <3>1
                <5> QED BY <5>1, <5>2, <4>0, <4>3, <1>0
            <4> QED BY <4>1, <4>2, <4>3, <1>0
        <3>3. Splits(n - 1)
            BY <3>2, <1>0
        <3> QED BY <3>3, <1>0
    <2> QED BY <2>1, <2>2
<1>2. Expired(rs) = CHOOSE n \in 0 .. Len(rs) : Splits(n)
    BY DEF Expired
<1>3. Expired(rs) \in 0 .. Len(rs) /\ Splits(Expired(rs))
    <2> HIDE DEF Splits
    <2> QED BY <1>1, <1>2
<1> QED BY <1>3, <1>0

(* Pruning keeps the order and the spacing, and keeps only what is in the *)
(* window.                                                                *)
LEMMA PrunedHistory ==
    ASSUME NEW b, b.restarts \in Seq(Ages), Len(b.restarts) <= MaxRestarts,
           Ordered(b.restarts), Spaced(b.restarts)
    PROVE  /\ InWindow(b) \in Seq(Ages)
           /\ Len(InWindow(b)) <= Len(b.restarts)
           /\ \A k \in 1 .. Len(InWindow(b)) : InWindow(b)[k] < Window
           /\ Ordered(InWindow(b)) /\ Spaced(InWindow(b))
PROOF
<1> DEFINE rs == b.restarts
           x  == Expired(rs)
           ws == InWindow(b)
<1>0. Len(rs) \in Nat /\ \A k \in 1 .. Len(rs) : rs[k] \in Ages
    OBVIOUS
<1>1. x \in 0 .. Len(rs) /\ \A k \in 1 .. Len(rs) : rs[k] < Window <=> k > x
    BY ExpiredSplits
<1> HIDE DEF x
<1>2. ws = SubSeq(rs, x + 1, Len(rs))
    BY DEF InWindow, x
<1> HIDE DEF rs, ws
<1>3. /\ ws \in Seq(Ages)
      /\ Len(ws) = Len(rs) - x
      /\ \A k \in 1 .. Len(ws) : ws[k] = rs[k + x]
    <2>1. \A i \in x + 1 .. Len(rs) : rs[i] \in Ages
        BY <1>0, <1>1
    <2>2. x + 1 \in Int /\ Len(rs) \in Int
        BY <1>0, <1>1
    <2>3. /\ SubSeq(rs, x + 1, Len(rs)) \in Seq(Ages)
          /\ Len(SubSeq(rs, x + 1, Len(rs))) = IF x + 1 <= Len(rs) THEN Len(rs) - (x + 1) + 1 ELSE 0
          /\ \A i \in 1 .. Len(rs) - (x + 1) + 1 : SubSeq(rs, x + 1, Len(rs))[i] = rs[x + 1 + i - 1]
        BY <2>1, <2>2, SubSeqProperties
    <2>4. Len(ws) = Len(rs) - x
        BY <2>3, <1>0, <1>1, <1>2
    <2>5. ASSUME NEW k \in 1 .. Len(ws) PROVE ws[k] = rs[k + x]
        <3>1. k \in 1 .. Len(rs) - (x + 1) + 1 /\ x + 1 + k - 1 = k + x
            BY <2>4, <1>0, <1>1
        <3> QED BY <3>1, <2>3, <1>2
    <2> QED BY <2>3, <2>4, <2>5, <1>2
<1>4. \A k \in 1 .. Len(ws) : k + x \in 1 .. Len(rs) /\ k + x > x /\ ws[k] \in Int
    BY <1>0, <1>1, <1>3 DEF Ages
<1>5. \A k \in 1 .. Len(ws) : ws[k] < Window
    BY <1>1, <1>3, <1>4
<1>6. Ordered(ws)
    <2> SUFFICES ASSUME NEW j \in 1 .. Len(ws), NEW k \in 1 .. Len(ws), j < k
                 PROVE  ws[j] >= ws[k]
        BY DEF Ordered
    <2>1. j + x < k + x
        BY <1>0, <1>1, <1>3
    <2> QED BY <2>1, <1>3, <1>4 DEF Ordered, rs
<1>7. Spaced(ws)
    <2> SUFFICES ASSUME NEW k \in 1 .. Len(ws) - 1 PROVE ws[k] - ws[k + 1] >= Shl[k - 1]
        BY DEF Spaced
    <2>1. /\ k \in 1 .. Len(ws) /\ k + 1 \in 1 .. Len(ws)
          /\ k + x \in 1 .. Len(rs) - 1 /\ (k + x) + 1 = (k + 1) + x
        BY <1>0, <1>1, <1>3
    <2>2. ws[k] = rs[k + x] /\ ws[k + 1] = rs[(k + x) + 1] /\ rs[k + x] < Window
        BY <2>1, <1>3, <1>5
    <2>3. rs[k + x] - rs[(k + x) + 1] >= Shl[(k + x) - 1]
        BY <2>1, <2>2 DEF Spaced, rs
    <2>4. k - 1 \in 0 .. (k + x) - 1 /\ (k + x) - 1 \in 0 .. MaxRestarts
        BY <2>1, <1>0, <1>1 DEF rs
    <2>5. Shl[k - 1] <= Shl[(k + x) - 1] /\ Shl[k - 1] \in Nat /\ Shl[(k + x) - 1] \in Nat
        <3>1. k - 1 \in 0 .. MaxRestarts
            BY <2>4
        <3> QED BY <2>4, <3>1, ShlMonotone, ShlPositive
    <2>6. ws[k] \in Int /\ ws[k + 1] \in Int
        BY <2>1, <1>4
    <2> QED BY <2>2, <2>3, <2>5, <2>6
<1>8. Len(ws) <= Len(rs)
    BY <1>0, <1>1, <1>3
<1> QED BY <1>3, <1>5, <1>6, <1>7, <1>8 DEF rs, ws

-----------------------------------------------------------------------------
(* The inductive invariant. *)

Inv == TypeOK /\ OldestFirst /\ RestartsAreSpaced

(* What the steps on the budget need of a budget, as a state predicate on  *)
(* its value.                                                              *)
Sound(b) ==
    /\ b \in [everAlive : BOOLEAN, restarts : Seq(Ages), gaveUp : BOOLEAN]
    /\ Len(b.restarts) <= MaxRestarts
    /\ Ordered(b.restarts) /\ Spaced(b.restarts)

LEMMA EmptyHistory == <<>> \in Seq(Ages) /\ Len(<<>>) <= MaxRestarts /\ Ordered(<<>>) /\ Spaced(<<>>)
PROOF BY DEF Ordered, Spaced

LEMMA FreshIsSound == Sound(Fresh) /\ Sound(Rearmed)
PROOF
<1>1. Fresh.restarts = <<>> /\ Rearmed.restarts = <<>>
    BY DEF Fresh, Rearmed
<1>2. /\ Fresh \in [everAlive : BOOLEAN, restarts : Seq(Ages), gaveUp : BOOLEAN]
      /\ Rearmed \in [everAlive : BOOLEAN, restarts : Seq(Ages), gaveUp : BOOLEAN]
    BY EmptyHistory DEF Fresh, Rearmed
<1>3. ASSUME NEW b \in [everAlive : BOOLEAN, restarts : Seq(Ages), gaveUp : BOOLEAN],
             b.restarts = <<>>
      PROVE  Sound(b)
    BY <1>3, EmptyHistory, Zenon DEF Sound
<1> QED BY <1>1, <1>2, <1>3

LEMMA SightedIsSound ==
    ASSUME NEW b, Sound(b)
    PROVE  Sound(Sighted(b)) /\ ~Sighted(b).gaveUp
PROOF
<1>1. CASE Forgets(b)
    BY <1>1, FreshIsSound DEF Sighted, Rearmed, Fresh
<1>2. CASE ~Forgets(b)
    <2>1. Sighted(b) = [b EXCEPT !.everAlive = TRUE, !.gaveUp = FALSE]
        BY <1>2 DEF Sighted
    <2>2. /\ Sighted(b).restarts = b.restarts
          /\ Sighted(b).gaveUp = FALSE
          /\ Sighted(b) \in [everAlive : BOOLEAN, restarts : Seq(Ages), gaveUp : BOOLEAN]
        BY <2>1 DEF Sound
    <2> QED BY <2>2 DEF Sound
<1> QED BY <1>1, <1>2

(* The backoffs of a history inside the window add up. *)
LEMMA BackoffsAddUp ==
    ASSUME NEW rs \in Seq(Ages), Len(rs) <= MaxRestarts, Spaced(rs),
           \A k \in 1 .. Len(rs) : rs[k] < Window
    PROVE  \A k \in 1 .. Len(rs) : rs[1] - rs[k] >= Shl[k - 1] - 1
PROOF
<1> DEFINE T == {k \in 1 .. Len(rs) : ~ (rs[1] - rs[k] >= Shl[k - 1] - 1)}
<1>0. Len(rs) \in Nat /\ \A k \in 1 .. Len(rs) : rs[k] \in Int
    BY DEF Ages
<1> SUFFICES ASSUME T # {} PROVE FALSE
    OBVIOUS
<1>1. PICK k \in T : \A m \in T : k <= m
    <2>1. T \in SUBSET Nat
        BY <1>0
    <2> HIDE DEF T
    <2> QED BY <2>1, LeastElement
<1>2. k \in 1 .. Len(rs) /\ ~ (rs[1] - rs[k] >= Shl[k - 1] - 1)
    OBVIOUS
<1>3. k # 1
    <2>1. 1 - 1 = 0 /\ Shl[0] = 1
        BY ShlValues
    <2> QED BY <1>0, <1>2, <2>1
<1>4. /\ k - 1 \in 1 .. Len(rs) - 1 /\ (k - 1) + 1 = k /\ (k - 1) - 1 = k - 2
      /\ k - 1 \in 1 .. MaxRestarts /\ k - 1 \in 1 .. Len(rs)
    BY <1>0, <1>2, <1>3
<1>5. rs[1] - rs[k - 1] >= Shl[k - 2] - 1
    BY <1>0, <1>1, <1>4
<1>6. rs[k - 1] - rs[k] >= Shl[k - 2]
    BY <1>4 DEF Spaced
<1>7. Shl[k - 1] = 2 * Shl[k - 2] /\ Shl[k - 2] \in Nat
    <2>1. k - 2 \in 0 .. MaxRestarts
        BY <1>4
    <2> QED BY <2>1, <1>4, ShlValues
<1>8. rs[1] \in Int /\ rs[k] \in Int /\ rs[k - 1] \in Int
    BY <1>0, <1>2, <1>4
<1>9. ASSUME NEW x \in Int, NEW y \in Int, NEW z \in Int, NEW w \in Nat,
             x - y >= w - 1, y - z >= w
      PROVE  x - z >= 2 * w - 1
    BY <1>9
<1> HIDE DEF T
<1>10. rs[1] - rs[k] >= 2 * Shl[k - 2] - 1
    BY <1>5, <1>6, <1>7, <1>8, <1>9
<1> QED BY <1>2, <1>7, <1>10, Zenon

(* A restart is pushed once the backoff is over. *)
LEMMA PushedHistory ==
    ASSUME NEW rs \in Seq(Ages), Len(rs) < MaxRestarts,
           Ordered(rs), Spaced(rs), ~BacksOff(rs)
    PROVE  /\ Append(rs, 0) \in Seq(Ages)
           /\ Len(Append(rs, 0)) <= MaxRestarts
           /\ Ordered(Append(rs, 0)) /\ Spaced(Append(rs, 0))
PROOF
<1> DEFINE ws == Append(rs, 0)
<1>1. /\ Len(rs) \in Nat
      /\ Len(ws) = Len(rs) + 1
      /\ \A k \in 1 .. Len(rs) : ws[k] = rs[k] /\ rs[k] \in Ages
      /\ ws[Len(rs) + 1] = 0
      /\ 0 \in Ages
      /\ ws \in Seq(Ages)
    BY DEF Ages
<1>2. Len(ws) <= MaxRestarts
    BY <1>1
<1>3. Ordered(ws)
    <2> SUFFICES ASSUME NEW j \in 1 .. Len(ws), NEW k \in 1 .. Len(ws), j < k
                 PROVE  ws[j] >= ws[k]
        BY DEF Ordered
    <2>1. j \in 1 .. Len(rs)
        BY <1>1
    <2>2. CASE k = Len(rs) + 1
        BY <2>1, <2>2, <1>1 DEF Ages
    <2>3. CASE k # Len(rs) + 1
        <3>1. k \in 1 .. Len(rs)
            BY <2>3, <1>1
        <3> QED BY <2>1, <3>1, <1>1 DEF Ordered
    <2> QED BY <2>2, <2>3
<1>4. Spaced(ws)
    <2> SUFFICES ASSUME NEW k \in 1 .. Len(ws) - 1, ws[k] < Window
                 PROVE  ws[k] - ws[k + 1] >= Shl[k - 1]
        BY DEF Spaced
    <2>1. k \in 1 .. Len(rs) /\ ws[k] = rs[k] /\ rs[k] \in Int
        BY <1>1 DEF Ages
    <2>2. CASE k = Len(rs)
        <3>1. rs # <<>> /\ Last(rs) = rs[k]
            BY <2>1, <2>2, <1>1 DEF Last
        <3>2. ~ (rs[k] < Shl[k - 1])
            BY <3>1, <2>2 DEF BacksOff, Backoff
        <3>3. Shl[k - 1] \in Nat
            BY <2>1, <1>1, ShlPositive
        <3> QED BY <3>2, <3>3, <2>1, <2>2, <1>1
    <2>3. CASE k # Len(rs)
        <3>1. k \in 1 .. Len(rs) - 1 /\ ws[k + 1] = rs[k + 1]
            BY <2>1, <2>3, <1>1
        <3> QED BY <3>1, <2>1 DEF Spaced
    <2> QED BY <2>2, <2>3
<1> HIDE DEF ws
<1>5. Append(rs, 0) = ws
    BY DEF ws
<1> QED BY <1>1, <1>2, <1>3, <1>4, <1>5

(* A budget spent: as many restarts as the cap inside one window, and the  *)
(* backoffs between them waited out.                                       *)
Spent(b) ==
    /\ Len(b.restarts) = MaxRestarts
    /\ \A k \in 1 .. MaxRestarts : b.restarts[k] < Window
    /\ b.restarts[1] >= Shl[MaxRestarts - 1] - 1

(* The verdict on a dead pane keeps a budget sound, and gives up only with *)
(* the budget spent.                                                       *)
LEMMA VerdictIsSound ==
    ASSUME NEW b, Sound(b), NEW work \in BOOLEAN, NEW deliberate \in BOOLEAN
    PROVE  /\ Sound(Verdict(b, work, deliberate).next)
           /\ ~b.gaveUp /\ Verdict(b, work, deliberate).next.gaveUp =>
                  Spent(Verdict(b, work, deliberate).next)
PROOF
<1> DEFINE rs == InWindow(b)
           n  == Verdict(b, work, deliberate).next
<1>0. /\ b \in [everAlive : BOOLEAN, restarts : Seq(Ages), gaveUp : BOOLEAN]
      /\ Len(b.restarts) <= MaxRestarts
      /\ Ordered(b.restarts) /\ Spaced(b.restarts)
    BY DEF Sound
<1>1. /\ rs \in Seq(Ages) /\ Len(rs) \in Nat
      /\ Len(rs) <= MaxRestarts
      /\ \A k \in 1 .. Len(rs) : rs[k] < Window
      /\ Ordered(rs) /\ Spaced(rs)
    BY <1>0, PrunedHistory
<1> HIDE DEF rs
<1> SUFFICES Sound(n) /\ (~b.gaveUp /\ n.gaveUp => Spent(n))
    OBVIOUS
<1>2. CASE ~b.everAlive
    <2>1. n = b
        BY <1>2 DEF Verdict
    <2> QED BY <2>1
<1>3. CASE b.everAlive /\ (~work \/ deliberate)
    <2>1. n = Fresh
        BY <1>3 DEF Verdict
    <2>2. Fresh.gaveUp = FALSE
        BY DEF Fresh
    <2> QED BY <2>1, <2>2, FreshIsSound
<1>4. CASE b.everAlive /\ work /\ ~deliberate /\ b.gaveUp
    <2>1. n = b
        BY <1>4 DEF Verdict
    <2> QED BY <2>1
<1>5. CASE b.everAlive /\ work /\ ~deliberate /\ ~b.gaveUp /\ Capped(rs)
    <2>1. n = [b EXCEPT !.restarts = rs, !.gaveUp = TRUE]
        BY <1>5 DEF Verdict, rs
    <2>2. /\ n.restarts = rs
          /\ n \in [everAlive : BOOLEAN, restarts : Seq(Ages), gaveUp : BOOLEAN]
        BY <2>1, <1>0, <1>1
    <2>3. Len(rs) = MaxRestarts
        BY <1>5, <1>1 DEF Capped
    <2>4. MaxRestarts \in 1 .. Len(rs) /\ \A k \in 1 .. Len(rs) : rs[k] \in Int
        BY <2>3, <1>1 DEF Ages
    <2>5. rs[1] - rs[MaxRestarts] >= Shl[MaxRestarts - 1] - 1
        BY <2>4, <1>1, BackoffsAddUp
    <2>6. rs[1] >= Shl[MaxRestarts - 1] - 1
        <3>1. Shl[MaxRestarts - 1] \in Nat
            BY ShlPositive
        <3>2. rs[1] \in Int /\ rs[MaxRestarts] \in Nat
            BY <2>4, <1>1 DEF Ages
        <3> QED BY <2>5, <3>1, <3>2
    <2>7. Sound(n)
        BY <2>2, <1>1 DEF Sound
    <2>8. Spent(n)
        BY <2>2, <2>3, <2>6, <1>1 DEF Spent
    <2> QED BY <2>7, <2>8
<1>6. CASE b.everAlive /\ work /\ ~deliberate /\ ~b.gaveUp /\ ~Capped(rs) /\ BacksOff(rs)
    <2>1. n = [b EXCEPT !.restarts = rs]
        BY <1>6 DEF Verdict, rs
    <2>2. /\ n.restarts = rs /\ n.gaveUp = b.gaveUp
          /\ n \in [everAlive : BOOLEAN, restarts : Seq(Ages), gaveUp : BOOLEAN]
        BY <2>1, <1>0, <1>1
    <2> QED BY <2>2, <1>1, <1>6 DEF Sound
<1>7. CASE b.everAlive /\ work /\ ~deliberate /\ ~b.gaveUp /\ ~Capped(rs) /\ ~BacksOff(rs)
    <2>1. n = [b EXCEPT !.restarts = Append(rs, 0)]
        BY <1>7 DEF Verdict, rs
    <2>2. Len(rs) < MaxRestarts
        BY <1>7, <1>1 DEF Capped
    <2>3. /\ Append(rs, 0) \in Seq(Ages)
          /\ Len(Append(rs, 0)) <= MaxRestarts
          /\ Ordered(Append(rs, 0)) /\ Spaced(Append(rs, 0))
        BY <2>2, <1>1, <1>7, PushedHistory
    <2>4. /\ n.restarts = Append(rs, 0) /\ n.gaveUp = b.gaveUp
          /\ n \in [everAlive : BOOLEAN, restarts : Seq(Ages), gaveUp : BOOLEAN]
        BY <2>1, <2>3, <1>0
    <2> QED BY <2>3, <2>4, <1>7 DEF Sound
<1>8. b.everAlive \in BOOLEAN /\ b.gaveUp \in BOOLEAN
    BY <1>0
<1> QED BY <1>2, <1>3, <1>4, <1>5, <1>6, <1>7, <1>8

(* Time passes for every entry alike, and stops at the window's end. *)
LEMMA OlderHistory ==
    ASSUME NEW rs \in Seq(Ages), Ordered(rs), Spaced(rs)
    PROVE  /\ [k \in DOMAIN rs |-> Older(rs[k])] \in Seq(Ages)
           /\ Len([k \in DOMAIN rs |-> Older(rs[k])]) = Len(rs)
           /\ Ordered([k \in DOMAIN rs |-> Older(rs[k])])
           /\ Spaced([k \in DOMAIN rs |-> Older(rs[k])])
PROOF
<1> DEFINE ws == [k \in DOMAIN rs |-> Older(rs[k])]
<1>1. /\ Len(rs) \in Nat /\ DOMAIN rs = 1 .. Len(rs)
      /\ \A k \in 1 .. Len(rs) : rs[k] \in Ages
    OBVIOUS
<1>2. \A age \in Ages : Older(age) \in Ages
    BY DEF Older, Ages
<1>3. ws \in Seq(Ages) /\ Len(ws) = Len(rs)
    <2>1. ws \in [1 .. Len(rs) -> Ages]
        BY <1>1, <1>2
    <2> HIDE DEF ws
    <2> QED BY <2>1, <1>1
<1>4. \A k \in 1 .. Len(rs) : ws[k] = Older(rs[k])
    BY <1>1
<1> HIDE DEF ws
<1>5. Ordered(ws)
    <2> SUFFICES ASSUME NEW j \in 1 .. Len(rs), NEW k \in 1 .. Len(rs), j < k
                 PROVE  ws[j] >= ws[k]
        BY <1>3 DEF Ordered
    <2>1. rs[j] >= rs[k] /\ rs[j] \in Ages /\ rs[k] \in Ages
        BY <1>1 DEF Ordered
    <2> QED BY <2>1, <1>4 DEF Older, Ages
<1>6. Spaced(ws)
    <2> SUFFICES ASSUME NEW k \in 1 .. Len(rs) - 1, ws[k] < Window
                 PROVE  ws[k] - ws[k + 1] >= Shl[k - 1]
        BY <1>3 DEF Spaced
    <2>1. k \in 1 .. Len(rs) /\ k + 1 \in 1 .. Len(rs)
        BY <1>1
    <2>2. rs[k] \in Ages /\ rs[k + 1] \in Ages /\ rs[k] >= rs[k + 1]
        BY <2>1, <1>1 DEF Ordered
    <2>3. rs[k] < Window /\ rs[k + 1] < Window
        BY <2>1, <2>2, <1>4 DEF Older, Ages
    <2>4. ws[k] - ws[k + 1] = rs[k] - rs[k + 1]
        BY <2>1, <2>2, <2>3, <1>4 DEF Older, Ages
    <2> QED BY <2>3, <2>4 DEF Spaced
<1>7. [k \in DOMAIN rs |-> Older(rs[k])] = ws
    BY DEF ws
<1> QED BY <1>3, <1>5, <1>6, <1>7

-----------------------------------------------------------------------------
(* The steps. *)

LEMMA InitInv == Init => Inv
PROOF
<1> SUFFICES ASSUME Init PROVE Inv
    OBVIOUS
<1>1. TypeOK
    BY FreshIsSound DEF Init, TypeOK, Sound, Absent
<1>2. budget.restarts = <<>>
    BY DEF Init, Fresh
<1> QED BY <1>1, <1>2 DEF Inv, OldestFirst, RestartsAreSpaced

(* The part of the type invariant the budget has no part in. *)
Surroundings ==
    /\ pane \in {"up", "exiting", "down"}
    /\ ended \in {"crash", "deliberate", "redispatch"}
    /\ onIndex \in BOOLEAN /\ onTask \in BOOLEAN
    /\ marker \in Ages \cup {Absent}
    /\ seen \in {"nothing", "alive", "dead", "relaunching", "starting"}

LEMMA InvIsSplit == Inv <=> Surroundings /\ Sound(budget)
PROOF BY DEF Inv, TypeOK, OldestFirst, RestartsAreSpaced, Sound, Ordered, Spaced, Surroundings

(* What a step does to the budget: it keeps it sound, and latches a        *)
(* give-up only when the budget is spent.                                  *)
BudgetMoves ==
    /\ Sound(budget')
    /\ ~budget.gaveUp /\ budget'.gaveUp => Spent(budget')

LEMMA RespawnedSurroundings ==
    ASSUME Surroundings, Respawned
    PROVE  pane' \in {"up", "exiting", "down"} /\ ended' \in {"crash", "deliberate", "redispatch"}
PROOF BY DEF Surroundings, Respawned

LEMMA StepSurroundings ==
    ASSUME Surroundings, [Next]_vars
    PROVE  Surroundings'
PROOF
<1> USE DEF Surroundings
<1>0. 0 \in Ages /\ Absent \in Ages \cup {Absent}
    BY DEF Ages
<1>1. CASE Look
    BY <1>1 DEF Look
<1>2. CASE SeenAlive
    BY <1>2, <1>0 DEF SeenAlive
<1>3. CASE SeenExiting
    BY <1>3 DEF SeenExiting
<1>4. CASE ResumeReopened
    <2>1. pane' \in {"up", "exiting", "down"} /\ ended' \in {"crash", "deliberate", "redispatch"}
        BY <1>4, RespawnedSurroundings DEF ResumeReopened
    <2> QED BY <2>1, <1>4, <1>0 DEF ResumeReopened
<1>5. CASE DecideDead
    <2>1. seen' \in {"relaunching", "nothing"}
        BY <1>5 DEF DecideDead
    <2> QED BY <2>1, <1>5, <1>0 DEF DecideDead
<1>6. CASE RedispatchSuperseded
    BY <1>6 DEF RedispatchSuperseded
<1>7. CASE Redispatch
    BY <1>7 DEF Redispatch
<1>8. CASE RelaunchEnds
    <2>1. pane' \in {"up", "exiting", "down"} /\ ended' \in {"crash", "deliberate", "redispatch"}
        BY <1>8, RespawnedSurroundings DEF RelaunchEnds
    <2> QED BY <2>1, <1>8 DEF RelaunchEnds
<1>9. CASE Crash \/ Recorded \/ EndOnPurpose
    BY <1>9 DEF Crash, Dies, Recorded, EndOnPurpose, EndedOnPurpose
<1>10. CASE Dispatch \/ TaskMovesOn \/ IndexCatchesUp
    BY <1>10 DEF Dispatch, TaskMovesOn, IndexCatchesUp
<1>11. CASE Reopen
    BY <1>11, <1>0 DEF Reopen
<1>12. CASE TimePasses
    <2>1. Older(marker) \in Ages \cup {Absent}
        BY DEF Older, Ages, Absent
    <2> QED BY <2>1, <1>12 DEF TimePasses
<1>13. CASE UNCHANGED vars
    BY <1>13 DEF vars
<1> QED BY <1>1, <1>2, <1>3, <1>4, <1>5, <1>6, <1>7, <1>8, <1>9, <1>10, <1>11, <1>12, <1>13
       DEF Next, Pass

LEMMA StepBudget ==
    ASSUME Inv, [Next]_vars
    PROVE  BudgetMoves
PROOF
<1>0. Surroundings /\ Sound(budget)
    BY InvIsSplit
<1> SUFFICES Sound(budget') /\ (~budget.gaveUp /\ budget'.gaveUp => Spent(budget'))
    BY DEF BudgetMoves
<1>1. Fresh.gaveUp = FALSE /\ Rearmed.gaveUp = FALSE
    BY DEF Fresh, Rearmed
<1>2. CASE UNCHANGED budget
    <2>1. budget' = budget
        BY <1>2
    <2> QED BY <2>1, <1>0
<1>3. CASE SeenAlive
    <2>1. budget' = Sighted(budget)
        BY <1>3 DEF SeenAlive
    <2> QED BY <2>1, <1>0, SightedIsSound
<1>4. CASE ResumeReopened
    <2>1. budget' = Rearmed
        BY <1>4 DEF ResumeReopened
    <2> QED BY <2>1, <1>1, FreshIsSound
<1>5. CASE DecideDead
    <2> DEFINE armed == IF Reopened THEN Rearmed ELSE budget
    <2>1. budget' = Verdict(armed, onIndex, ReadsDeliberate).next
        BY <1>5 DEF DecideDead
    <2>2. Sound(armed)
        BY <1>0, FreshIsSound
    <2>3. onIndex \in BOOLEAN /\ ReadsDeliberate \in BOOLEAN
        BY <1>0 DEF Surroundings, ReadsDeliberate
    <2>4. ~budget.gaveUp => ~armed.gaveUp
        BY <1>1
    <2> HIDE DEF armed
    <2>5. /\ Sound(budget')
          /\ ~armed.gaveUp /\ budget'.gaveUp => Spent(budget')
        BY <2>1, <2>2, <2>3, VerdictIsSound
    <2> QED BY <2>4, <2>5
<1>6. CASE RedispatchSuperseded
    <2>1. budget' = Fresh
        BY <1>6 DEF RedispatchSuperseded
    <2> QED BY <2>1, <1>1, FreshIsSound
<1>7. CASE TimePasses
    <2> DEFINE older == [k \in DOMAIN budget.restarts |-> Older(budget.restarts[k])]
    <2>1. budget' = [budget EXCEPT !.restarts = older]
        BY <1>7 DEF TimePasses
    <2>2. /\ budget \in [everAlive : BOOLEAN, restarts : Seq(Ages), gaveUp : BOOLEAN]
          /\ Len(budget.restarts) <= MaxRestarts
          /\ Ordered(budget.restarts) /\ Spaced(budget.restarts)
        BY <1>0 DEF Sound
    <2>3. older \in Seq(Ages) /\ Len(older) = Len(budget.restarts) /\ Ordered(older) /\ Spaced(older)
        BY <2>2, OlderHistory
    <2> HIDE DEF older
    <2>4. /\ budget'.restarts = older /\ budget'.gaveUp = budget.gaveUp
          /\ budget' \in [everAlive : BOOLEAN, restarts : Seq(Ages), gaveUp : BOOLEAN]
        BY <2>1, <2>2, <2>3
    <2> QED BY <2>2, <2>3, <2>4 DEF Sound
<1>8. \/ UNCHANGED budget \/ SeenAlive \/ ResumeReopened
      \/ DecideDead \/ RedispatchSuperseded \/ TimePasses
    BY DEF Next, Pass, vars, Look, SeenExiting, Redispatch, RelaunchEnds, Crash, Recorded,
           EndOnPurpose, Dispatch, TaskMovesOn, IndexCatchesUp, Reopen
<1> QED BY <1>2, <1>3, <1>4, <1>5, <1>6, <1>7, <1>8

LEMMA StepInv == Inv /\ [Next]_vars => Inv'
PROOF
<1> SUFFICES ASSUME Inv, [Next]_vars PROVE Inv'
    OBVIOUS
<1>1. Surroundings'
    BY InvIsSplit, StepSurroundings
<1>2. Sound(budget')
    BY StepBudget DEF BudgetMoves
<1>3. (Surroundings /\ Sound(budget) => Inv)'
    BY InvIsSplit, PTL
<1> QED BY <1>1, <1>2, <1>3

(* The invariant, which the theorems below read off. *)
LEMMA Invariance == Spec => []Inv
PROOF BY InitInv, StepInv, PTL DEF Spec

-----------------------------------------------------------------------------
(* The budget is well formed and never holds more restarts than the cap    *)
(* (decide, supervision.rs).                                               *)
THEOREM TypeCorrect == Spec => []TypeOK
PROOF
<1>1. Inv => TypeOK
    BY DEF Inv
<1> QED BY Invariance, <1>1, PTL

(* The history stays oldest first, which is what lets the pruning drop a   *)
(* prefix and the backoff look at the last entry only.                     *)
THEOREM HistoryIsOldestFirst == Spec => []OldestFirst
PROOF
<1>1. Inv => OldestFirst
    BY DEF Inv
<1> QED BY Invariance, <1>1, PTL

(* Successive restarts in a window are spaced exponentially, whatever is   *)
(* pruned, sighted, reopened or fails in between.                          *)
THEOREM RestartSpacing == Spec => []RestartsAreSpaced
PROOF
<1>1. Inv => RestartsAreSpaced
    BY DEF Inv
<1> QED BY Invariance, <1>1, PTL

(* A give-up has spent the whole budget inside one window, and has waited  *)
(* out the sum of its backoffs.                                            *)
THEOREM GiveUpIsEarned == Spec => GiveUpSpentTheBudget
PROOF
<1>1. ASSUME Inv, [Next]_vars
      PROVE  [~budget.gaveUp /\ budget'.gaveUp =>
                 /\ Len(budget'.restarts) = MaxRestarts
                 /\ \A k \in 1 .. MaxRestarts : budget'.restarts[k] < Window
                 /\ budget'.restarts[1] >= Shl[MaxRestarts - 1] - 1]_vars
    BY <1>1, StepBudget DEF BudgetMoves, Spent
<1> QED BY Invariance, <1>1, PTL DEF Spec, GiveUpSpentTheBudget
=============================================================================
