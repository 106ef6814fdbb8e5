------------------------------- MODULE HashMap -------------------------------
(***************************************************************************)
(* The open-addressing hash map generated by include/peg4c/hash_map.h, with *)
(* the prime capacities of src/hash_utils.c.                                *)
(*                                                                          *)
(* A bin holds NULL, the sentinel HASH_PAIR_REMOVED, or a pair.  Keys are   *)
(* model values with a hash each; comparison is equality.  Allocation may   *)
(* fail at any call, and fails above AllocLimit bins.                       *)
(***************************************************************************)
EXTENDS Integers, FiniteSets, FiniteSetsExt

CONSTANTS
    Keys, Values,
    NoValue,     \* not a value
    Hash,        \* HASH_FUNC before it is reduced modulo the capacity
    InitCaps,    \* capacities the map may be initialised with
    AllocLimit   \* most bins calloc can provide

ASSUME MapAssumption ==
    /\ Hash \in [Keys -> Nat]
    /\ InitCaps \subseteq Nat \ {0}
    /\ AllocLimit \in Nat
    /\ NoValue \notin Values

NullBin == [kind |-> "null"]
HASH_PAIR_REMOVED == [kind |-> "removed"]
Pair(k, v) == [kind |-> "pair", key |-> k, value |-> v]

VARIABLES
    phase,     \* "fresh", "live", "broken" (bins is NULL), "undefined" or "gone"
    bins,      \* the bins of a live map, a function on 0 .. capacity - 1
    capacity,
    fill,
    ret        \* what the last call returned

vars == <<phase, bins, capacity, fill, ret>>

Init ==
    /\ phase = "fresh"
    /\ bins = << >>
    /\ capacity = 0
    /\ fill = 0
    /\ ret = "HM_SUCCESS"

-----------------------------------------------------------------------------
(* Prime capacities *)

\* The divisors tried are 3 and then each i + 1 while x / i >= i.
is_prime(x) ==
    \/ x \in {2, 3}
    \/ /\ x >= 2
       /\ x % 2 = 1
       /\ \A i \in 3 .. x - 1 : (i = 3 \/ x \div (i - 1) >= i - 1) => x % i # 0

\* Defect: the first candidate is tried even if it is below x.
FirstFromBelow(x) == IF x % 6 = 0 THEN x + 1 ELSE 6 * (x \div 6) + 1

\* Of 6k + 1 and 6k + 5, the first that is tried for x.
FirstCandidate(x) ==
    CASE x % 6 = 0       -> x + 1
      [] (x + 1) % 6 = 0 -> x + 2
      [] OTHER           -> 6 * (x \div 6) + 5

\* The numbers the loop of next_prime steps through, by turns of two and four.
Candidate == {c \in Nat : c % 6 \in {1, 5}}
NextCandidate(c) == IF c % 6 = 1 THEN c + 4 ELSE c + 2

next_prime(x) ==
    LET from[c \in Candidate] == IF is_prime(c) THEN c ELSE from[NextCandidate(c)]
    IN  CASE x < 2 -> 2
          [] x = 2 -> 3
          [] x = 3 -> 5
          [] OTHER -> from[FirstCandidate(x)]

-----------------------------------------------------------------------------
(* Probing.  Distances from the key's own bin, round the end of the array. *)

Home(k, cap) == Hash[k] % cap
At(b, cap, k, d) == b[(Home(k, cap) + d) % cap]

\* _linear_probe: the distances at which a bin is NULL; removed ones are not.
FreeDistances(b, cap, k) == {d \in 0 .. cap - 1 : At(b, cap, k, d) = NullBin}

\* Defect: a bin that was removed ends the search.
StopsAtRemoved(b, cap, k) ==
    {d \in 0 .. cap - 1 : /\ At(b, cap, k, d).kind = "pair"
                          /\ At(b, cap, k, d).key = k
                          /\ \A e \in 0 .. d : At(b, cap, k, e).kind = "pair"}

\* _get_pair: the distances at which k is found before any NULL bin.
FoundDistances(b, cap, k) ==
    {d \in 0 .. cap - 1 : /\ At(b, cap, k, d).kind = "pair"
                          /\ At(b, cap, k, d).key = k
                          /\ \A e \in 0 .. d : At(b, cap, k, e) # NullBin}

Found(k) == FoundDistances(bins, capacity, k) # {}
BinOf(k) == (Home(k, capacity) + Min(FoundDistances(bins, capacity, k))) % capacity

\* The caller's view of key k.
Lookup(k) == IF capacity > 0 /\ Found(k) THEN bins[BinOf(k)].value ELSE NoValue

\* _insert into bins that have room.
Put(b, cap, pair) ==
    [b EXCEPT ![(Home(pair.key, cap) + Min(FreeDistances(b, cap, pair.key))) % cap] = pair]

-----------------------------------------------------------------------------
(* _resize *)

NewBins(cap) == [i \in 0 .. cap - 1 |-> NullBin]

Pairs(b) == {i \in DOMAIN b : b[i].kind = "pair"}

\* Defect: the pairs keep their places.
CopyInPlace(b, oldCap, cap) == [i \in 0 .. cap - 1 |-> IF i < oldCap THEN b[i] ELSE NullBin]

\* The pairs of b, in the order of their bins, inserted into cap new bins.
Rehash(b, oldCap, cap) ==
    LET upTo[i \in 0 .. oldCap] ==
            IF i = 0 THEN NewBins(cap)
            ELSE IF b[i - 1].kind = "pair" THEN Put(upTo[i - 1], cap, b[i - 1])
            ELSE upTo[i - 1]
    IN  upTo[oldCap]

\* Defect: fill is not reset before the pairs are counted in again.
KeepsCounting(b) == fill + Cardinality(Pairs(b))

FillAfterRehash(b) == Cardinality(Pairs(b))

\* Defect: the map grows only when it is more than full.
GrowsTooLate == fill > capacity

\* HASH_FILL_RESIZE_RATIO is one half.
MustGrow == 2 * fill >= capacity

\* calloc gave no bins: the old ones are lost, the new capacity is recorded.
ResizeFails(cap) ==
    /\ phase' = "broken"
    /\ bins' = << >>
    /\ capacity' = cap
    /\ fill' = 0

-----------------------------------------------------------------------------
(* The operations *)

InitMap(cap) ==
    /\ phase = "fresh"
    /\ \/ /\ cap <= AllocLimit
          /\ phase' = "live"
          /\ bins' = NewBins(cap)
          /\ capacity' = cap
          /\ fill' = 0
          /\ ret' = "HM_SUCCESS"
       \/ /\ ResizeFails(cap)
          /\ ret' = "HM_MALLOC_MAP_FAILURE"

SetExisting(k, v) ==
    /\ Found(k)
    /\ bins' = [bins EXCEPT ![BinOf(k)].value = v]
    /\ ret' = "HM_SUCCESS"
    /\ UNCHANGED <<phase, capacity, fill>>

\* The pool has no pair left.
SetNoPair(k, v) ==
    /\ ~Found(k)
    /\ ret' = "HM_MALLOC_PAIR_FAILURE"
    /\ UNCHANGED <<phase, bins, capacity, fill>>

SetInsert(k, v) ==
    /\ ~Found(k)
    /\ ~MustGrow
    /\ FreeDistances(bins, capacity, k) # {}
    /\ bins' = Put(bins, capacity, Pair(k, v))
    /\ fill' = fill + 1
    /\ ret' = "HM_SUCCESS"
    /\ UNCHANGED <<phase, capacity>>

\* Every bin is taken or was: the probe comes back to where it began.
SetNoBin(k, v) ==
    /\ ~Found(k)
    /\ ~MustGrow
    /\ FreeDistances(bins, capacity, k) = {}
    /\ ret' = "HM_INSERTION_FAILURE"
    /\ UNCHANGED <<phase, bins, capacity, fill>>

SetGrow(k, v) ==
    /\ ~Found(k)
    /\ MustGrow
    /\ LET cap == next_prime(2 * capacity) IN
        \/ /\ cap <= AllocLimit
           /\ bins' = Put(Rehash(bins, capacity, cap), cap, Pair(k, v))
           /\ capacity' = cap
           /\ fill' = FillAfterRehash(bins) + 1
           /\ ret' = "HM_SUCCESS"
           /\ UNCHANGED phase
        \/ /\ ResizeFails(cap)
           /\ ret' = "HM_MALLOC_MAP_FAILURE"

Set(k, v) ==
    /\ phase = "live"
    /\ SetExisting(k, v) \/ SetNoPair(k, v) \/ SetInsert(k, v) \/ SetNoBin(k, v) \/ SetGrow(k, v)

\* Defect: the bin of a removed pair becomes NULL.
PopEmpties(k) == [bins EXCEPT ![BinOf(k)] = NullBin]

PopLeavesMark(k) == [bins EXCEPT ![BinOf(k)] = HASH_PAIR_REMOVED]

\* free() is called on a pair that the pool owns: it may go unnoticed or not.
Pop(k) ==
    /\ phase = "live"
    /\ Found(k)
    /\ \/ /\ bins' = PopLeavesMark(k)
          /\ fill' = fill - 1
          /\ ret' = "HM_SUCCESS"
          /\ UNCHANGED <<phase, capacity>>
       \/ phase' = "undefined" /\ UNCHANGED <<bins, capacity, fill, ret>>

PopMissing(k) ==
    /\ phase = "live"
    /\ ~Found(k)
    /\ ret' = "HM_KEY_NOT_FOUND"
    /\ UNCHANGED <<phase, bins, capacity, fill>>

\* Every call but the destructor looks into bins.
UseBroken ==
    /\ phase = "broken"
    /\ phase' = "undefined"
    /\ UNCHANGED <<bins, capacity, fill, ret>>

Dest ==
    /\ phase \in {"live", "broken"}
    /\ phase' = "gone"
    /\ bins' = << >>
    /\ capacity' = 0
    /\ fill' = 0
    /\ ret' = "HM_SUCCESS"

Next ==
    \/ \E c \in InitCaps : InitMap(c)
    \/ \E k \in Keys, v \in Values : Set(k, v)
    \/ \E k \in Keys : Pop(k)
    \/ \E k \in Keys : PopMissing(k)
    \/ UseBroken
    \/ Dest

Spec == Init /\ [][Next]_vars

-----------------------------------------------------------------------------
(* Properties *)

\* A live map has as many bins as capacity says and as many pairs as fill says,
\* so it grows when half of it is in use.
TypeOK ==
    /\ phase \in {"fresh", "live", "broken", "undefined", "gone"}
    /\ phase = "live" => /\ DOMAIN bins = 0 .. capacity - 1
                         /\ capacity <= AllocLimit
                         /\ fill = Cardinality(Pairs(bins))
    /\ capacity \in Nat

\* Each pair is where the search for its key ends: nothing between a key's own
\* bin and its pair was ever made NULL again, and no key is there twice.
PairsAreReachable ==
    phase = "live" => \A i \in Pairs(bins) : Found(bins[i].key) /\ BinOf(bins[i].key) = i

\* Only removals use up bins for good: without them the map keeps room for the
\* next pair, and set cannot fail for want of a bin.
RoomUnlessRemoved ==
    (phase = "live" /\ \A i \in DOMAIN bins : bins[i] # HASH_PAIR_REMOVED)
        => 2 * fill <= capacity + 1 /\ ret # "HM_INSERTION_FAILURE"

\* The search by steps of two and four misses no prime and stops at no other
\* number, so every growth is to the first prime above twice the capacity.
NextPrimeIsNext ==
    \A x \in {capacity, 2 * capacity} :
        LET Prime(n) == n >= 2 /\ \A d \in 2 .. n - 1 : n % d # 0
        IN  /\ next_prime(x) > x
            /\ Prime(next_prime(x))
            /\ \A n \in x + 1 .. next_prime(x) - 1 : ~Prime(n)

Dict == INSTANCE AbstractMap WITH
            dict <- [k \in Keys |-> IF phase = "live" THEN Lookup(k) ELSE NoValue]

\* Collisions, removals, growth and failures never show in what get returns.
ImplementsMap == Dict!Spec

\* A set that reports success is what the next get returns.
SetIsFound ==
    [][\A k \in Keys, v \in Values :
         Set(k, v) /\ ret' = "HM_SUCCESS" => Lookup(k)' = v]_vars
==============================================================================
