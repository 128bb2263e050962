--------------------------- MODULE PtyHostProofs ---------------------------
(***************************************************************************)
(* Handles stay exact, no session joins itself and no wake-up is lost, for *)
(* any number of sessions and clients.                                     *)
(***************************************************************************)
EXTENDS PtyHost, SequenceTheorems, FiniteSetTheorems, TLAPS

USE HostAssumption

-----------------------------------------------------------------------------
(* The registry.                                                            *)

\* The sessions that had slot i and are gone from it.
Former(i) == {s \in Sessions : handle[s].index = i /\ slots[i].session # s}

\* A slot's session has its handle; every other handle of the slot is older.
HandlesOrdered ==
    \A s \in Sessions : handle[s] # NoHandle =>
        LET h == handle[s] IN
        /\ h.index \in 1..Len(slots)
        /\ \/ h.generation < slots[h.index].generation
           \/ h.generation = slots[h.index].generation
              /\ slots[h.index].session = s
SessionsHandled ==
    \A i \in 1..Len(slots) : slots[i].session # "none" =>
        handle[slots[i].session] = [index |-> i,
                                    generation |-> slots[i].generation]
GenerationsCounted ==
    \A i \in 1..Len(slots) : slots[i].generation <= 1 + Cardinality(Former(i))
RegistryTyped ==
    /\ slots \in Seq(Slots) /\ free_indices \in Seq(Nat \ {0})
    /\ live_count \in Int
    /\ handle \in [Sessions -> Handles]
RegistryInv ==
    /\ RegistryTyped
    /\ HandlesOrdered /\ SessionsHandled /\ GenerationsCounted /\ SlotsAccounted

LEMMA FormerCounted ==
    ASSUME NEW i
    PROVE  /\ IsFiniteSet(Former(i))
           /\ Cardinality(Former(i)) \in Nat
           /\ Cardinality(Former(i)) <= Cardinality(Sessions)
           /\ \A s \in Sessions : s \notin Former(i) =>
                 /\ Cardinality(Former(i)) < Cardinality(Sessions)
                 /\ Cardinality(Former(i) \cup {s}) = Cardinality(Former(i)) + 1
<1>1. Former(i) \subseteq Sessions
  BY DEF Former
<1>2. /\ IsFiniteSet(Former(i)) /\ Cardinality(Former(i)) \in Nat
      /\ Cardinality(Former(i)) <= Cardinality(Sessions)
  BY <1>1, FS_Subset, FS_CardinalityType
<1>3. ASSUME NEW s \in Sessions, s \notin Former(i)
      PROVE  /\ Cardinality(Former(i)) < Cardinality(Sessions)
             /\ Cardinality(Former(i) \cup {s}) = Cardinality(Former(i)) + 1
  <2>1. Cardinality(Former(i) \cup {s}) = Cardinality(Former(i)) + 1
    BY <1>2, <1>3, FS_AddElement
  <2>2. Former(i) \cup {s} \subseteq Sessions
    BY <1>1
  <2>3. Cardinality(Former(i) \cup {s}) <= Cardinality(Sessions)
    BY <2>2, FS_Subset
  <2> QED BY <1>2, <2>1, <2>3, FS_CardinalityType
<1> QED BY <1>2, <1>3

\* What a handle reaches.
LEMMA ReachesExact ==
    ASSUME RegistryInv
    PROVE  HandleExact
<1> SUFFICES ASSUME NEW s \in Sessions, Reaches(handle[s]) # "none"
             PROVE  Reaches(handle[s]) = s
  BY DEF HandleExact
<1>1. handle[s].index \in DOMAIN slots
  BY DEF Reaches
<1>2. slots \in Seq(Slots) /\ DOMAIN slots = 1..Len(slots) /\ handle[s] \in Handles
  BY DEF RegistryInv, RegistryTyped
<1>3. handle[s] # NoHandle
  BY <1>1, <1>2 DEF NoHandle
<1>4. handle[s].generation = slots[handle[s].index].generation
  BY DEF Reaches
<1> QED BY <1>1, <1>2, <1>3, <1>4 DEF RegistryInv, HandlesOrdered, Reaches, Handles,
           Slots

\* A sequence without its last element.
LEMMA ShorterSequence ==
    ASSUME NEW S, NEW q \in Seq(S), q # <<>>
    PROVE  /\ SubSeq(q, 1, Len(q) - 1) \in Seq(S)
           /\ Len(SubSeq(q, 1, Len(q) - 1)) = Len(q) - 1
           /\ \A k \in 1..(Len(q) - 1) : SubSeq(q, 1, Len(q) - 1)[k] = q[k]
<1> DEFINE n == Len(q) - 1
<1>1. n \in Int /\ 1 \in Int /\ 0 <= n
  OBVIOUS
<1>2. \A k \in 1..n : q[k] \in S
  OBVIOUS
<1> HIDE DEF n
<1>3. /\ SubSeq(q, 1, n) \in Seq(S)
      /\ Len(SubSeq(q, 1, n)) = IF 1 <= n THEN n - 1 + 1 ELSE 0
      /\ \A k \in 1..(n - 1 + 1) : SubSeq(q, 1, n)[k] = q[1 + k - 1]
  BY <1>1, <1>2, SubSeqProperties
<1>4. /\ Len(SubSeq(q, 1, n)) = n
      /\ \A k \in 1..n : SubSeq(q, 1, n)[k] = q[k]
  BY <1>1, <1>3
<1> QED BY <1>3, <1>4 DEF n

LEMMA InsertKeeps ==
    ASSUME RegistryInv, NEW s \in Sessions, handle[s] = NoHandle, Insert(s)
    PROVE  RegistryInv' /\ handle'[s] # NoHandle
<1> DEFINE reused == free_indices # <<>>
           i == IF reused THEN free_indices[Len(free_indices)]
                ELSE Len(slots) + 1
<1>1. /\ slots \in Seq(Slots) /\ free_indices \in Seq(Nat \ {0})
      /\ live_count \in Int /\ handle \in [Sessions -> Handles]
      /\ Len(slots) \in Nat /\ Len(free_indices) \in Nat
  BY DEF RegistryInv, RegistryTyped
<1>2. i \in Nat \ {0}
  BY <1>1
<1>3. CASE reused
  <2>1. /\ i \in 1..Len(slots) /\ slots[i].session = "none"
        /\ Len(free_indices) \in 1..Len(free_indices)
    BY <1>1, <1>3 DEF RegistryInv, SlotsAccounted
  <2>2. /\ slots' = [slots EXCEPT ![i].session = s]
        /\ free_indices' = SubSeq(free_indices, 1, Len(free_indices) - 1)
        /\ live_count' = live_count + 1
        /\ handle' = [handle EXCEPT ![s] = [index |-> i,
                                            generation |-> slots'[i].generation]]
    BY <1>3 DEF Insert
  <2>3. slots[i] \in Slots
    BY <1>1, <2>1
  <2>4. /\ slots' \in Seq(Slots) /\ Len(slots') = Len(slots)
        /\ \A j \in 1..Len(slots) : j # i => slots'[j] = slots[j]
        /\ slots'[i] = [generation |-> slots[i].generation, session |-> s]
    <3>1. slots' = [slots EXCEPT ![i] = [slots[i] EXCEPT !.session = s]]
      BY <2>2
    <3>2. [slots[i] EXCEPT !.session = s]
              = [generation |-> slots[i].generation, session |-> s]
      BY <2>3 DEF Slots
    <3>3. [generation |-> slots[i].generation, session |-> s] \in Slots
      BY <2>3 DEF Slots
    <3> QED BY <1>1, <2>1, <3>1, <3>2, <3>3
  <2>5. /\ free_indices' \in Seq(Nat \ {0})
        /\ Len(free_indices') = Len(free_indices) - 1
        /\ \A n \in 1..Len(free_indices') : free_indices'[n] = free_indices[n]
    BY <1>1, <1>3, <2>2, ShorterSequence
  <2>6. /\ handle' \in [Sessions -> Handles]
        /\ handle'[s] = [index |-> i, generation |-> slots[i].generation]
        /\ \A t \in Sessions : t # s => handle'[t] = handle[t]
    BY <1>1, <1>2, <2>2, <2>3, <2>4 DEF Handles, Slots
  <2>7. RegistryTyped'
    BY <1>1, <2>2, <2>4, <2>5, <2>6 DEF RegistryTyped
  <2>8. HandlesOrdered'
    <3>1. ASSUME NEW t \in Sessions, t # s, handle[t] # NoHandle
          PROVE  /\ handle[t].index \in 1..Len(slots)
                 /\ \/ handle[t].generation < slots'[handle[t].index].generation
                    \/ handle[t].generation = slots'[handle[t].index].generation
                       /\ slots'[handle[t].index].session = t
      <4>1. t # "none"
        BY <3>1
      <4> QED BY <2>1, <2>4, <3>1, <4>1 DEF RegistryInv, HandlesOrdered
    <3> QED BY <2>1, <2>4, <2>6, <3>1 DEF HandlesOrdered
  <2>9. SessionsHandled'
    <3>1. ASSUME NEW j \in 1..Len(slots), j # i, slots[j].session # "none"
          PROVE  slots[j].session # s /\ slots[j].session \in Sessions
      <4>1. handle[slots[j].session] = [index |-> j, generation |-> slots[j].generation]
        BY <3>1 DEF RegistryInv, SessionsHandled
      <4>2. handle[slots[j].session] # NoHandle
        BY <4>1, <3>1 DEF NoHandle
      <4>3. slots[j] \in Slots
        BY <1>1
      <4> QED BY <3>1, <4>2, <4>3 DEF Slots
    <3>2. ASSUME NEW j \in 1..Len(slots), j # i, slots'[j].session # "none"
          PROVE  handle'[slots'[j].session]
                     = [index |-> j, generation |-> slots'[j].generation]
      <4>1. slots'[j] = slots[j]
        BY <2>4, <3>2
      <4>2. slots[j].session \in Sessions /\ slots[j].session # s
        BY <3>1, <3>2, <4>1
      <4>3. handle[slots[j].session] = [index |-> j, generation |-> slots[j].generation]
        BY <3>2, <4>1 DEF RegistryInv, SessionsHandled
      <4> QED BY <2>6, <4>1, <4>2, <4>3
    <3>3. handle'[slots'[i].session]
              = [index |-> i, generation |-> slots'[i].generation]
      BY <2>4, <2>6
    <3> QED BY <2>1, <2>4, <3>2, <3>3 DEF SessionsHandled
  <2>10. GenerationsCounted'
    <3>1. ASSUME NEW j \in 1..Len(slots) PROVE Former(j)' = Former(j)
      <4>1. \A t \in Sessions : t # s =>
               (handle'[t].index = j /\ slots'[j].session # t
                  <=> handle[t].index = j /\ slots[j].session # t)
        BY <2>1, <2>4, <2>6
      <4>2. ~(handle'[s].index = j /\ slots'[j].session # s)
        BY <2>4, <2>6
      <4>3. ~(handle[s].index = j /\ slots[j].session # s)
        BY <1>1 DEF NoHandle
      <4> QED BY <4>1, <4>2, <4>3 DEF Former
    <3> QED BY <2>1, <2>4, <3>1 DEF RegistryInv, GenerationsCounted
  <2>11. SlotsAccounted'
    <3>1. \A n \in 1..Len(free_indices') :
             n \in 1..Len(free_indices) /\ n # Len(free_indices)
      BY <1>1, <2>5
    <3>2. i = free_indices[Len(free_indices)]
      BY <1>3
    <3>3. \A n \in 1..Len(free_indices') : free_indices[n] # i
      BY <2>1, <3>1, <3>2 DEF RegistryInv, SlotsAccounted
    <3>4. ASSUME NEW n \in 1..Len(free_indices')
          PROVE  /\ free_indices'[n] \in 1..Len(slots')
                 /\ slots'[free_indices'[n]].session = "none"
      <4>1. /\ free_indices[n] \in 1..Len(slots)
            /\ slots[free_indices[n]].session = "none"
        BY <3>1, <3>4 DEF RegistryInv, SlotsAccounted
      <4> QED BY <2>4, <2>5, <3>3, <3>4, <4>1
    <3>5. ASSUME NEW n \in 1..Len(free_indices'),
                 NEW m \in 1..Len(free_indices'),
                 free_indices'[n] = free_indices'[m]
          PROVE  n = m
      BY <2>5, <3>1, <3>5 DEF RegistryInv, SlotsAccounted
    <3>6. ASSUME NEW j \in 1..Len(slots'), slots'[j].session = "none"
          PROVE  \E n \in 1..Len(free_indices') : free_indices'[n] = j
      <4>1. j # i
        BY <2>4, <3>6
      <4>2. PICK n \in 1..Len(free_indices) : free_indices[n] = j
        BY <2>4, <3>6, <4>1 DEF RegistryInv, SlotsAccounted
      <4>3. n # Len(free_indices)
        BY <3>2, <4>1, <4>2
      <4>4. n \in 1..Len(free_indices')
        BY <1>1, <2>5, <4>2, <4>3
      <4> QED BY <2>5, <4>2, <4>4
    <3>7. live_count' + Len(free_indices') = Len(slots')
      BY <1>1, <2>2, <2>4, <2>5 DEF RegistryInv, SlotsAccounted
    <3> QED BY <3>4, <3>5, <3>6, <3>7 DEF SlotsAccounted
  <2> QED BY <1>2, <2>6, <2>7, <2>8, <2>9, <2>10, <2>11 DEF RegistryInv, NoHandle
<1>4. CASE ~reused
  <2>1. /\ slots' = Append(slots, [generation |-> 1, session |-> s])
        /\ free_indices' = free_indices /\ live_count' = live_count + 1
        /\ handle' = [handle EXCEPT ![s] = [index |-> i,
                                            generation |-> slots'[i].generation]]
    BY <1>4 DEF Insert
  <2>2. [generation |-> 1, session |-> s] \in Slots
    BY FS_CardinalityType DEF Slots
  <2>3. /\ slots' \in Seq(Slots) /\ Len(slots') = Len(slots) + 1
        /\ \A j \in 1..Len(slots) : slots'[j] = slots[j]
        /\ slots'[i] = [generation |-> 1, session |-> s]
        /\ i = Len(slots) + 1
    BY <1>1, <1>4, <2>1, <2>2
  <2>4. /\ handle' \in [Sessions -> Handles]
        /\ handle'[s] = [index |-> i, generation |-> 1]
        /\ \A t \in Sessions : t # s => handle'[t] = handle[t]
    BY <1>1, <1>2, <2>1, <2>3 DEF Handles
  <2>5. \A t \in Sessions : t # s => handle[t].index # i
    BY <1>1, <2>3 DEF RegistryInv, HandlesOrdered, NoHandle
  <2>6. RegistryTyped'
    BY <1>1, <2>1, <2>3, <2>4 DEF RegistryTyped
  <2>7. HandlesOrdered'
    BY <1>1, <2>3, <2>4 DEF RegistryInv, HandlesOrdered
  <2>8. SessionsHandled'
    <3>1. ASSUME NEW j \in 1..Len(slots), slots[j].session # "none"
          PROVE  slots[j].session # s /\ slots[j].session \in Sessions
      <4>1. handle[slots[j].session] = [index |-> j, generation |-> slots[j].generation]
        BY <3>1 DEF RegistryInv, SessionsHandled
      <4>2. handle[slots[j].session] # NoHandle
        BY <4>1, <3>1 DEF NoHandle
      <4>3. slots[j] \in Slots
        BY <1>1
      <4> QED BY <3>1, <4>2, <4>3 DEF Slots
    <3>2. ASSUME NEW j \in 1..Len(slots), slots'[j].session # "none"
          PROVE  handle'[slots'[j].session]
                     = [index |-> j, generation |-> slots'[j].generation]
      <4>1. slots'[j] = slots[j]
        BY <2>3, <3>2
      <4>2. slots[j].session \in Sessions /\ slots[j].session # s
        BY <3>1, <3>2, <4>1
      <4>3. handle[slots[j].session] = [index |-> j, generation |-> slots[j].generation]
        BY <3>2, <4>1 DEF RegistryInv, SessionsHandled
      <4> QED BY <2>4, <4>1, <4>2, <4>3
    <3>3. handle'[slots'[i].session]
              = [index |-> i, generation |-> slots'[i].generation]
      BY <2>3, <2>4
    <3>4. \A j \in 1..Len(slots') : j = i \/ j \in 1..Len(slots)
      BY <1>1, <2>3
    <3> QED BY <3>2, <3>3, <3>4 DEF SessionsHandled
  <2>9. GenerationsCounted'
    <3>1. ASSUME NEW j \in 1..Len(slots) PROVE Former(j)' = Former(j)
      <4>1. handle'[s].index # j /\ handle[s].index # j
        BY <1>1, <2>3, <2>4, <3>1 DEF NoHandle
      <4> QED BY <2>3, <2>4, <4>1 DEF Former
    <3>2. ASSUME NEW j, j = i
          PROVE  slots'[j].generation <= 1 + Cardinality(Former(j)')
      <4>1. \A t \in Sessions : ~(handle'[t].index = j /\ slots'[j].session # t)
        BY <2>3, <2>4, <2>5, <3>2
      <4>2. Former(j)' = {}
        BY <4>1 DEF Former
      <4>3. slots'[j].generation = 1
        BY <2>3, <3>2
      <4> QED BY <4>2, <4>3, FS_EmptySet
    <3>3. \A j \in 1..Len(slots') : j = i \/ j \in 1..Len(slots)
      BY <1>1, <2>3
    <3>4. ASSUME NEW j \in 1..Len(slots)
          PROVE  slots'[j].generation <= 1 + Cardinality(Former(j)')
      <4>1. Former(j)' = Former(j)
        BY <3>1
      <4> QED BY <2>3, <4>1 DEF RegistryInv, GenerationsCounted
    <3> QED BY <3>2, <3>3, <3>4 DEF GenerationsCounted
  <2>10. SlotsAccounted'
    <3>1. free_indices = <<>> /\ free_indices' = <<>>
      BY <1>4, <2>1
    <3>2. live_count = Len(slots)
      BY <1>1, <3>1 DEF RegistryInv, SlotsAccounted
    <3>3. \A j \in 1..Len(slots) : slots[j].session # "none"
      BY <3>1 DEF RegistryInv, SlotsAccounted
    <3>4. \A j \in 1..Len(slots') : slots'[j].session # "none"
      BY <1>1, <2>3, <3>3
    <3> QED BY <1>1, <2>1, <2>3, <3>1, <3>2, <3>4 DEF SlotsAccounted
  <2> QED BY <1>2, <2>4, <2>6, <2>7, <2>8, <2>9, <2>10 DEF RegistryInv, NoHandle
<1> QED BY <1>3, <1>4

LEMMA RemoveKeeps ==
    ASSUME RegistryInv, NEW s \in Sessions, Reaches(handle[s]) = s, Remove(s)
    PROVE  RegistryInv'
<1> DEFINE i == handle[s].index
<1>1. /\ slots \in Seq(Slots) /\ free_indices \in Seq(Nat \ {0})
      /\ live_count \in Int /\ handle \in [Sessions -> Handles]
      /\ Len(slots) \in Nat /\ Len(free_indices) \in Nat
      /\ DOMAIN slots = 1..Len(slots)
  BY DEF RegistryInv, RegistryTyped
<1>2. /\ i \in 1..Len(slots) /\ slots[i].session = s
      /\ slots[i].generation = handle[s].generation
  BY <1>1 DEF Reaches
<1>3. slots[i] \in Slots /\ i \in Nat \ {0}
  BY <1>1, <1>2
<1>4. slots[i].generation < Generations /\ s \notin Former(i)
  <2>1. s \notin Former(i)
    BY <1>2 DEF Former
  <2>2. slots[i].generation <= 1 + Cardinality(Former(i))
    BY <1>2 DEF RegistryInv, GenerationsCounted
  <2>3. Cardinality(Former(i)) < Cardinality(Sessions)
    BY <2>1, FormerCounted
  <2> QED BY <1>3, <2>1, <2>2, <2>3, FormerCounted, FS_CardinalityType DEF Slots
<1>5. /\ slots' \in Seq(Slots) /\ Len(slots') = Len(slots)
      /\ \A j \in 1..Len(slots) : j # i => slots'[j] = slots[j]
      /\ slots'[i] = [generation |-> slots[i].generation + 1, session |-> "none"]
  <2>1. slots' = [slots EXCEPT ![i] = [generation |-> slots[i].generation + 1,
                                       session |-> "none"]]
    <3>1. NextGeneration(slots[i].generation) = slots[i].generation + 1
      BY <1>3, <1>4 DEF NextGeneration, Slots
    <3>2. slots' = [slots EXCEPT
                       ![i] = [generation |-> NextGeneration(slots[i].generation),
                               session |-> "none"]]
      BY DEF Remove
    <3> QED BY <3>1, <3>2
  <2>2. [generation |-> slots[i].generation + 1, session |-> "none"] \in Slots
    BY <1>3, <1>4 DEF Slots
  <2> QED BY <1>1, <1>2, <2>1, <2>2
<1>6. /\ free_indices' \in Seq(Nat \ {0})
      /\ Len(free_indices') = Len(free_indices) + 1
      /\ \A n \in 1..Len(free_indices) : free_indices'[n] = free_indices[n]
      /\ free_indices'[Len(free_indices) + 1] = i
  BY <1>1, <1>3 DEF Remove
<1>7. handle' = handle /\ live_count' \in Int
  BY <1>1 DEF Remove
<1>8. RegistryTyped'
  BY <1>1, <1>5, <1>6, <1>7 DEF RegistryTyped
<1>9. HandlesOrdered'
  <2>1. ASSUME NEW t \in Sessions, handle[t] # NoHandle
        PROVE  /\ handle[t].index \in 1..Len(slots')
               /\ \/ handle[t].generation < slots'[handle[t].index].generation
                  \/ handle[t].generation = slots'[handle[t].index].generation
                     /\ slots'[handle[t].index].session = t
    <3>1. CASE handle[t].index # i
      BY <1>5, <2>1, <3>1 DEF RegistryInv, HandlesOrdered
    <3>2. CASE handle[t].index = i
      <4>1. handle[t].generation <= slots[i].generation /\ handle[t] \in Handles
        <5>1. handle[t] \in Handles
          BY <1>1
        <5>2. \/ handle[t].generation < slots[i].generation
              \/ handle[t].generation = slots[i].generation
          BY <2>1, <3>2 DEF RegistryInv, HandlesOrdered
        <5> QED BY <1>3, <5>1, <5>2 DEF Slots, Handles
      <4> QED BY <1>2, <1>3, <1>5, <3>2, <4>1 DEF Slots, Handles
    <3> QED BY <3>1, <3>2
  <2> QED BY <1>7, <2>1 DEF HandlesOrdered
<1>10. SessionsHandled'
  <2>1. ASSUME NEW j \in 1..Len(slots), slots'[j].session # "none"
        PROVE  handle[slots'[j].session]
                   = [index |-> j, generation |-> slots'[j].generation]
    <3>1. j # i /\ slots'[j] = slots[j]
      BY <1>5, <2>1
    <3> QED BY <2>1, <3>1 DEF RegistryInv, SessionsHandled
  <2> QED BY <1>5, <1>7, <2>1 DEF SessionsHandled
<1>11. GenerationsCounted'
  <2>1. ASSUME NEW j \in 1..Len(slots), j # i
        PROVE  slots'[j].generation <= 1 + Cardinality(Former(j)')
    <3>1. Former(j)' = Former(j)
      BY <1>5, <1>7, <2>1 DEF Former
    <3> QED BY <1>5, <2>1, <3>1 DEF RegistryInv, GenerationsCounted
  <2>2. ASSUME NEW j, j = i
        PROVE  slots'[j].generation <= 1 + Cardinality(Former(j)')
    <3>1. \A t \in Sessions : handle[t].index = j /\ slots'[j].session # t
                                 <=> t = s \/ (handle[t].index = j /\ slots[j].session # t)
      BY <1>2, <1>5, <2>2
    <3>2. Former(j)' = Former(j) \cup {s}
      BY <1>7, <3>1 DEF Former
    <3>3. /\ Cardinality(Former(j) \cup {s}) = Cardinality(Former(j)) + 1
          /\ Cardinality(Former(j)) \in Nat
      BY <1>4, <2>2, FormerCounted
    <3>4. slots[j].generation <= 1 + Cardinality(Former(j))
      BY <1>2, <2>2 DEF RegistryInv, GenerationsCounted
    <3>5. slots'[j].generation = slots[j].generation + 1 /\ slots[j].generation \in Nat
      BY <1>3, <1>5, <2>2 DEF Slots
    <3> QED BY <3>2, <3>3, <3>4, <3>5
  <2> QED BY <1>5, <2>1, <2>2 DEF GenerationsCounted
<1>12. SlotsAccounted'
  <2>1. \A n \in 1..Len(free_indices) : free_indices[n] # i
    <3>1. \A n \in 1..Len(free_indices) : slots[free_indices[n]].session = "none"
      BY DEF RegistryInv, SlotsAccounted
    <3> QED BY <1>2, <3>1
  <2>2. \A n \in 1..Len(free_indices') :
           n \in 1..Len(free_indices) \/ n = Len(free_indices) + 1
    BY <1>1, <1>6
  <2>3. ASSUME NEW n \in 1..Len(free_indices')
        PROVE  /\ free_indices'[n] \in 1..Len(slots')
               /\ slots'[free_indices'[n]].session = "none"
    <3>1. CASE n \in 1..Len(free_indices)
      <4>1. /\ free_indices[n] \in 1..Len(slots)
            /\ slots[free_indices[n]].session = "none"
        BY <3>1 DEF RegistryInv, SlotsAccounted
      <4>2. free_indices'[n] = free_indices[n] /\ free_indices[n] # i
        BY <1>6, <2>1, <3>1
      <4>3. /\ Len(slots') = Len(slots)
            /\ slots'[free_indices[n]] = slots[free_indices[n]]
        BY <1>5, <4>1, <4>2
      <4> QED BY <4>1, <4>2, <4>3
    <3>2. CASE n = Len(free_indices) + 1
      BY <1>2, <1>5, <1>6, <3>2
    <3> QED BY <2>2, <3>1, <3>2
  <2>4. ASSUME NEW n \in 1..Len(free_indices'), NEW m \in 1..Len(free_indices'),
               free_indices'[n] = free_indices'[m]
        PROVE  n = m
    <3>1. CASE n \in 1..Len(free_indices) /\ m \in 1..Len(free_indices)
      BY <1>6, <2>4, <3>1 DEF RegistryInv, SlotsAccounted
    <3>2. CASE n = Len(free_indices) + 1 \/ m = Len(free_indices) + 1
      BY <1>6, <2>1, <2>2, <2>4, <3>2
    <3> QED BY <2>2, <3>1, <3>2
  <2>5. ASSUME NEW j \in 1..Len(slots'), slots'[j].session = "none"
        PROVE  \E n \in 1..Len(free_indices') : free_indices'[n] = j
    <3>1. CASE j = i
      <4>1. Len(free_indices) + 1 \in 1..Len(free_indices')
        BY <1>1, <1>6
      <4> QED BY <1>6, <3>1, <4>1
    <3>2. CASE j # i
      <4>1. PICK n \in 1..Len(free_indices) : free_indices[n] = j
        BY <1>5, <2>5, <3>2 DEF RegistryInv, SlotsAccounted
      <4> QED BY <1>1, <1>6, <4>1
    <3> QED BY <3>1, <3>2
  <2>6. live_count' + Len(free_indices') = Len(slots')
    BY <1>1, <1>5, <1>6 DEF RegistryInv, SlotsAccounted, Remove
  <2> QED BY <2>3, <2>4, <2>5, <2>6 DEF SlotsAccounted
<1> QED BY <1>8, <1>9, <1>10, <1>11, <1>12 DEF RegistryInv

\* What a handle reaches is a session that got one.
LEMMA ReachedHasHandle ==
    ASSUME RegistryInv, NEW h, Reaches(h) # "none"
    PROVE  Reaches(h) \in Sessions /\ handle[Reaches(h)] # NoHandle
<1>1. /\ h.index \in 1..Len(slots) /\ Reaches(h) = slots[h.index].session
      /\ slots[h.index] \in Slots
  BY DEF RegistryInv, RegistryTyped, Reaches
<1>2. handle[Reaches(h)] = [index |-> h.index,
                            generation |-> slots[h.index].generation]
  BY <1>1 DEF RegistryInv, SessionsHandled
<1> QED BY <1>1, <1>2 DEF Slots, NoHandle

-----------------------------------------------------------------------------
(* Ownership and wake-ups.                                                  *)

CallsTyped == call \in [Clients -> [step : Steps, session : Sessions \cup {"none"}]]
SessionsTyped ==
    /\ owners \in [Sessions -> SUBSET Owners]
    /\ state \in [Sessions -> {"created", "running", "finished"}]
    /\ reactor \in [Sessions -> {"none", "spawn", "prepare", "wait", "control",
                                 "turn", "close", "ended"}]
FlagsTyped ==
    /\ pending \in [Sessions -> BOOLEAN] /\ paused \in [Sessions -> BOOLEAN]
    /\ retained \in [Sessions -> 0..HighWater]
    /\ kqueue \in [Sessions -> BOOLEAN] /\ triggered \in [Sessions -> BOOLEAN]

\* A call in progress holds its session.
CallsHold ==
    \A c \in Clients : call[c].step # "idle" =>
        /\ call[c].session \in Sessions
        /\ handle[call[c].session] # NoHandle
        /\ c \in owners[call[c].session]
\* Only a finished session leaves the registry.
RegisteredOrFinished ==
    \A s \in Sessions :
        handle[s] # NoHandle /\ "registry" \notin owners[s] => state[s] = "finished"
RemoverKnows ==
    \A c \in Clients :
        call[c].step = "remove" => state[call[c].session] = "finished"
\* Someone who will join the thread outlives it.
ThreadHeld ==
    \A s \in Sessions : "thread" \in owners[s] =>
        \/ "registry" \in owners[s]
        \/ \E c \in Clients : /\ c \in owners[s]
                              /\ call[c].session = s /\ call[c].step = "join"
OwnersInv ==
    CallsTyped /\ SessionsTyped /\ CallsHold /\ RegisteredOrFinished
    /\ RemoverKnows /\ ThreadHeld

KqueueOpen ==
    \A s \in Sessions :
        reactor[s] \in {"prepare", "wait", "control", "turn", "close"} => kqueue[s]

\* Behind ProcessControl() the reactor goes to wait: what comes from here on
\* must find it triggered, or a client that is about to trigger it.
Awake(s) ==
    \/ triggered[s]
    \/ \E c \in Clients :
          call[c].session = s /\ call[c].step \in {"wake", "trigger"}
WakePending ==
    \A s \in Sessions :
        reactor[s] \in {"turn", "wait"} /\ (pending[s] \/ Resumable(s)) => Awake(s)

IInv == RegistryInv /\ OwnersInv /\ FlagsTyped /\ KqueueOpen /\ WakePending

\* The registry changes in two actions.
LEMMA RegistryStep ==
    ASSUME IInv, [Next]_vars
    PROVE  RegistryInv' /\ \A s \in Sessions : handle[s] # NoHandle => handle'[s] = handle[s]
<1>1. CASE UNCHANGED registryVars
  <2>1. SlotsAccounted'
    BY <1>1 DEF IInv, RegistryInv, SlotsAccounted, registryVars
  <2> QED BY <1>1, <2>1 DEF IInv, RegistryInv, RegistryTyped, HandlesOrdered,
          SessionsHandled, GenerationsCounted, Former, registryVars
<1>2. ASSUME NEW c \in Clients, Create(c)
      PROVE  RegistryInv' /\ \A s \in Sessions : handle[s] # NoHandle => handle'[s] = handle[s]
  <2>1. PICK s \in Sessions : handle[s] = NoHandle /\ Insert(s)
    BY <1>2 DEF Create
  <2>2. RegistryInv'
    BY <2>1, InsertKeeps DEF IInv
  <2>3. \A t \in Sessions : t # s => handle'[t] = handle[t]
    BY <2>1 DEF Insert, IInv, RegistryInv, RegistryTyped
  <2> QED BY <2>1, <2>2, <2>3
<1>3. ASSUME NEW c \in Clients, RemoveSession(c)
      PROVE  RegistryInv' /\ \A s \in Sessions : handle[s] # NoHandle => handle'[s] = handle[s]
  <2>1. CASE UNCHANGED registryVars
    BY <1>1, <2>1 DEF registryVars
  <2>2. CASE /\ Reaches(handle[call[c].session]) = call[c].session
             /\ Remove(call[c].session)
    <3>1. call[c].session \in Sessions
      BY <1>3 DEF RemoveSession, StillRegistered, Step, IInv, OwnersInv, CallsHold
    <3> QED BY <2>2, <3>1, RemoveKeeps DEF IInv, Remove
  <2> QED BY <1>3, <2>1, <2>2 DEF RemoveSession, StillRegistered
<1>4. ASSUME NEW c \in Clients, ClientNext(c), ~Create(c), ~RemoveSession(c)
      PROVE  UNCHANGED registryVars
  BY <1>4 DEF ClientNext, Lookup, StartSession, Post, Acknowledge, LoadKqueue,
     Trigger, Destroy, Join, Return
<1>5. ASSUME NEW s \in Sessions, SessionNext(s)
      PROVE  UNCHANGED registryVars
  BY <1>5 DEF SessionNext, Configure, SpawnFails, KeventReturns, Read,
     ProcessControl, TurnEnds, Finish, CloseDescriptors, ThreadEnds, OnlyReactor
<1> QED BY <1>1, <1>2, <1>3, <1>4, <1>5 DEF Next, vars

\* A session that only its reactor changes keeps what the calls rely on.
LEMMA ReactorKeepsOwners ==
    ASSUME IInv, NEW s \in Sessions, SessionNext(s)
    PROVE  OwnersInv'
<1> USE DEF IInv, OwnersInv
<1>1. handle' = handle /\ call' = call
  BY DEF SessionNext, Configure, SpawnFails, KeventReturns, Read,
     ProcessControl, TurnEnds, Finish, CloseDescriptors, ThreadEnds, OnlyReactor, registryVars
<1>2. reactor' \in [Sessions -> {"none", "spawn", "prepare", "wait", "control",
                                 "turn", "close", "ended"}]
  BY DEF SessionNext, Configure, SpawnFails, KeventReturns, Read,
     ProcessControl, TurnEnds, Finish, CloseDescriptors, ThreadEnds, Goto, SessionsTyped, AfterStarted
<1>3. /\ state' \in [Sessions -> {"created", "running", "finished"}]
      /\ \A t \in Sessions : state'[t] = state[t] \/ state'[t] = "finished"
  BY DEF SessionNext, Configure, SpawnFails, KeventReturns, Read,
     ProcessControl, TurnEnds, Finish, CloseDescriptors, ThreadEnds, SessionsTyped
<1>4. /\ owners' \in [Sessions -> SUBSET Owners]
      /\ \A t \in Sessions : owners'[t] = owners[t] \/ owners'[t] = owners[t] \ {"thread"}
  BY DEF SessionNext, Configure, SpawnFails, KeventReturns, Read,
     ProcessControl, TurnEnds, Finish, CloseDescriptors, ThreadEnds, SessionsTyped, OnlyReactor
<1>5. CallsTyped' /\ SessionsTyped'
  BY <1>1, <1>2, <1>3, <1>4 DEF CallsTyped, SessionsTyped
<1>6. CallsHold'
  BY <1>1, <1>4 DEF CallsHold
<1>7. RegisteredOrFinished'
  BY <1>1, <1>3, <1>4 DEF RegisteredOrFinished
<1>8. RemoverKnows'
  BY <1>1, <1>3 DEF RemoverKnows, CallsHold
<1>9. ThreadHeld'
  BY <1>1, <1>4 DEF ThreadHeld
<1> QED BY <1>5, <1>6, <1>7, <1>8, <1>9

\* A step of one call leaves the others as they are.
LEMMA CallStep ==
    ASSUME CallsTyped, NEW c \in Clients, NEW from, NEW to \in Steps, Step(c, from, to)
    PROVE  /\ CallsTyped' /\ call[c].step = from
           /\ call'[c].step = to /\ call'[c].session = call[c].session
           /\ \A d \in Clients : d # c => call'[d] = call[d]
BY DEF CallsTyped, Step

LEMMA StepNames ==
    /\ {"idle", "wake", "trigger", "remove", "join", "return", "start", "post",
        "acknowledge", "canDestroy"} \subseteq Steps
    /\ AfterRemove = "join"
BY DEF Steps, Ops, AfterRemove

LEMMA CreateKeepsOwners ==
    ASSUME IInv, NEW c \in Clients, Create(c)
    PROVE  OwnersInv'
<1> USE DEF IInv, OwnersInv
<1>1. PICK s \in Sessions :
         /\ handle[s] = NoHandle /\ Insert(s)
         /\ owners' = [owners EXCEPT ![s] = {"registry"}]
  BY DEF Create
<1>2. /\ handle' \in [Sessions -> Handles] /\ handle'[s] # NoHandle
      /\ \A t \in Sessions : t # s => handle'[t] = handle[t]
  BY <1>1, InsertKeeps DEF Insert, RegistryInv, RegistryTyped
<1>3. call' = call /\ state' = state /\ reactor' = reactor
  BY DEF Create
<1>4. /\ owners' \in [Sessions -> SUBSET Owners] /\ owners'[s] = {"registry"}
      /\ \A t \in Sessions : t # s => owners'[t] = owners[t]
  BY <1>1 DEF SessionsTyped, Owners
<1>5. CallsTyped' /\ SessionsTyped'
  BY <1>3, <1>4 DEF CallsTyped, SessionsTyped
<1>6. CallsHold'
  BY <1>1, <1>2, <1>3, <1>4 DEF CallsHold
<1>7. RegisteredOrFinished' /\ RemoverKnows' /\ ThreadHeld'
  BY <1>1, <1>2, <1>3, <1>4 DEF RegisteredOrFinished, RemoverKnows, ThreadHeld
<1> QED BY <1>5, <1>6, <1>7

LEMMA LookupKeepsOwners ==
    ASSUME IInv, NEW c \in Clients, Lookup(c)
    PROVE  OwnersInv'
<1> USE DEF IInv, OwnersInv
<1>1. PICK s \in Sessions, op \in Ops :
         /\ call[c] = Idle /\ Reaches(handle[s]) # "none"
         /\ call' = [call EXCEPT ![c].step = op, ![c].session = Reaches(handle[s])]
         /\ owners' = [owners EXCEPT ![Reaches(handle[s])] = @ \cup {c}]
  BY DEF Lookup
<1> DEFINE found == Reaches(handle[s])
<1>2. found \in Sessions /\ handle[found] # NoHandle
  BY <1>1, ReachedHasHandle
<1>3. handle' = handle /\ state' = state /\ reactor' = reactor
  BY DEF Lookup, registryVars
<1> HIDE DEF found
<1>4. /\ call' \in [Clients -> [step : Steps, session : Sessions \cup {"none"}]]
      /\ call'[c].step = op /\ call'[c].session = found
      /\ \A d \in Clients : d # c => call'[d] = call[d]
  BY <1>1, <1>2 DEF CallsTyped, Steps, found
<1>5. /\ owners' \in [Sessions -> SUBSET Owners]
      /\ owners'[found] = owners[found] \cup {c}
      /\ \A t \in Sessions : t # found => owners'[t] = owners[t]
  BY <1>1, <1>2 DEF SessionsTyped, Owners, found
<1>6. CallsTyped' /\ SessionsTyped'
  BY <1>3, <1>4, <1>5 DEF CallsTyped, SessionsTyped
<1>7. CallsHold'
  BY <1>2, <1>3, <1>4, <1>5 DEF CallsHold
<1>8. RegisteredOrFinished'
  BY <1>3, <1>5 DEF RegisteredOrFinished
<1>9. RemoverKnows'
  BY <1>3, <1>4 DEF RemoverKnows, Ops
<1>10. ThreadHeld'
  <2>1. call[c].step # "join"
    BY <1>1 DEF Idle
  <2> QED BY <1>4, <1>5, <2>1 DEF ThreadHeld
<1> QED BY <1>6, <1>7, <1>8, <1>9, <1>10

LEMMA StartKeepsOwners ==
    ASSUME IInv, NEW c \in Clients, StartSession(c)
    PROVE  OwnersInv'
<1> USE DEF IInv, OwnersInv
<1> DEFINE s == call[c].session
<1>1. /\ CallsTyped' /\ call[c].step = "start" /\ call'[c].step = "return"
      /\ call'[c].session = s /\ \A d \in Clients : d # c => call'[d] = call[d]
  BY CallStep, StepNames DEF StartSession
<1>2. s \in Sessions /\ handle[s] # NoHandle /\ handle' = handle
  BY <1>1 DEF CallsHold, StartSession, registryVars
<1>3. /\ owners' \in [Sessions -> SUBSET Owners]
      /\ \A t \in Sessions : t # s => owners'[t] = owners[t]
      /\ \/ owners'[s] = owners[s]
         \/ owners'[s] = owners[s] \cup {"thread"} /\ state[s] = "created"
  BY <1>2 DEF StartSession, SessionsTyped, Owners
<1>4. /\ state' \in [Sessions -> {"created", "running", "finished"}]
      /\ \A t \in Sessions : t # s => state'[t] = state[t]
      /\ state[s] # "created" => state'[s] = state[s]
  BY <1>2 DEF StartSession, SessionsTyped
<1>5. reactor' \in [Sessions -> {"none", "spawn", "prepare", "wait", "control",
                                 "turn", "close", "ended"}]
  BY <1>2 DEF StartSession, SessionsTyped
<1>6. CallsTyped' /\ SessionsTyped'
  BY <1>1, <1>3, <1>4, <1>5 DEF SessionsTyped
<1>7. CallsHold'
  BY <1>1, <1>2, <1>3 DEF CallsHold
<1>8. RegisteredOrFinished'
  BY <1>2, <1>3, <1>4 DEF RegisteredOrFinished
<1>9. RemoverKnows'
  BY <1>1, <1>2, <1>4 DEF RemoverKnows, CallsHold
<1>10. ThreadHeld'
  <2>1. owners'[s] # owners[s] => "registry" \in owners[s]
    BY <1>2, <1>3 DEF RegisteredOrFinished
  <2> QED BY <1>1, <1>2, <1>3, <2>1 DEF ThreadHeld
<1> QED BY <1>6, <1>7, <1>8, <1>9, <1>10

\* Calls that change neither the owners nor the states.
LEMMA OtherCallKeepsOwners ==
    ASSUME IInv, NEW c \in Clients,
           \/ Post(c) \/ Acknowledge(c) \/ LoadKqueue(c) \/ Trigger(c)
           \/ Destroy(c) \/ Join(c)
    PROVE  OwnersInv'
<1> USE DEF IInv, OwnersInv
<1>1. /\ handle' = handle /\ owners' = owners /\ state' = state
      /\ reactor' = reactor
  BY DEF Post, Acknowledge, LoadKqueue, Trigger, Destroy, Join, registryVars
<1>2. \E from, to \in Steps :
         /\ Step(c, from, to) /\ from # "idle" /\ to # "join"
         /\ from = "join" => "thread" \notin owners[call[c].session]
         /\ to = "remove" => state[call[c].session] = "finished"
  BY StepNames DEF Post, Acknowledge, LoadKqueue, Trigger, Destroy, CanDestroy, Join
<1>3. PICK from, to \in Steps :
         /\ Step(c, from, to) /\ from # "idle" /\ to # "join"
         /\ from = "join" => "thread" \notin owners[call[c].session]
         /\ to = "remove" => state[call[c].session] = "finished"
  BY <1>2
<1>4. /\ CallsTyped' /\ call[c].step = from
      /\ call'[c].step = to /\ call'[c].session = call[c].session
      /\ \A d \in Clients : d # c => call'[d] = call[d]
  BY <1>3, CallStep
<1>5. SessionsTyped'
  BY <1>1 DEF SessionsTyped
<1>6. CallsHold'
  BY <1>1, <1>3, <1>4 DEF CallsHold
<1>7. RegisteredOrFinished'
  BY <1>1 DEF RegisteredOrFinished
<1>8. RemoverKnows'
  BY <1>1, <1>3, <1>4 DEF RemoverKnows
<1>9. ThreadHeld'
  BY <1>1, <1>3, <1>4 DEF ThreadHeld
<1> QED BY <1>4, <1>5, <1>6, <1>7, <1>8, <1>9

LEMMA RemoveKeepsOwners ==
    ASSUME IInv, NEW c \in Clients, RemoveSession(c)
    PROVE  OwnersInv'
<1> USE DEF IInv, OwnersInv
<1> DEFINE s == call[c].session
<1>1. CASE Step(c, "remove", AfterRemove) /\ owners' = [owners EXCEPT ![s] = @ \ {"registry"}]
  <2>1. /\ CallsTyped' /\ call[c].step = "remove" /\ call'[c].step = "join"
        /\ call'[c].session = s /\ \A d \in Clients : d # c => call'[d] = call[d]
    BY <1>1, CallStep, StepNames
  <2>2. /\ s \in Sessions /\ state[s] = "finished" /\ c \in owners[s]
        /\ handle' = handle /\ state' = state /\ reactor' = reactor
    BY <1>1, <2>1 DEF CallsHold, RemoverKnows, RemoveSession, Remove, registryVars
  <2>3. /\ owners' \in [Sessions -> SUBSET Owners]
        /\ owners'[s] = owners[s] \ {"registry"}
        /\ \A t \in Sessions : t # s => owners'[t] = owners[t]
    BY <1>1, <2>2 DEF SessionsTyped
  <2>4. SessionsTyped' /\ CallsHold'
    BY <2>1, <2>2, <2>3 DEF SessionsTyped, CallsHold
  <2>5. RegisteredOrFinished' /\ RemoverKnows'
    BY <2>1, <2>2, <2>3 DEF RegisteredOrFinished, RemoverKnows
  <2>6. ThreadHeld'
    BY <2>1, <2>2, <2>3 DEF ThreadHeld
  <2> QED BY <2>1, <2>4, <2>5, <2>6
<1>2. CASE Step(c, "remove", "return") /\ UNCHANGED <<registryVars, owners>>
  <2>1. /\ CallsTyped' /\ call[c].step = "remove" /\ call'[c].step = "return"
        /\ call'[c].session = s /\ \A d \in Clients : d # c => call'[d] = call[d]
    BY <1>2, CallStep, StepNames
  <2>2. handle' = handle /\ state' = state /\ reactor' = reactor /\ owners' = owners
    BY <1>2 DEF RemoveSession, registryVars
  <2>3. SessionsTyped' /\ CallsHold' /\ RegisteredOrFinished'
    BY <2>1, <2>2 DEF SessionsTyped, CallsHold, RegisteredOrFinished
  <2>4. RemoverKnows' /\ ThreadHeld'
    BY <2>1, <2>2 DEF RemoverKnows, ThreadHeld
  <2> QED BY <2>1, <2>3, <2>4
<1> QED BY <1>1, <1>2 DEF RemoveSession

LEMMA ReturnKeepsOwners ==
    ASSUME IInv, NEW c \in Clients, Return(c)
    PROVE  OwnersInv'
<1> USE DEF IInv, OwnersInv
<1> DEFINE s == call[c].session
<1>1. /\ call[c].step = "return"
      /\ handle' = handle /\ state' = state /\ reactor' = reactor
  BY DEF Return, registryVars
<1>2. s \in Sessions
  BY <1>1 DEF CallsHold
<1>3. /\ call' \in [Clients -> [step : Steps, session : Sessions \cup {"none"}]]
      /\ call'[c].step = "idle" /\ \A d \in Clients : d # c => call'[d] = call[d]
  BY StepNames DEF Return, Idle, CallsTyped
<1>4. /\ owners' \in [Sessions -> SUBSET Owners]
      /\ owners'[s] = owners[s] \ {c}
      /\ \A t \in Sessions : t # s => owners'[t] = owners[t]
  BY <1>2 DEF Return, SessionsTyped
<1>5. CallsTyped' /\ SessionsTyped'
  BY <1>1, <1>3, <1>4 DEF CallsTyped, SessionsTyped
<1>6. CallsHold'
  BY <1>1, <1>3, <1>4 DEF CallsHold
<1>7. RegisteredOrFinished' /\ RemoverKnows'
  BY <1>1, <1>3, <1>4 DEF RegisteredOrFinished, RemoverKnows
<1>8. ThreadHeld'
  BY <1>1, <1>2, <1>3, <1>4 DEF ThreadHeld
<1> QED BY <1>5, <1>6, <1>7, <1>8

LEMMA OwnersStep ==
    ASSUME IInv, [Next]_vars
    PROVE  OwnersInv'
<1>1. CASE UNCHANGED vars
  BY <1>1 DEF IInv, OwnersInv, CallsTyped, SessionsTyped, CallsHold,
     RegisteredOrFinished, RemoverKnows, ThreadHeld, vars, registryVars
<1>2. ASSUME NEW c \in Clients, ClientNext(c) PROVE OwnersInv'
  BY <1>2, CreateKeepsOwners, LookupKeepsOwners, StartKeepsOwners,
     OtherCallKeepsOwners, RemoveKeepsOwners, ReturnKeepsOwners DEF ClientNext
<1> QED BY <1>1, <1>2, ReactorKeepsOwners DEF Next

\* Triggered, or about to be: what a step that leaves the reactor's side alone
\* keeps for every session.
LEMMA AwakeKept ==
    ASSUME NEW t, Awake(t), \A u \in Sessions : triggered[u] => triggered'[u],
           t \in Sessions,
           \A d \in Clients : call[d].step \in {"wake", "trigger"} => call'[d] = call[d]
    PROVE  Awake(t)'
BY DEF Awake

LEMMA ReactorKeepsWake ==
    ASSUME IInv, NEW s \in Sessions, SessionNext(s)
    PROVE  FlagsTyped' /\ KqueueOpen' /\ WakePending'
<1> USE DEF IInv, OwnersInv, FlagsTyped, SessionsTyped, KqueueOpen, WakePending
<1>1. call' = call
  BY DEF SessionNext, Configure, SpawnFails, KeventReturns, Read,
     ProcessControl, TurnEnds, Finish, CloseDescriptors, ThreadEnds, OnlyReactor
<1>2. CASE \/ Configure(s) \/ SpawnFails(s) \/ KeventReturns(s)
           \/ TurnEnds(s) \/ Finish(s) \/ CloseDescriptors(s) \/ ThreadEnds(s)
  <2>1. requestVars' = requestVars
    BY <1>2 DEF Configure, SpawnFails, KeventReturns, TurnEnds, Finish,
       CloseDescriptors, ThreadEnds
  <2>2. FlagsTyped' /\ KqueueOpen'
    <3>1. CASE Configure(s)
      BY <2>1, <3>1 DEF Configure, Goto, AfterStarted, requestVars
    <3>2. CASE SpawnFails(s) \/ KeventReturns(s) \/ TurnEnds(s)
      BY <2>1, <3>2 DEF SpawnFails, KeventReturns, TurnEnds, Goto, requestVars
    <3>3. CASE Finish(s) \/ CloseDescriptors(s)
      BY <2>1, <3>3 DEF Finish, CloseDescriptors, Goto, requestVars
    <3>4. CASE ThreadEnds(s)
      BY <2>1, <3>4 DEF ThreadEnds, requestVars
    <3> QED BY <1>2, <3>1, <3>2, <3>3, <3>4
  <2>3. ASSUME NEW t \in Sessions, reactor'[t] \in {"turn", "wait"}
        PROVE  reactor[t] \in {"turn", "wait"} /\ triggered'[t] = triggered[t]
    BY <1>2, <2>3 DEF Configure, SpawnFails, KeventReturns, TurnEnds, Finish,
       CloseDescriptors, ThreadEnds, Goto, OnlyReactor, AfterStarted
  <2>4. \A t \in Sessions : Resumable(t)' = Resumable(t) /\ pending'[t] = pending[t]
    BY <2>1 DEF requestVars, Resumable
  <2>5. WakePending'
    BY <1>1, <2>3, <2>4 DEF Awake
  <2> QED BY <2>2, <2>5
<1>3. CASE ProcessControl(s)
  <2>1. /\ pending' = [pending EXCEPT ![s] = FALSE]
        /\ paused' = [paused EXCEPT ![s] = paused[s] /\ ~MayResume(s, retained[s])]
        /\ retained' = retained /\ kqueue' = kqueue /\ triggered' = triggered
        /\ reactor[s] \in {"prepare", "control"}
        /\ \A t \in Sessions : t # s => reactor'[t] = reactor[t]
    BY <1>3 DEF ProcessControl, Goto
  <2>2. (paused[s] /\ ~MayResume(s, retained[s])) \in BOOLEAN
    OBVIOUS
  <2>3. /\ pending' \in [Sessions -> BOOLEAN] /\ paused' \in [Sessions -> BOOLEAN]
        /\ ~pending'[s] /\ (paused'[s] => paused[s] /\ ~MayResume(s, retained[s]))
        /\ \A t \in Sessions : t # s => /\ pending'[t] = pending[t]
                                       /\ paused'[t] = paused[t]
    <3> DEFINE b == paused[s] /\ ~MayResume(s, retained[s])
    <3>1. b \in BOOLEAN /\ paused' = [paused EXCEPT ![s] = b]
      BY <2>1, <2>2
    <3> HIDE DEF b
    <3>2. /\ paused' \in [Sessions -> BOOLEAN] /\ paused'[s] = b
          /\ \A t \in Sessions : t # s => paused'[t] = paused[t]
      BY <3>1
    <3>3. /\ pending' \in [Sessions -> BOOLEAN] /\ ~pending'[s]
          /\ \A t \in Sessions : t # s => pending'[t] = pending[t]
      BY <2>1
    <3> QED BY <3>2, <3>3, Zenon DEF b
  <2>4. FlagsTyped' /\ KqueueOpen'
    BY <2>1, <2>3
  <2>5. ~Resumable(s)'
    <3>1. Resumable(s)' => paused'[s] /\ retained[s] <= LowWater
      BY <2>1 DEF Resumable
    <3>2. paused[s] /\ retained[s] <= LowWater => MayResume(s, retained[s])
      BY DEF MayResume
    <3> QED BY <2>3, <3>1, <3>2
  <2>6. \A t \in Sessions : t # s => Resumable(t)' = Resumable(t)
    BY <2>1, <2>3 DEF Resumable
  <2>7. WakePending'
    BY <1>1, <2>1, <2>3, <2>5, <2>6 DEF Awake
  <2> QED BY <2>4, <2>7
<1>4. CASE Read(s)
  <2>1. /\ reactor' = reactor /\ kqueue' = kqueue /\ triggered' = triggered
        /\ pending' = pending
    BY <1>4 DEF Read
  <2>2. \/ /\ retained[s] < HighWater /\ paused' = [paused EXCEPT ![s] = @ \/ TurnMode]
           /\ retained' = [retained EXCEPT ![s] = @ + 1]
        \/ /\ retained[s] >= HighWater /\ paused' = [paused EXCEPT ![s] = TRUE]
           /\ retained' = retained
    BY <1>4 DEF Read
  <2>3. /\ paused' \in [Sessions -> BOOLEAN]
        /\ \A t \in Sessions : t # s => paused'[t] = paused[t]
        /\ retained[s] < HighWater /\ ~TurnMode => paused'[s] = paused[s]
    <3>1. CASE paused' = [paused EXCEPT ![s] = @ \/ TurnMode]
      <4>1. (paused[s] \/ TurnMode) \in BOOLEAN
        OBVIOUS
      <4> QED BY <3>1, <4>1, Zenon
    <3>2. CASE retained[s] >= HighWater /\ paused' = [paused EXCEPT ![s] = TRUE]
      <4>1. ~(retained[s] < HighWater)
        BY <3>2
      <4> QED BY <3>2, <4>1
    <3> QED BY <2>2, <3>1, <3>2
  <2>4. /\ retained' \in [Sessions -> 0..HighWater]
        /\ \A t \in Sessions : t # s => retained'[t] = retained[t]
        /\ retained'[s] >= retained[s]
        /\ TurnMode \/ retained[s] >= HighWater => retained'[s] > 0
        /\ retained[s] >= HighWater => retained'[s] >= HighWater
    BY <2>2
  <2>5. FlagsTyped' /\ KqueueOpen'
    BY <2>1, <2>3, <2>4
  <2>6. Resumable(s)' => Resumable(s)
    <3>1. CASE retained[s] >= HighWater
      <4>1. ~(retained'[s] <= IF TurnMode THEN 0 ELSE LowWater)
        BY <2>4, <3>1
      <4> QED BY <4>1 DEF Resumable
    <3>2. CASE retained[s] < HighWater /\ TurnMode
      <4>1. ~(retained'[s] <= IF TurnMode THEN 0 ELSE LowWater)
        BY <2>4, <3>2
      <4> QED BY <4>1 DEF Resumable
    <3>3. CASE retained[s] < HighWater /\ ~TurnMode
      <4>1. paused'[s] = paused[s] /\ retained'[s] >= retained[s]
        BY <2>3, <2>4, <3>3
      <4>2. retained'[s] <= LowWater => retained[s] <= LowWater
        BY <2>4, <4>1
      <4> QED BY <3>3, <4>1, <4>2, Zenon DEF Resumable
    <3> QED BY <2>4, <3>1, <3>2, <3>3
  <2>7. \A t \in Sessions : t # s => Resumable(t)' = Resumable(t)
    BY <2>3, <2>4 DEF Resumable
  <2>8. WakePending'
    BY <1>1, <2>1, <2>6, <2>7 DEF Awake
  <2> QED BY <2>5, <2>8
<1> QED BY <1>2, <1>3, <1>4 DEF SessionNext

LEMMA PostKeepsWake ==
    ASSUME IInv, NEW c \in Clients, Post(c)
    PROVE  FlagsTyped' /\ KqueueOpen' /\ WakePending'
<1> DEFINE s == call[c].session
<1>1. /\ call[c].step = "post" /\ s \in Sessions
      /\ \A d \in Clients : d # c => call'[d] = call[d]
      /\ call'[c].session = s
      /\ reactor' = reactor /\ kqueue' = kqueue /\ triggered' = triggered
      /\ paused' = paused /\ retained' = retained
  BY DEF Post, Step, IInv, OwnersInv, CallsHold, CallsTyped
<1>2. \/ pending' = [pending EXCEPT ![s] = TRUE] /\ call'[c].step = "wake"
      \/ pending' = pending
  BY DEF Post, Step, IInv, OwnersInv, CallsTyped
<1>3. FlagsTyped' /\ KqueueOpen'
  BY <1>1, <1>2 DEF IInv, FlagsTyped, KqueueOpen
<1>4. ASSUME NEW t \in Sessions, reactor[t] \in {"turn", "wait"},
             pending'[t] \/ Resumable(t)'
      PROVE  Awake(t)'
  <2>1. CASE pending[t] \/ Resumable(t)
    <3>1. Awake(t)
      BY <1>4, <2>1 DEF IInv, WakePending
    <3> QED BY <1>1, <3>1, AwakeKept
  <2>2. CASE ~pending[t] /\ ~Resumable(t)
    <3>1. pending'[t] /\ t = s /\ call'[c].step = "wake"
      BY <1>1, <1>2, <1>4, <2>2 DEF IInv, FlagsTyped, Resumable
    <3> QED BY <1>1, <3>1 DEF Awake
  <2> QED BY <2>1, <2>2
<1> QED BY <1>1, <1>3, <1>4 DEF WakePending

LEMMA AcknowledgeKeepsWake ==
    ASSUME IInv, NEW c \in Clients, Acknowledge(c)
    PROVE  FlagsTyped' /\ KqueueOpen' /\ WakePending'
<1> DEFINE s == call[c].session
<1>1. /\ call[c].step = "acknowledge" /\ s \in Sessions
      /\ \A d \in Clients : d # c => call'[d] = call[d]
      /\ call'[c].session = s
      /\ reactor' = reactor /\ kqueue' = kqueue /\ triggered' = triggered
      /\ paused' = paused /\ pending' = pending
  BY DEF Acknowledge, Step, IInv, OwnersInv, CallsHold, CallsTyped
<1>2. \/ /\ retained[s] > 0 /\ retained' = [retained EXCEPT ![s] = @ - 1]
         /\ MayResume(s, retained[s] - 1) => call'[c].step = "wake"
      \/ retained' = retained
  BY DEF Acknowledge, Step, IInv, OwnersInv, CallsTyped
<1>3. FlagsTyped' /\ KqueueOpen'
  BY <1>1, <1>2 DEF IInv, FlagsTyped, KqueueOpen
<1>4. ASSUME NEW t \in Sessions, reactor[t] \in {"turn", "wait"},
             pending'[t] \/ Resumable(t)'
      PROVE  Awake(t)'
  <2>1. CASE pending[t] \/ Resumable(t)
    <3>1. Awake(t)
      BY <1>4, <2>1 DEF IInv, WakePending
    <3> QED BY <1>1, <3>1, AwakeKept
  <2>2. CASE ~pending[t] /\ ~Resumable(t)
    <3>1. t = s /\ paused[s] /\ retained'[s] = retained[s] - 1
          /\ retained' = [retained EXCEPT ![s] = @ - 1]
          /\ retained'[s] <= IF TurnMode THEN 0 ELSE LowWater
      BY <1>1, <1>2, <1>4, <2>2 DEF IInv, FlagsTyped, Resumable
    <3>2. MayResume(s, retained[s] - 1)
      <4>1. retained[s] \in Nat /\ (IF TurnMode THEN 0 ELSE LowWater) <= LowWater
        BY <1>1 DEF IInv, FlagsTyped
      <4>2. retained[s] - 1 <= LowWater
        BY <3>1, <4>1
      <4> QED BY <3>1, <4>2 DEF MayResume
    <3>3. call'[c].step = "wake"
      BY <1>1, <1>2, <3>1, <3>2 DEF IInv, FlagsTyped
    <3> QED BY <1>1, <3>1, <3>3 DEF Awake
  <2> QED BY <2>1, <2>2
<1> QED BY <1>1, <1>3, <1>4 DEF WakePending

LEMMA LoadKeepsWake ==
    ASSUME IInv, NEW c \in Clients, LoadKqueue(c)
    PROVE  FlagsTyped' /\ KqueueOpen' /\ WakePending'
<1> DEFINE s == call[c].session
<1>1. /\ call[c].step = "wake" /\ s \in Sessions
      /\ \A d \in Clients : d # c => call'[d] = call[d]
      /\ call'[c].session = s /\ (call'[c].step = "trigger" \/ ~kqueue[s])
      /\ pending' = pending /\ paused' = paused /\ retained' = retained
      /\ reactor' = reactor /\ kqueue' = kqueue /\ triggered' = triggered
  BY DEF LoadKqueue, requestVars, Step, IInv, OwnersInv, CallsHold, CallsTyped
<1>2. FlagsTyped' /\ KqueueOpen'
  BY <1>1 DEF IInv, FlagsTyped, KqueueOpen
<1>3. WakePending'
  BY <1>1 DEF IInv, WakePending, KqueueOpen, Awake, Resumable
<1> QED BY <1>2, <1>3

LEMMA TriggerKeepsWake ==
    ASSUME IInv, NEW c \in Clients, Trigger(c)
    PROVE  FlagsTyped' /\ KqueueOpen' /\ WakePending'
<1> DEFINE s == call[c].session
<1>1. /\ call[c].step = "trigger" /\ s \in Sessions
      /\ \A d \in Clients : d # c => call'[d] = call[d]
      /\ pending' = pending /\ paused' = paused /\ retained' = retained
      /\ reactor' = reactor /\ kqueue' = kqueue
  BY DEF Trigger, requestVars, Step, IInv, OwnersInv, CallsHold, CallsTyped
<1>2. /\ triggered' \in [Sessions -> BOOLEAN]
      /\ \A t \in Sessions : triggered[t] => triggered'[t]
      /\ kqueue[s] => triggered'[s]
  <2>1. CASE kqueue[s] /\ triggered' = [triggered EXCEPT ![s] = TRUE]
    BY <1>1, <2>1 DEF IInv, FlagsTyped
  <2>2. CASE ~kqueue[s] /\ \E t \in Sessions :
                triggered' = [triggered EXCEPT ![t] = @ \/ kqueue[t]]
    <3>1. PICK t \in Sessions : triggered' = [triggered EXCEPT ![t] = @ \/ kqueue[t]]
      BY <2>2
    <3>2. triggered \in [Sessions -> BOOLEAN] /\ kqueue \in [Sessions -> BOOLEAN]
      BY DEF IInv, FlagsTyped
    <3>3. (triggered[t] \/ kqueue[t]) \in BOOLEAN
      BY <3>2
    <3> QED BY <2>2, <3>1, <3>2, <3>3, Zenon
  <2>3. CASE ~kqueue[s] /\ triggered' = triggered
    BY <2>3 DEF IInv, FlagsTyped
  <2> QED BY <2>1, <2>2, <2>3 DEF Trigger
<1>3. FlagsTyped' /\ KqueueOpen'
  BY <1>1, <1>2 DEF IInv, FlagsTyped, KqueueOpen
<1>4. WakePending'
  BY <1>1, <1>2 DEF IInv, WakePending, KqueueOpen, Awake, Resumable
<1> QED BY <1>3, <1>4

\* Calls that are not about to wake anyone.
LEMMA OtherCallKeepsWake ==
    ASSUME IInv, NEW c \in Clients,
           \/ Create(c) \/ Lookup(c) \/ StartSession(c) \/ Destroy(c)
           \/ RemoveSession(c) \/ Join(c) \/ Return(c)
    PROVE  FlagsTyped' /\ KqueueOpen' /\ WakePending'
<1>1. /\ pending' = pending /\ paused' = paused /\ retained' = retained
      /\ kqueue' = kqueue /\ triggered' = triggered
  BY DEF requestVars, Create, Lookup, StartSession, Destroy, RemoveSession, Join, Return
<1>2. \A t \in Sessions : reactor'[t] = reactor[t] \/ reactor'[t] = "spawn"
  <2>1. StartSession(c) \/ reactor' = reactor
    BY DEF Create, Lookup, Destroy, RemoveSession, Join, Return
  <2>2. CASE StartSession(c)
    <3>1. \/ reactor' = [reactor EXCEPT ![call[c].session] = "spawn"]
          \/ reactor' = reactor
      BY <2>2 DEF StartSession
    <3> QED BY <3>1 DEF IInv, OwnersInv, SessionsTyped
  <2> QED BY <2>1, <2>2
<1>3. call[c].step \notin {"wake", "trigger"}
  <2>1. CASE Create(c) \/ Lookup(c)
    <3>1. call[c] = Idle
      BY <2>1 DEF Create, Lookup
    <3>2. call[c].step = "idle"
      BY <3>1 DEF Idle
    <3> QED BY <3>2
  <2>2. CASE StartSession(c) \/ Destroy(c) \/ Join(c) \/ Return(c)
    BY <2>2 DEF StartSession, Destroy, Join, Return, Step
  <2>3. CASE RemoveSession(c)
    BY <2>3 DEF RemoveSession, Step
  <2> QED BY <2>1, <2>2, <2>3
<1>4. \A d \in Clients : d # c => call'[d] = call[d]
  BY DEF Create, Lookup, StartSession, Destroy, RemoveSession, Join, Return,
     Step, IInv, OwnersInv, CallsTyped
<1>5. FlagsTyped' /\ KqueueOpen'
  BY <1>1, <1>2 DEF IInv, FlagsTyped, KqueueOpen
<1>6. WakePending'
  BY <1>1, <1>2, <1>3, <1>4 DEF IInv, WakePending, Awake, Resumable
<1> QED BY <1>5, <1>6

LEMMA WakeStep ==
    ASSUME IInv, [Next]_vars
    PROVE  FlagsTyped' /\ KqueueOpen' /\ WakePending'
<1>1. CASE UNCHANGED vars
  BY <1>1 DEF IInv, FlagsTyped, KqueueOpen, WakePending, Awake, Resumable,
     requestVars, vars
<1>2. ASSUME NEW c \in Clients, ClientNext(c)
      PROVE  FlagsTyped' /\ KqueueOpen' /\ WakePending'
  BY <1>2, PostKeepsWake, AcknowledgeKeepsWake, LoadKeepsWake,
     TriggerKeepsWake, OtherCallKeepsWake DEF ClientNext
<1> QED BY <1>1, <1>2, ReactorKeepsWake DEF Next

-----------------------------------------------------------------------------
\* The registry, the owners and the pending wake-ups together are inductive
\* for any number of sessions, clients and interleavings of their calls.
THEOREM HostInductive == Spec => []IInv
<1>1. Init => IInv
  <2> SUFFICES ASSUME Init PROVE IInv
    OBVIOUS
  <2>1. RegistryInv
    BY DEF Init, RegistryInv, RegistryTyped, HandlesOrdered, SessionsHandled,
       GenerationsCounted, SlotsAccounted, Handles, NoHandle
  <2>2. OwnersInv
    BY StepNames DEF Init, OwnersInv, CallsTyped, SessionsTyped, CallsHold,
       RegisteredOrFinished, RemoverKnows, ThreadHeld, Idle, NoHandle, Owners
  <2>3. FlagsTyped /\ KqueueOpen /\ WakePending
    BY DEF Init, FlagsTyped, KqueueOpen, WakePending
  <2> QED BY <2>1, <2>2, <2>3 DEF IInv
<1>2. IInv /\ [Next]_vars => IInv'
  BY RegistryStep, OwnersStep, WakeStep DEF IInv
<1> QED BY <1>1, <1>2, PTL DEF Spec

\* Every reachable state of the registry, the sessions and the calls is well
\* typed; a generation never leaves its range.
THEOREM HostTypeCorrect == Spec => []TypeOK
<1>1. IInv => TypeOK
  BY DEF IInv, RegistryInv, RegistryTyped, OwnersInv, CallsTyped, SessionsTyped,
     FlagsTyped, TypeOK
<1> QED BY <1>1, HostInductive, PTL

\* A handle never reaches another session than its own (SessionRegistry).
THEOREM HandlesSafe == Spec => []HandleExact
<1>1. IInv => HandleExact
  BY ReachesExact DEF IInv
<1> QED BY <1>1, HostInductive, PTL

\* No slot is freed twice or forgotten (SessionRegistry::Insert, Remove).
THEOREM SlotsSafe == Spec => []SlotsAccounted
<1>1. IInv => SlotsAccounted
  BY DEF IInv, RegistryInv
<1> QED BY <1>1, HostInductive, PTL

\* The thread of a session never runs its destructor, which would join it.
THEOREM JoinSafe == Spec => []NoSelfJoin
<1>1. IInv => NoSelfJoin
  BY DEF IInv, OwnersInv, ThreadHeld, NoSelfJoin
<1> QED BY <1>1, HostInductive, PTL

\* No request, and no paused reader that acknowledgements have brought down to
\* its low water, is left to a reactor that sleeps unwoken (Wake, Acknowledge).
THEOREM WakeSafe == Spec => []NoLostWake
<1>1. IInv => NoLostWake
  BY DEF IInv, WakePending, Awake, NoLostWake
<1> QED BY <1>1, HostInductive, PTL
=============================================================================
