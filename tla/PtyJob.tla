------------------------------- MODULE PtyJob -------------------------------
(***************************************************************************)
(* What GetForegroundJobSnapshot() makes of the kernel's answers: which    *)
(* processes of a group it keeps and counts, which one it calls primary,   *)
(* the order of the others, and the arguments it reads of the primary.     *)
(* A process is its pid; start[pid] is its start time, 0 when the kernel   *)
(* does not tell, Gone when it is no member any more.  A string in the     *)
(* arguments' memory is its length and what it is: the n-th argument or,   *)
(* 0, a part of the environment.                                           *)
(***************************************************************************)
EXTENDS Integers, FiniteSets, SequencesExt

CONSTANTS
    MemberLimit,       \* DPTY_FOREGROUND_PROCESS_LIMIT
    ArgumentLimit,     \* DPTY_FOREGROUND_ARGUMENT_LIMIT
    SingleLimit,       \* DPTY_FOREGROUND_SINGLE_ARGUMENT_LIMIT
    Capacity,          \* DPTY_FOREGROUND_ARGUMENT_BYTES_CAPACITY
    Members,           \* the processes a group may have
    Times,             \* start times, 0 for one the kernel does not tell
    ArgumentLists,     \* the lengths of a process's arguments
    Environments       \* the lengths of its environment strings

\* Capacity - SingleLimit - 1 is a difference of size_t in the code: 65536 and
\* 16384 there.
ASSUME JobAssumption ==
    /\ MemberLimit \in Nat \ {0} /\ ArgumentLimit \in Nat
    /\ SingleLimit \in Nat /\ Capacity \in Nat /\ SingleLimit < Capacity
    /\ Members \subseteq Nat \ {0} /\ IsFiniteSet(Members) /\ Times \subseteq Nat
    /\ ArgumentLists \subseteq Seq(Nat) /\ Environments \subseteq Seq(Nat)

Gone == -1
Smaller(a, b) == IF a <= b THEN a ELSE b
Larger(a, b) == IF a >= b THEN a ELSE b

-----------------------------------------------------------------------------
(* The members.                                                             *)

AppendMember(start, scan, pid) ==
    IF Len(scan.members) >= MemberLimit \/ pid \in ToSet(scan.members) THEN scan
    ELSE IF start[pid] = Gone
    THEN [members |-> scan.members, issues |-> scan.issues + 1]
    ELSE [members |-> Append(scan.members, pid), issues |-> scan.issues]

\* The leader is tried first, then the listed processes in the kernel's order.
Scan(group, listed, start) ==
    LET Add(scan, pid) ==
            IF pid = group THEN scan ELSE AppendMember(start, scan, pid)
    IN FoldLeft(Add, AppendMember(start, [members |-> <<>>, issues |-> 0], group),
                listed)

Total(listed, scan) ==
    Larger(Len(listed), Len(scan.members) + scan.issues)
Omitted(listed, scan) == Total(listed, scan) - Len(scan.members)

-----------------------------------------------------------------------------
(* The primary and the order of the others.                                 *)

BetterByTime(start, p, q) ==
    start[p] < start[q] \/ (start[p] = start[q] /\ p < q)

\* The candidate p is taken instead of the selected q.
Better(start, p, q) ==
    \/ start[p] # 0 /\ start[q] = 0
    \/ start[p] # 0 /\ start[q] # 0 /\ start[p] < start[q]
    \/ start[p] = start[q] /\ p < q

Primary(group, members, start) ==
    LET Select(selected, p) ==
            IF selected # group /\ (p = group \/ Better(start, p, selected))
            THEN p ELSE selected
    IN FoldLeft(Select, members[1], members)

\* The comparison of the sort.
Before(start, p, q) ==
    IF (start[p] = 0) # (start[q] = 0) THEN start[p] # 0
    ELSE IF start[p] # start[q] THEN start[p] < start[q] ELSE p < q

\* std::sort, of a strict total order: as many come before each as are less.
Sorted(start, S) ==
    [i \in 1..Cardinality(S) |->
        CHOOSE p \in S : Cardinality({q \in S : Before(start, q, p)}) = i - 1]

Ordered(group, members, start) ==
    LET primary == Primary(group, members, start)
    IN <<primary>> \o Sorted(start, ToSet(members) \ {primary})

-----------------------------------------------------------------------------
(* ReadProcessArguments(), behind its two sysctl() calls.                   *)

\* The NULs behind the executable's path are skipped, however many.
Arguments(strings) ==
    LET full == {i \in 1..Len(strings) : strings[i].length # 0}
        first == CHOOSE i \in full : \A j \in full : i <= j
    IN IF full = {} THEN <<>> ELSE SubSeq(strings, first, Len(strings))

Reading(arguments, bytes, error, truncated, stopped) ==
    [arguments |-> arguments, bytes |-> bytes, error |-> error,
     truncated |-> truncated, stopped |-> stopped]

TakeArgument(strings, read, i) ==
    IF read.stopped THEN read
    ELSE IF i > Len(strings)
    THEN Reading(read.arguments, read.bytes, TRUE, read.truncated, TRUE)
    ELSE LET retained == Smaller(strings[i].length, SingleLimit) IN
         IF read.bytes > Capacity - retained - 1
         THEN Reading(read.arguments, read.bytes, read.error, TRUE, TRUE)
         ELSE Reading(Append(read.arguments,
                             [of |-> strings[i].of, length |-> retained]),
                      read.bytes + retained + 1, read.error,
                      read.truncated \/ retained # strings[i].length, FALSE)

\* strings are the terminated ones of the copied memory.
ReadArguments(argc, strings) ==
    LET Take(read, i) == TakeArgument(Arguments(strings), read, i)
        read == FoldLeft(Take, Reading(<<>>, 0, FALSE, FALSE, FALSE),
                         [i \in 1..Smaller(argc, ArgumentLimit) |-> i])
    IN Reading(read.arguments, read.bytes, read.error,
               read.truncated \/ Len(read.arguments) < argc, read.stopped)

-----------------------------------------------------------------------------
(* The reference: docs/phase7/context-dock-foreground-process-inspector.md, *)
(* lines 212-214 for the members and 228-231 for the arguments.             *)

\* A process of known start comes before one of unknown start.
Rank(start, p) == IF start[p] = 0 THEN <<1, 0, p>> ELSE <<0, start[p], p>>
Earlier(a, b) ==
    \E i \in 1..3 : a[i] < b[i] /\ \A j \in 1..(i - 1) : a[j] = b[j]

\* Nothing but a leader that has gone before the others is counted beyond the
\* kernel's list.
MembersExact(group, listed, start) ==
    LET live == {p \in ToSet(listed) : start[p] # Gone}
        scan == Scan(group, listed, start)
        kept == ToSet(scan.members)
        order == Ordered(group, scan.members, start)
    IN /\ kept \subseteq live
       /\ Len(scan.members) = Smaller(MemberLimit, Cardinality(live))
       /\ Omitted(listed, scan) - (Len(listed) - Cardinality(kept))
              \in IF group \in live THEN {0} ELSE {0, 1}
       /\ live # {} =>
            /\ ToSet(order) = kept /\ Len(order) = Cardinality(kept)
            /\ IF group \in live THEN order[1] = group
               ELSE \A i \in 2..Len(order) :
                       Earlier(Rank(start, order[1]), Rank(start, order[i]))
            /\ \A i, j \in 2..Len(order) : i < j =>
                  Earlier(Rank(start, order[i]), Rank(start, order[j]))

ArgumentsExact(argv, environment, whole) ==
    LET memory == [i \in 1..(Len(argv) + Len(environment)) |->
                      IF i <= Len(argv) THEN [of |-> i, length |-> argv[i]]
                      ELSE [of |-> 0, length |-> environment[i - Len(argv)]]]
        read == ReadArguments(Len(argv), SubSeq(memory, 1, whole))
        Shown(i) == read.arguments[i]
        Cut(i) == Smaller(argv[i], SingleLimit)
    IN /\ \A i \in 1..Len(read.arguments) :
             Shown(i).of = i /\ Shown(i).length = Cut(i)
       /\ read.bytes <= Capacity
       /\ read.truncated <=> \/ Len(read.arguments) < Len(argv)
                             \/ \E i \in 1..Len(read.arguments) :
                                   Cut(i) # argv[i]
       /\ read.error => whole < Smaller(Len(argv), ArgumentLimit)

\* The kernel names no process of a group twice, and every living one.
Lists == {l \in UNION {[1..n -> Members] : n \in 0..Cardinality(Members)} :
             \A i, j \in DOMAIN l : i # j => l[i] # l[j]}
Starts(listed) ==
    {start \in [Members -> Times \cup {Gone}] :
        \A p \in Members \ ToSet(listed) : start[p] = Gone}

\* Whatever the kernel answers, the members a snapshot keeps, their count, the
\* primary and the order of the others are the documented ones, and the
\* arguments are the first of the primary's own as long as its first argument
\* is not empty.
JobExact ==
    /\ \A group \in Members, listed \in Lists :
          \A start \in Starts(listed) :
             MembersExact(group, listed, start)
    /\ \A argv \in ArgumentLists, environment \in Environments :
          argv # <<>> /\ argv[1] # 0 =>
             \A whole \in 0..(Len(argv) + Len(environment)) :
                ArgumentsExact(argv, environment, whole)
=============================================================================
