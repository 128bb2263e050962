--------------------------- MODULE PtySpawnProofs ---------------------------
(***************************************************************************)
(* What other threads see of a session's descriptors is its own, and an    *)
(* ended session leaves none behind and no child, for any number of        *)
(* sessions and any limit of the descriptor table.                         *)
(***************************************************************************)
EXTENDS PtySpawn, WellFoundedInduction, TLAPS

USE SpawnAssumption DEF Fd, Std

-----------------------------------------------------------------------------
(* The kernel's choice of a descriptor.                                     *)

Less == {ss \in Nat \X Nat : ss[1] < ss[2]}

LEMMA LessIsWellFounded == IsWellFoundedOn(Less, Nat)
BY NatLessThanWellFounded DEF OpToRel, Less

LEMMA Minimum ==
    ASSUME NEW T \in SUBSET Nat, T # {}
    PROVE  \E f \in T : \A g \in T : f <= g
<1>1. PICK f \in T : \A g \in T : ~(<<g, f>> \in Less)
  BY LessIsWellFounded, WFMin
<1>2. \A g \in T : ~(g < f)
  BY <1>1 DEF Less
<1> QED BY <1>2

LEMMA LowestFree ==
    ASSUME NEW from, Free(from) # {}
    PROVE  Lowest(from) \in Free(from)
<1>1. Free(from) \subseteq Nat
  BY DEF Free
<1>2. \E f \in Free(from) : \A g \in Free(from) : f <= g
  BY <1>1, Minimum
<1> QED BY <1>2 DEF Lowest

LEMMA TwoFree ==
    ASSUME HasTwo
    PROVE  /\ Lowest(0) \in Free(0) /\ Second \in Free(0)
           /\ Lowest(0) # Second
<1>1. PICK a \in Free(0), b \in Free(0) : a # b
  BY DEF HasTwo
<1>2. Lowest(0) \in Free(0)
  BY <1>1, LowestFree
<1> DEFINE T == Free(0) \ {Lowest(0)}
<1>3. T \in SUBSET Nat /\ T # {}
  BY <1>1, <1>2 DEF Free
<1> HIDE DEF T
<1>4. PICK f \in T : \A g \in T : f <= g
  BY <1>3, Minimum
<1>5. \E f1 \in Free(0) : /\ f1 # Lowest(0)
                          /\ \A g \in Free(0) : g # Lowest(0) => f1 <= g
  BY <1>4 DEF T
<1>6. Second \in Free(0) /\ Second # Lowest(0)
  BY <1>5 DEF Second
<1> QED BY <1>2, <1>6

-----------------------------------------------------------------------------
(* The descriptor table and the sessions' numbers name each other.          *)

TableTyped ==
    /\ files \in [Fd -> Files]
    /\ number \in [Sessions -> [Kinds -> Numbers]]
NumbersOpen ==
    \A s \in Sessions, k \in Kinds :
        number[s][k] # -1 => files[number[s][k]] = File(k, s)
FilesNumbered ==
    \A s \in Sessions, f \in Fd : files[f].of = s =>
        files[f].kind \in Kinds /\ number[s][files[f].kind] = f
TableInv == TableTyped /\ NumbersOpen /\ FilesNumbered

\* A step changes the numbers of its own session only.
Others(s) == \A t \in Sessions : t # s => number'[t] = number[t]

LEMMA FileParts ==
    \A k, s : File(k, s).kind = k /\ File(k, s).of = s
BY DEF File

LEMMA OpenKeeps ==
    ASSUME TableInv, NEW s \in Sessions, NEW k \in Kinds, NEW f \in Fd,
           files[f] = Closed, number[s][k] = -1, Open(s, k, f)
    PROVE  /\ TableInv' /\ Others(s)
           /\ number'[s] = [number[s] EXCEPT ![k] = f]
<1>1. /\ files \in [Fd -> Files] /\ number \in [Sessions -> [Kinds -> Numbers]]
      /\ files' = [files EXCEPT ![f] = File(k, s)]
      /\ number' = [number EXCEPT ![s] = [number[s] EXCEPT ![k] = f]]
  BY DEF TableInv, TableTyped, Open
<1>2. /\ files'[f] = File(k, s)
      /\ \A g \in Fd : g # f => files'[g] = files[g]
      /\ number'[s] = [number[s] EXCEPT ![k] = f] /\ number'[s][k] = f
      /\ \A j \in Kinds : j # k => number'[s][j] = number[s][j]
      /\ \A t \in Sessions : t # s => number'[t] = number[t]
  BY <1>1
<1>3. TableTyped'
  <2>1. File(k, s) \in Files
    BY DEF File, Files
  <2>2. [number[s] EXCEPT ![k] = f] \in [Kinds -> Numbers]
    BY <1>1 DEF Numbers
  <2> QED BY <1>1, <2>1, <2>2 DEF TableTyped
<1>4. \A t \in Sessions, j \in Kinds : number[t][j] # f
  BY FileParts DEF TableInv, NumbersOpen, Closed
<1>5. NumbersOpen'
  <2>1. ASSUME NEW t \in Sessions, NEW j \in Kinds, number'[t][j] # -1
        PROVE  files'[number'[t][j]] = File(j, t)
    <3>1. CASE t = s /\ j = k
      BY <1>2, <3>1
    <3>2. CASE ~(t = s /\ j = k)
      <4>1. number'[t][j] = number[t][j]
        BY <1>2, <3>2
      <4>2. number[t][j] \in Fd
        BY <1>1, <2>1, <4>1 DEF Numbers
      <4> QED BY <1>2, <1>4, <2>1, <4>1, <4>2 DEF TableInv, NumbersOpen
    <3> QED BY <3>1, <3>2
  <2> QED BY <2>1 DEF NumbersOpen
<1>6. FilesNumbered'
  <2>1. ASSUME NEW t \in Sessions, NEW g \in Fd, files'[g].of = t
        PROVE  files'[g].kind \in Kinds /\ number'[t][files'[g].kind] = g
    <3>1. CASE g = f
      BY <1>2, <2>1, <3>1, FileParts
    <3>2. CASE g # f
      <4>1. files[g].kind \in Kinds /\ number[t][files[g].kind] = g
        BY <1>2, <2>1, <3>2 DEF TableInv, FilesNumbered
      <4>2. g # -1
        OBVIOUS
      <4> QED BY <1>2, <3>2, <4>1, <4>2
    <3> QED BY <3>1, <3>2
  <2> QED BY <2>1 DEF FilesNumbered
<1> QED BY <1>2, <1>3, <1>5, <1>6 DEF TableInv, Others

LEMMA CloseKeeps ==
    ASSUME TableInv, NEW s \in Sessions, NEW kinds \in SUBSET Kinds,
           Close(s, kinds)
    PROVE  /\ TableInv' /\ Others(s)
           /\ \A k \in Kinds :
                 number'[s][k] = IF k \in kinds THEN -1 ELSE number[s][k]
<1> DEFINE gone == {number[s][k] : k \in kinds}
           left == [k \in Kinds |-> IF k \in kinds THEN -1 ELSE number[s][k]]
<1>1. /\ files \in [Fd -> Files] /\ number \in [Sessions -> [Kinds -> Numbers]]
      /\ files' = [f \in Fd |-> IF f \in gone THEN Closed ELSE files[f]]
      /\ number' = [number EXCEPT ![s] = left]
  BY DEF TableInv, TableTyped, Close
<1>2. /\ number'[s] = left
      /\ \A t \in Sessions : t # s => number'[t] = number[t]
      /\ \A f \in Fd : f \notin gone => files'[f] = files[f]
      /\ \A f \in Fd : f \in gone => files'[f] = Closed
  BY <1>1
<1>3. \A k \in Kinds :
         number'[s][k] = IF k \in kinds THEN -1 ELSE number[s][k]
  BY <1>2
<1>4. TableTyped'
  <2>1. left \in [Kinds -> Numbers]
    BY <1>1 DEF Numbers
  <2>2. Closed \in Files
    BY DEF Files
  <2> QED BY <1>1, <2>1, <2>2 DEF TableTyped
<1>5. NumbersOpen'
  <2>1. ASSUME NEW t \in Sessions, NEW j \in Kinds, number'[t][j] # -1
        PROVE  files'[number'[t][j]] = File(j, t)
    <3>1. number'[t][j] = number[t][j] /\ (t = s => j \notin kinds)
      BY <1>2, <1>3, <2>1
    <3>2. files[number[t][j]] = File(j, t) /\ number[t][j] \in Fd
      BY <1>1, <2>1, <3>1 DEF TableInv, NumbersOpen, Numbers
    <3>3. number[t][j] \notin gone
      <4>1. ASSUME NEW k \in kinds, number[s][k] = number[t][j]
            PROVE  FALSE
        <5>1. k \in Kinds /\ files[number[t][j]] = File(k, s)
          BY <3>1, <2>1, <4>1 DEF TableInv, NumbersOpen
        <5>2. File(k, s).kind = File(j, t).kind /\ File(k, s).of = File(j,
       t).of
          BY <3>2, <5>1
        <5>3. k = j /\ s = t
          BY <5>2, FileParts
        <5> QED BY <3>1, <4>1, <5>3
      <4> QED BY <4>1
    <3> QED BY <1>2, <3>1, <3>2, <3>3
  <2> QED BY <2>1 DEF NumbersOpen
<1>6. FilesNumbered'
  <2>1. ASSUME NEW t \in Sessions, NEW f \in Fd, files'[f].of = t
        PROVE  files'[f].kind \in Kinds /\ number'[t][files'[f].kind] = f
    <3>1. f \notin gone
      BY <1>2, <2>1, FileParts DEF Closed
    <3>2. files'[f] = files[f]
      BY <1>2, <3>1
    <3>3. files[f].kind \in Kinds /\ number[t][files[f].kind] = f
      BY <2>1, <3>2 DEF TableInv, FilesNumbered
    <3>4. t = s => files[f].kind \notin kinds
      BY <3>1, <3>3
    <3> QED BY <1>2, <1>3, <3>2, <3>3, <3>4
  <2> QED BY <2>1 DEF FilesNumbered
<1> QED BY <1>2, <1>3, <1>4, <1>5, <1>6 DEF TableInv, Others

LEMMA PipeKeeps ==
    ASSUME TableInv, NEW s \in Sessions, HasTwo, MakePipe(s),
           number[s]["read"] = -1, number[s]["write"] = -1
    PROVE  /\ TableInv' /\ Others(s)
           /\ \A k \in Kinds : k \notin {"read", "write"} =>
                 number'[s][k] = number[s][k]
<1> DEFINE a == Lowest(0)
           b == Second
<1>1. /\ a \in Fd /\ b \in Fd /\ a # b
      /\ files[a] = Closed /\ files[b] = Closed
  BY TwoFree DEF Free
<1>2. /\ files \in [Fd -> Files] /\ number \in [Sessions -> [Kinds -> Numbers]]
      /\ files' = [files EXCEPT ![a] = File("read", s), ![b] = File("write",
       s)]
      /\ number' = [number EXCEPT ![s]["read"] = a, ![s]["write"] = b]
  BY DEF TableInv, TableTyped, MakePipe
<1> HIDE DEF a, b
<1>3. /\ files'[a] = File("read", s) /\ files'[b] = File("write", s)
      /\ \A g \in Fd : g # a /\ g # b => files'[g] = files[g]
  BY <1>1, <1>2
<1>4. /\ number'[s]["read"] = a /\ number'[s]["write"] = b
      /\ \A k \in Kinds : k \notin {"read", "write"} =>
            number'[s][k] = number[s][k]
      /\ \A t \in Sessions : t # s => number'[t] = number[t]
  BY <1>1, <1>2 DEF Kinds
<1>5. TableTyped'
  <2>1. File("read", s) \in Files /\ File("write", s) \in Files
    BY DEF File, Files, Kinds
  <2>2. number' \in [Sessions -> [Kinds -> Numbers]]
    BY <1>1, <1>2 DEF Numbers
  <2> QED BY <1>1, <1>2, <2>1, <2>2 DEF TableTyped
<1>6. \A t \in Sessions, j \in Kinds : number[t][j] # a /\ number[t][j] # b
  BY <1>1, FileParts DEF TableInv, NumbersOpen, Closed
<1>7. NumbersOpen'
  <2>1. ASSUME NEW t \in Sessions, NEW j \in Kinds, number'[t][j] # -1
        PROVE  files'[number'[t][j]] = File(j, t)
    <3>1. CASE t = s /\ j \in {"read", "write"}
      BY <1>3, <1>4, <3>1
    <3>2. CASE ~(t = s /\ j \in {"read", "write"})
      <4>1. number'[t][j] = number[t][j]
        BY <1>4, <3>2
      <4>2. number[t][j] \in Fd
        BY <1>2, <2>1, <4>1 DEF Numbers
      <4> QED BY <1>3, <1>6, <2>1, <4>1, <4>2 DEF TableInv, NumbersOpen
    <3> QED BY <3>1, <3>2
  <2> QED BY <2>1 DEF NumbersOpen
<1>8. FilesNumbered'
  <2>1. ASSUME NEW t \in Sessions, NEW g \in Fd, files'[g].of = t
        PROVE  files'[g].kind \in Kinds /\ number'[t][files'[g].kind] = g
    <3>1. CASE g = a \/ g = b
      BY <1>3, <1>4, <2>1, <3>1, FileParts DEF Kinds
    <3>2. CASE g # a /\ g # b
      <4>1. files[g].kind \in Kinds /\ number[t][files[g].kind] = g
        BY <1>3, <2>1, <3>2 DEF TableInv, FilesNumbered
      <4>2. g # -1
        OBVIOUS
      <4>3. ~(t = s /\ files[g].kind \in {"read", "write"})
        BY <4>1, <4>2
      <4> QED BY <1>3, <1>4, <3>2, <4>1, <4>3
    <3> QED BY <3>1, <3>2
  <2> QED BY <2>1 DEF FilesNumbered
<1> QED BY <1>4, <1>5, <1>7, <1>8 DEF TableInv, Others

LEMMA MoveKeeps ==
    ASSUME TableInv, NEW s \in Sessions, NEW end \in Kinds,
           NEW old, old = number[s][end], NEW new, new = Lowest(3),
           NeedsMove(old), Free(3) # {},
           files' = [files EXCEPT ![new] = File(end, s), ![old] = Closed],
           number' = [number EXCEPT ![s][end] = new]
    PROVE  /\ TableInv' /\ Others(s)
           /\ \A k \in Kinds : k # end => number'[s][k] = number[s][k]
<1>1. /\ new \in Fd /\ old \in Fd /\ new # old /\ old # -1
      /\ files[new] = Closed
  <2>1. new \in Free(3)
    BY LowestFree
  <2>2. old \in Std
    BY DEF NeedsMove
  <2> QED BY <2>1, <2>2 DEF Free
<1>2. /\ files \in [Fd -> Files] /\ number \in [Sessions -> [Kinds -> Numbers]]
  BY DEF TableInv, TableTyped
<1>3. /\ files'[new] = File(end, s) /\ files'[old] = Closed
      /\ \A g \in Fd : g # new /\ g # old => files'[g] = files[g]
  BY <1>1, <1>2
<1>4. /\ number'[s][end] = new
      /\ \A k \in Kinds : k # end => number'[s][k] = number[s][k]
      /\ \A t \in Sessions : t # s => number'[t] = number[t]
  BY <1>1, <1>2
<1>5. TableTyped'
  <2>1. File(end, s) \in Files /\ Closed \in Files
    BY DEF File, Files
  <2>2. number' \in [Sessions -> [Kinds -> Numbers]]
    BY <1>1, <1>2 DEF Numbers
  <2> QED BY <1>1, <1>2, <2>1, <2>2 DEF TableTyped
<1>6. \A t \in Sessions, j \in Kinds :
         /\ number[t][j] # new
         /\ number[t][j] = old => t = s /\ j = end
  <2> TAKE t \in Sessions, j \in Kinds
  <2>2. number[t][j] # new
    BY <1>1, FileParts DEF TableInv, NumbersOpen, Closed
  <2>3. ASSUME number[t][j] = old
        PROVE  t = s /\ j = end
    <3>1. files[old] = File(j, t) /\ files[old] = File(end, s)
      BY <1>1, <2>3 DEF TableInv, NumbersOpen
    <3>2. File(j, t).kind = File(end, s).kind /\ File(j, t).of = File(end,
       s).of
      BY <3>1
    <3> QED BY <3>2, FileParts
  <2> QED BY <2>2, <2>3
<1>7. NumbersOpen'
  <2>1. ASSUME NEW t \in Sessions, NEW j \in Kinds, number'[t][j] # -1
        PROVE  files'[number'[t][j]] = File(j, t)
    <3>1. CASE t = s /\ j = end
      BY <1>3, <1>4, <3>1
    <3>2. CASE ~(t = s /\ j = end)
      <4>1. number'[t][j] = number[t][j]
        BY <1>4, <3>2
      <4>2. number[t][j] \in Fd
        BY <1>2, <2>1, <4>1 DEF Numbers
      <4>3. number[t][j] # new /\ number[t][j] # old
        BY <1>6, <3>2
      <4> QED BY <1>3, <2>1, <4>1, <4>2, <4>3 DEF TableInv, NumbersOpen
    <3> QED BY <3>1, <3>2
  <2> QED BY <2>1 DEF NumbersOpen
<1>8. FilesNumbered'
  <2>1. ASSUME NEW t \in Sessions, NEW g \in Fd, files'[g].of = t
        PROVE  files'[g].kind \in Kinds /\ number'[t][files'[g].kind] = g
    <3>1. CASE g = new
      BY <1>3, <1>4, <2>1, <3>1, FileParts
    <3>2. CASE g = old
      BY <1>3, <2>1, <3>2, FileParts DEF Closed
    <3>3. CASE g # new /\ g # old
      <4>1. files[g].kind \in Kinds /\ number[t][files[g].kind] = g
        BY <1>3, <2>1, <3>3 DEF TableInv, FilesNumbered
      <4>2. ~(t = s /\ files[g].kind = end)
        BY <3>3, <4>1
      <4> QED BY <1>3, <1>4, <3>3, <4>1, <4>2
    <3> QED BY <3>1, <3>2, <3>3
  <2> QED BY <2>1 DEF FilesNumbered
<1> QED BY <1>4, <1>5, <1>7, <1>8 DEF TableInv, Others

-----------------------------------------------------------------------------
(* Where the reactor of a session stands tells what the session may hold.  *)

Preparing == {"moveRead", "moveWrite", "protectRead", "protectWrite",
              "forkpty"}
Looping == {"announce", "control", "wait", "takeQueue"}
MayHold ==
    [read |-> Preparing \cup
         {"release", "protectMaster", "publish", "checkExec", "terminate",
          "takeQueue", "closeQueue"},
     write |-> Preparing \cup {"release"},
     master |-> Looping \cup
         {"release", "protectMaster", "publish", "checkExec", "terminate",
          "kqueue", "register", "closeQueue", "takeMaster", "closeMaster"},
     queue |-> Looping \cup {"register", "closeQueue"}]

\* No process of the session lives here: none is forked yet, or it is reaped.
Quiet == Preparing \cup {"idle", "pipe", "takeQueue", "closeQueue",
                         "takeMaster", "closeMaster", "fail", "ended"}

HoldsInPlace(s) ==
    \A k \in Kinds : number[s][k] # -1 => pc[s] \in MayHold[k]
PublishedInPlace(s) ==
    /\ master_fd[s] # -1 =>
           /\ master_fd[s] = number[s]["master"]
           /\ pc[s] \in Looping \cup {"checkExec", "terminate", "kqueue",
                                      "register", "closeQueue", "takeMaster"}
    /\ kqueue_fd[s] # -1 =>
           /\ kqueue_fd[s] = number[s]["queue"]
           /\ pc[s] \in Looping
ChildInPlace(s) == pc[s] \in Quiet => child[s].status \in {"none", "reaped"}
InPlace(s) == HoldsInPlace(s) /\ PublishedInPlace(s) /\ ChildInPlace(s)

Shaped == /\ DOMAIN pc = Sessions /\ DOMAIN child = Sessions
          /\ DOMAIN master_fd = Sessions /\ DOMAIN kqueue_fd = Sessions
SpawnInv == TableInv /\ Shaped /\ \A s \in Sessions : InPlace(s)

\* A step of s leaves alone where the other sessions stand.
StaysOut(s) ==
    /\ Others(s)
    /\ \A t \in Sessions : t # s =>
           /\ pc'[t] = pc[t] /\ child'[t] = child[t]
           /\ master_fd'[t] = master_fd[t] /\ kqueue_fd'[t] = kqueue_fd[t]

LEMMA OtherPlaces ==
    ASSUME SpawnInv, NEW s \in Sessions, StaysOut(s),
           TableInv', Shaped', InPlace(s)'
    PROVE  SpawnInv'
<1>1. ASSUME NEW t \in Sessions, t # s
      PROVE  InPlace(t)'
  <2>1. /\ pc'[t] = pc[t] /\ child'[t] = child[t]
        /\ master_fd'[t] = master_fd[t] /\ kqueue_fd'[t] = kqueue_fd[t]
        /\ number'[t] = number[t]
    BY <1>1 DEF StaysOut, Others
  <2>2. InPlace(t)
    BY DEF SpawnInv
  <2> QED BY <2>1, <2>2 DEF InPlace, HoldsInPlace, PublishedInPlace,
                            ChildInPlace
<1> QED BY <1>1 DEF SpawnInv

LEMMA SpawnStarts == SpawnInit => SpawnInv
<1> SUFFICES ASSUME SpawnInit PROVE SpawnInv
  OBVIOUS
<1>1. PICK open \in HostOpen :
         files = [f \in Fd |-> IF f \in open THEN HostFile ELSE Closed]
  BY DEF SpawnInit
<1>2. TableTyped
  BY <1>1 DEF SpawnInit, TableTyped, Files, Numbers
<1>3. NumbersOpen
  BY DEF SpawnInit, NumbersOpen
<1>4. FilesNumbered
  <2>1. \A f \in Fd : files[f].of = "none"
    BY <1>1, FileParts DEF HostFile, Closed
  <2> QED BY <2>1 DEF FilesNumbered
<1>5. Shaped /\ \A s \in Sessions : InPlace(s)
  BY DEF SpawnInit, Shaped, InPlace, HoldsInPlace, PublishedInPlace,
         ChildInPlace, NoChild
<1> QED BY <1>2, <1>3, <1>4, <1>5 DEF SpawnInv, TableInv

LEMMA TableUntouched ==
    ASSUME SpawnInv, NEW s \in Sessions, UNCHANGED <<files, number>>
    PROVE  /\ TableInv' /\ Others(s)
           /\ \A k \in Kinds : number'[s][k] = number[s][k]
BY DEF SpawnInv, TableInv, TableTyped, NumbersOpen, FilesNumbered, Others

LEMMA ExecutedKeeps ==
    ASSUME SpawnInv, NEW s \in Sessions, Executed(s)
    PROVE  SpawnInv'
<1>1. CASE Publish(s)
  <2>1. UNCHANGED <<files, number>>
    BY <1>1 DEF Publish, FilesUnchanged
  <2>2. TableInv' /\ Others(s) /\ \A k \in Kinds : number'[s][k] = number[s][k]
    BY <2>1, TableUntouched
  <2>3. StaysOut(s) /\ Shaped'
    BY <1>1, <2>2 DEF Publish, Goto, FailsWith, Kill, StaysOut, Shaped,
       SpawnInv, SharedUnchanged, AnnouncedUnchanged
  <2>4. InPlace(s)'
    BY <1>1, <2>2 DEF Publish, Goto, Kill, NoChild, Shaped, SpawnInv,
       InPlace, HoldsInPlace, PublishedInPlace, ChildInPlace, Kinds, MayHold,
       Looping, Preparing, Quiet, SharedUnchanged, AnnouncedUnchanged
  <2> QED BY <2>2, <2>3, <2>4, OtherPlaces
<1>2. CASE ExecReports(s)
  <2>1. {"read"} \in SUBSET Kinds /\ Close(s, {"read"})
    BY <1>2 DEF ExecReports, Kinds
  <2>2. /\ TableInv' /\ Others(s)
        /\ \A k \in Kinds : number'[s][k] =
               IF k \in {"read"} THEN -1 ELSE number[s][k]
    BY <2>1, CloseKeeps DEF SpawnInv
  <2>3. StaysOut(s) /\ Shaped'
    BY <1>2, <2>2 DEF ExecReports, Goto, FailsWith, Kill, StaysOut, Shaped,
       SpawnInv, SharedUnchanged, AnnouncedUnchanged
  <2>4. InPlace(s)'
    BY <1>2, <2>2 DEF ExecReports, Goto, Kill, NoChild, Shaped, SpawnInv,
       InPlace, HoldsInPlace, PublishedInPlace, ChildInPlace, Kinds, MayHold,
       Looping, Preparing, Quiet, SharedUnchanged, AnnouncedUnchanged
  <2> QED BY <2>2, <2>3, <2>4, OtherPlaces
<1>3. CASE ExecSucceeds(s)
  <2>1. {"read"} \in SUBSET Kinds /\ Close(s, {"read"})
    BY <1>3 DEF ExecSucceeds, Kinds
  <2>2. /\ TableInv' /\ Others(s)
        /\ \A k \in Kinds : number'[s][k] =
               IF k \in {"read"} THEN -1 ELSE number[s][k]
    BY <2>1, CloseKeeps DEF SpawnInv
  <2>3. StaysOut(s) /\ Shaped'
    BY <1>3, <2>2 DEF ExecSucceeds, Goto, FailsWith, Kill, StaysOut, Shaped,
       SpawnInv, SharedUnchanged, AnnouncedUnchanged
  <2>4. InPlace(s)'
    BY <1>3, <2>2 DEF ExecSucceeds, Goto, Kill, NoChild, Shaped, SpawnInv,
       InPlace, HoldsInPlace, PublishedInPlace, ChildInPlace, Kinds, MayHold,
       Looping, Preparing, Quiet, SharedUnchanged, AnnouncedUnchanged
  <2> QED BY <2>2, <2>3, <2>4, OtherPlaces
<1>4. CASE ExecTimesOut(s)
  <2>1. UNCHANGED <<files, number>>
    BY <1>4 DEF ExecTimesOut, FilesUnchanged
  <2>2. TableInv' /\ Others(s) /\ \A k \in Kinds : number'[s][k] = number[s][k]
    BY <2>1, TableUntouched
  <2>3. StaysOut(s) /\ Shaped'
    BY <1>4, <2>2 DEF ExecTimesOut, Goto, FailsWith, Kill, StaysOut, Shaped,
       SpawnInv, SharedUnchanged, AnnouncedUnchanged
  <2>4. InPlace(s)'
    BY <1>4, <2>2 DEF ExecTimesOut, Goto, Kill, NoChild, Shaped, SpawnInv,
       InPlace, HoldsInPlace, PublishedInPlace, ChildInPlace, Kinds, MayHold,
       Looping, Preparing, Quiet, SharedUnchanged, AnnouncedUnchanged
  <2> QED BY <2>2, <2>3, <2>4, OtherPlaces
<1>5. CASE CheckExecFails(s)
  <2>1. UNCHANGED <<files, number>>
    BY <1>5 DEF CheckExecFails, FilesUnchanged
  <2>2. TableInv' /\ Others(s) /\ \A k \in Kinds : number'[s][k] = number[s][k]
    BY <2>1, TableUntouched
  <2>3. StaysOut(s) /\ Shaped'
    BY <1>5, <2>2 DEF CheckExecFails, Goto, FailsWith, Kill, StaysOut, Shaped,
       SpawnInv, SharedUnchanged, AnnouncedUnchanged
  <2>4. InPlace(s)'
    BY <1>5, <2>2 DEF CheckExecFails, Goto, Kill, NoChild, Shaped, SpawnInv,
       InPlace, HoldsInPlace, PublishedInPlace, ChildInPlace, Kinds, MayHold,
       Looping, Preparing, Quiet, SharedUnchanged, AnnouncedUnchanged
  <2> QED BY <2>2, <2>3, <2>4, OtherPlaces
<1>6. CASE TerminateAndReap(s)
  <2>1. UNCHANGED <<files, number>>
    BY <1>6 DEF TerminateAndReap, FilesUnchanged
  <2>2. TableInv' /\ Others(s) /\ \A k \in Kinds : number'[s][k] = number[s][k]
    BY <2>1, TableUntouched
  <2>3. StaysOut(s) /\ Shaped'
    BY <1>6, <2>2 DEF TerminateAndReap, Goto, FailsWith, Kill, StaysOut,
       Shaped,
       SpawnInv, SharedUnchanged, AnnouncedUnchanged
  <2>4. InPlace(s)'
    BY <1>6, <2>2 DEF TerminateAndReap, Goto, Kill, NoChild, Shaped, SpawnInv,
       InPlace, HoldsInPlace, PublishedInPlace, ChildInPlace, Kinds, MayHold,
       Looping, Preparing, Quiet, SharedUnchanged, AnnouncedUnchanged
  <2> QED BY <2>2, <2>3, <2>4, OtherPlaces
<1> QED BY <1>1, <1>2, <1>3, <1>4, <1>5, <1>6 DEF Executed

LEMMA EndedKeeps ==
    ASSUME SpawnInv, NEW s \in Sessions, Ended(s)
    PROVE  SpawnInv'
<1>1. CASE ExitIsReaped(s)
  <2>1. UNCHANGED <<files, number>>
    BY <1>1 DEF ExitIsReaped, FilesUnchanged, Gone
  <2>2. TableInv' /\ Others(s) /\ \A k \in Kinds : number'[s][k] = number[s][k]
    BY <2>1, TableUntouched
  <2>3. StaysOut(s) /\ Shaped'
    BY <1>1, <2>2 DEF ExitIsReaped, Goto, FailsWith, Kill, StaysOut, Shaped,
       SpawnInv, SharedUnchanged, AnnouncedUnchanged, Gone
  <2>4. InPlace(s)'
    BY <1>1, <2>2 DEF ExitIsReaped, Goto, Kill, NoChild, Shaped, SpawnInv,
       InPlace, HoldsInPlace, PublishedInPlace, ChildInPlace, Kinds, MayHold,
       Looping, Preparing, Quiet, SharedUnchanged, AnnouncedUnchanged, Gone
  <2> QED BY <2>2, <2>3, <2>4, OtherPlaces
<1>2. CASE LoopFails(s)
  <2>1. UNCHANGED <<files, number>>
    BY <1>2 DEF LoopFails, FilesUnchanged
  <2>2. TableInv' /\ Others(s) /\ \A k \in Kinds : number'[s][k] = number[s][k]
    BY <2>1, TableUntouched
  <2>3. StaysOut(s) /\ Shaped'
    BY <1>2, <2>2 DEF LoopFails, Goto, FailsWith, Kill, StaysOut, Shaped,
       SpawnInv, SharedUnchanged, AnnouncedUnchanged
  <2>4. InPlace(s)'
    BY <1>2, <2>2 DEF LoopFails, Goto, Kill, NoChild, Shaped, SpawnInv,
       InPlace, HoldsInPlace, PublishedInPlace, ChildInPlace, Kinds, MayHold,
       Looping, Preparing, Quiet, SharedUnchanged, AnnouncedUnchanged
  <2> QED BY <2>2, <2>3, <2>4, OtherPlaces
<1>3. CASE TakeQueue(s)
  <2>1. UNCHANGED <<files, number>>
    BY <1>3 DEF TakeQueue, FilesUnchanged
  <2>2. TableInv' /\ Others(s) /\ \A k \in Kinds : number'[s][k] = number[s][k]
    BY <2>1, TableUntouched
  <2>3. StaysOut(s) /\ Shaped'
    BY <1>3, <2>2 DEF TakeQueue, Goto, FailsWith, Kill, StaysOut, Shaped,
       SpawnInv, SharedUnchanged, AnnouncedUnchanged
  <2>4. InPlace(s)'
    BY <1>3, <2>2 DEF TakeQueue, Goto, Kill, NoChild, Shaped, SpawnInv,
       InPlace, HoldsInPlace, PublishedInPlace, ChildInPlace, Kinds, MayHold,
       Looping, Preparing, Quiet, SharedUnchanged, AnnouncedUnchanged
  <2> QED BY <2>2, <2>3, <2>4, OtherPlaces
<1>4. CASE CloseQueue(s)
  <2>1. {"queue", "read"} \in SUBSET Kinds /\ Close(s, {"queue", "read"})
    BY <1>4 DEF CloseQueue, Kinds
  <2>2. /\ TableInv' /\ Others(s)
        /\ \A k \in Kinds : number'[s][k] =
               IF k \in {"queue", "read"} THEN -1 ELSE number[s][k]
    BY <2>1, CloseKeeps DEF SpawnInv
  <2>3. StaysOut(s) /\ Shaped'
    BY <1>4, <2>2 DEF CloseQueue, Goto, FailsWith, Kill, StaysOut, Shaped,
       SpawnInv, SharedUnchanged, AnnouncedUnchanged
  <2>4. InPlace(s)'
    BY <1>4, <2>2 DEF CloseQueue, Goto, Kill, NoChild, Shaped, SpawnInv,
       InPlace, HoldsInPlace, PublishedInPlace, ChildInPlace, Kinds, MayHold,
       Looping, Preparing, Quiet, SharedUnchanged, AnnouncedUnchanged
  <2> QED BY <2>2, <2>3, <2>4, OtherPlaces
<1>5. CASE TakeMaster(s)
  <2>1. UNCHANGED <<files, number>>
    BY <1>5 DEF TakeMaster, FilesUnchanged
  <2>2. TableInv' /\ Others(s) /\ \A k \in Kinds : number'[s][k] = number[s][k]
    BY <2>1, TableUntouched
  <2>3. StaysOut(s) /\ Shaped'
    BY <1>5, <2>2 DEF TakeMaster, Goto, FailsWith, Kill, StaysOut, Shaped,
       SpawnInv, SharedUnchanged, AnnouncedUnchanged
  <2>4. InPlace(s)'
    BY <1>5, <2>2 DEF TakeMaster, Goto, Kill, NoChild, Shaped, SpawnInv,
       InPlace, HoldsInPlace, PublishedInPlace, ChildInPlace, Kinds, MayHold,
       Looping, Preparing, Quiet, SharedUnchanged, AnnouncedUnchanged
  <2> QED BY <2>2, <2>3, <2>4, OtherPlaces
<1>6. CASE CloseMaster(s)
  <2>1. {"master"} \in SUBSET Kinds /\ Close(s, {"master"})
    BY <1>6 DEF CloseMaster, Kinds
  <2>2. /\ TableInv' /\ Others(s)
        /\ \A k \in Kinds : number'[s][k] =
               IF k \in {"master"} THEN -1 ELSE number[s][k]
    BY <2>1, CloseKeeps DEF SpawnInv
  <2>3. StaysOut(s) /\ Shaped'
    BY <1>6, <2>2 DEF CloseMaster, Goto, FailsWith, Kill, StaysOut, Shaped,
       SpawnInv, SharedUnchanged, AnnouncedUnchanged
  <2>4. InPlace(s)'
    BY <1>6, <2>2 DEF CloseMaster, Goto, Kill, NoChild, Shaped, SpawnInv,
       InPlace, HoldsInPlace, PublishedInPlace, ChildInPlace, Kinds, MayHold,
       Looping, Preparing, Quiet, SharedUnchanged, AnnouncedUnchanged
  <2> QED BY <2>2, <2>3, <2>4, OtherPlaces
<1>7. CASE FinishError(s)
  <2>1. UNCHANGED <<files, number>>
    BY <1>7 DEF FinishError, FilesUnchanged
  <2>2. TableInv' /\ Others(s) /\ \A k \in Kinds : number'[s][k] = number[s][k]
    BY <2>1, TableUntouched
  <2>3. StaysOut(s) /\ Shaped'
    BY <1>7, <2>2 DEF FinishError, Goto, FailsWith, Kill, StaysOut, Shaped,
       SpawnInv, SharedUnchanged, AnnouncedUnchanged
  <2>4. InPlace(s)'
    BY <1>7, <2>2 DEF FinishError, Goto, Kill, NoChild, Shaped, SpawnInv,
       InPlace, HoldsInPlace, PublishedInPlace, ChildInPlace, Kinds, MayHold,
       Looping, Preparing, Quiet, SharedUnchanged, AnnouncedUnchanged
  <2> QED BY <2>2, <2>3, <2>4, OtherPlaces
<1> QED BY <1>1, <1>2, <1>3, <1>4, <1>5, <1>6, <1>7 DEF Ended

LEMMA ChildKeeps ==
    ASSUME SpawnInv, NEW s \in Sessions, ChildSteps(s)
    PROVE  SpawnInv'
<1>1. CASE ChildExecs(s)
  <2>1. UNCHANGED <<files, number>>
    BY <1>1 DEF ChildExecs, FilesUnchanged, ReactorUnchanged
  <2>2. TableInv' /\ Others(s) /\ \A k \in Kinds : number'[s][k] = number[s][k]
    BY <2>1, TableUntouched
  <2>3. StaysOut(s) /\ Shaped'
    BY <1>1, <2>2 DEF ChildExecs, Goto, FailsWith, Kill, StaysOut, Shaped,
       SpawnInv, SharedUnchanged, AnnouncedUnchanged, ReactorUnchanged
  <2>4. InPlace(s)'
    BY <1>1, <2>2 DEF ChildExecs, Goto, Kill, NoChild, Shaped, SpawnInv,
       InPlace, HoldsInPlace, PublishedInPlace, ChildInPlace, Kinds, MayHold,
       Looping, Preparing, Quiet, SharedUnchanged, AnnouncedUnchanged,
       ReactorUnchanged
  <2> QED BY <2>2, <2>3, <2>4, OtherPlaces
<1>2. CASE ChildFails(s)
  <2>1. UNCHANGED <<files, number>>
    BY <1>2 DEF ChildFails, FilesUnchanged, ReactorUnchanged
  <2>2. TableInv' /\ Others(s) /\ \A k \in Kinds : number'[s][k] = number[s][k]
    BY <2>1, TableUntouched
  <2>3. StaysOut(s) /\ Shaped'
    BY <1>2, <2>2 DEF ChildFails, Goto, FailsWith, Kill, StaysOut, Shaped,
       SpawnInv, SharedUnchanged, AnnouncedUnchanged, ReactorUnchanged
  <2>4. InPlace(s)'
    BY <1>2, <2>2 DEF ChildFails, Goto, Kill, NoChild, Shaped, SpawnInv,
       InPlace, HoldsInPlace, PublishedInPlace, ChildInPlace, Kinds, MayHold,
       Looping, Preparing, Quiet, SharedUnchanged, AnnouncedUnchanged,
       ReactorUnchanged
  <2> QED BY <2>2, <2>3, <2>4, OtherPlaces
<1>3. CASE ChildEnds(s)
  <2>1. UNCHANGED <<files, number>>
    BY <1>3 DEF ChildEnds, FilesUnchanged, ReactorUnchanged
  <2>2. TableInv' /\ Others(s) /\ \A k \in Kinds : number'[s][k] = number[s][k]
    BY <2>1, TableUntouched
  <2>3. StaysOut(s) /\ Shaped'
    BY <1>3, <2>2 DEF ChildEnds, Goto, FailsWith, Kill, StaysOut, Shaped,
       SpawnInv, SharedUnchanged, AnnouncedUnchanged, ReactorUnchanged
  <2>4. InPlace(s)'
    BY <1>3, <2>2 DEF ChildEnds, Goto, Kill, NoChild, Shaped, SpawnInv,
       InPlace, HoldsInPlace, PublishedInPlace, ChildInPlace, Kinds, MayHold,
       Looping, Preparing, Quiet, SharedUnchanged, AnnouncedUnchanged,
       ReactorUnchanged
  <2> QED BY <2>2, <2>3, <2>4, OtherPlaces
<1> QED BY <1>1, <1>2, <1>3 DEF ChildSteps

LEMMA AbandonKeeps ==
    ASSUME SpawnInv, NEW s \in Sessions, pc[s] \in Preparing, AbandonPipe(s)
    PROVE  SpawnInv'
<1>1. {"read", "write"} \in SUBSET Kinds /\ Close(s, {"read", "write"})
  BY DEF AbandonPipe, Kinds
<1>2. /\ TableInv' /\ Others(s)
      /\ \A k \in Kinds : number'[s][k] =
             IF k \in {"read", "write"} THEN -1 ELSE number[s][k]
  BY <1>1, CloseKeeps DEF SpawnInv
<1>3. StaysOut(s) /\ Shaped'
  BY <1>2 DEF AbandonPipe, StaysOut, Shaped, SpawnInv, SharedUnchanged
<1>4. InPlace(s)'
  BY <1>2 DEF AbandonPipe, Shaped, SpawnInv, InPlace, HoldsInPlace,
     PublishedInPlace, ChildInPlace, Kinds, MayHold, Looping, Preparing,
     Quiet, SharedUnchanged
<1> QED BY <1>2, <1>3, <1>4, OtherPlaces

\* Both ends of the pipe go the same way.
LEMMA MoveStep ==
    ASSUME SpawnInv, NEW s \in Sessions, NEW end \in {"read", "write"},
           NEW from \in Preparing, NEW to \in Preparing, Move(s, end, from, to)
    PROVE  SpawnInv'
<1> DEFINE old == number[s][end]
           new == Lowest(3)
<1> HIDE DEF old, new
<1>1. CASE ~NeedsMove(old) /\ Goto(s, from, to) /\ FilesUnchanged
           /\ SharedUnchanged /\ child' = child
  <2>1. TableInv' /\ Others(s) /\ \A k \in Kinds : number'[s][k] = number[s][k]
    BY <1>1, TableUntouched DEF FilesUnchanged
  <2>2. StaysOut(s) /\ Shaped'
    BY <1>1, <2>1 DEF Goto, StaysOut, Shaped, SpawnInv, SharedUnchanged
  <2>3. InPlace(s)'
    BY <1>1, <2>1 DEF Goto, Shaped, SpawnInv, InPlace, HoldsInPlace,
       PublishedInPlace, ChildInPlace, Kinds, MayHold, Looping, Preparing,
       Quiet, SharedUnchanged
  <2> QED BY <2>1, <2>2, <2>3, OtherPlaces
<1>2. CASE /\ NeedsMove(old) /\ Free(3) # {} /\ Goto(s, from, to)
           /\ files' = [files EXCEPT ![new] = File(end, s), ![old] = Closed]
           /\ number' = [number EXCEPT ![s][end] = new]
           /\ SharedUnchanged /\ child' = child
  <2>1. /\ TableInv' /\ Others(s)
        /\ \A k \in Kinds : k # end => number'[s][k] = number[s][k]
    <3>1. TableInv /\ end \in Kinds /\ old = number[s][end] /\ new = Lowest(3)
      BY DEF SpawnInv, Kinds, old, new
    <3> QED BY <1>2, <3>1, MoveKeeps
  <2>2. StaysOut(s) /\ Shaped'
    BY <1>2, <2>1 DEF Goto, StaysOut, Shaped, SpawnInv, SharedUnchanged
  <2>3. InPlace(s)'
    BY <1>2, <2>1 DEF Goto, Shaped, SpawnInv, InPlace, HoldsInPlace,
       PublishedInPlace, ChildInPlace, Kinds, MayHold, Looping, Preparing,
       Quiet, SharedUnchanged
  <2> QED BY <2>1, <2>2, <2>3, OtherPlaces
<1>3. CASE pc[s] = from /\ AbandonPipe(s)
  BY <1>3, AbandonKeeps
<1> QED BY <1>1, <1>2, <1>3 DEF Move, old, new

LEMMA PreparedKeeps ==
    ASSUME SpawnInv, NEW s \in Sessions, Prepared(s)
    PROVE  SpawnInv'
<1>1. CASE MakePipe(s)
  <2>1. number[s]["read"] = -1 /\ number[s]["write"] = -1
    BY <1>1 DEF MakePipe, Goto, SpawnInv, InPlace, HoldsInPlace, Kinds,
       MayHold,
       Looping, Preparing
  <2>2. /\ TableInv' /\ Others(s)
        /\ \A k \in Kinds : k \notin {"read", "write"} =>
              number'[s][k] = number[s][k]
    <3>1. HasTwo
      BY <1>1 DEF MakePipe
    <3> QED BY <1>1, <2>1, <3>1, PipeKeeps DEF SpawnInv
  <2>3. StaysOut(s) /\ Shaped'
    BY <1>1, <2>2 DEF MakePipe, Goto, StaysOut, Shaped, SpawnInv,
       SharedUnchanged, AnnouncedUnchanged
  <2>4. /\ pc[s] = "pipe" /\ pc'[s] = "moveRead" /\ child'[s] = child[s]
        /\ master_fd'[s] = master_fd[s] /\ kqueue_fd'[s] = kqueue_fd[s]
    BY <1>1 DEF MakePipe, Goto, Shaped, SpawnInv, SharedUnchanged
  <2>5. InPlace(s)'
    BY <2>2, <2>4 DEF SpawnInv, InPlace, HoldsInPlace, PublishedInPlace,
       ChildInPlace, Kinds, MayHold, Looping, Preparing, Quiet
  <2> QED BY <2>2, <2>3, <2>5, OtherPlaces
<1>2. CASE PipeFails(s)
  <2>1. UNCHANGED <<files, number>>
    BY <1>2 DEF PipeFails, FilesUnchanged
  <2>2. TableInv' /\ Others(s) /\ \A k \in Kinds : number'[s][k] = number[s][k]
    BY <2>1, TableUntouched
  <2>3. StaysOut(s) /\ Shaped'
    BY <1>2, <2>2 DEF PipeFails, Goto, FailsWith, Kill, StaysOut, Shaped,
       SpawnInv, SharedUnchanged, AnnouncedUnchanged
  <2>4. InPlace(s)'
    BY <1>2, <2>2 DEF PipeFails, Goto, Kill, NoChild, Shaped, SpawnInv,
       InPlace, HoldsInPlace, PublishedInPlace, ChildInPlace, Kinds, MayHold,
       Looping, Preparing, Quiet, SharedUnchanged, AnnouncedUnchanged
  <2> QED BY <2>2, <2>3, <2>4, OtherPlaces
<1>3. CASE PrepareMoveRead(s)
  BY <1>3, MoveStep DEF PrepareMoveRead, Preparing, Kinds
<1>4. CASE PrepareMoveWrite(s)
  BY <1>4, MoveStep DEF PrepareMoveWrite, Preparing, Kinds
<1>5. CASE PrepareProtectRead(s)
  <2>1. UNCHANGED <<files, number>>
    BY <1>5 DEF PrepareProtectRead, FilesUnchanged, SetCloseOnExec
  <2>2. TableInv' /\ Others(s) /\ \A k \in Kinds : number'[s][k] = number[s][k]
    BY <2>1, TableUntouched
  <2>3. StaysOut(s) /\ Shaped'
    BY <1>5, <2>2 DEF PrepareProtectRead, Goto, FailsWith, Kill, StaysOut,
       Shaped,
       SpawnInv, SharedUnchanged, AnnouncedUnchanged, SetCloseOnExec
  <2>4. InPlace(s)'
    BY <1>5, <2>2 DEF PrepareProtectRead, Goto, Kill, NoChild, Shaped,
       SpawnInv,
       InPlace, HoldsInPlace, PublishedInPlace, ChildInPlace, Kinds, MayHold,
       Looping, Preparing, Quiet, SharedUnchanged, AnnouncedUnchanged,
       SetCloseOnExec
  <2> QED BY <2>2, <2>3, <2>4, OtherPlaces
<1>6. CASE PrepareProtectWrite(s)
  <2>1. UNCHANGED <<files, number>>
    BY <1>6 DEF PrepareProtectWrite, FilesUnchanged, SetCloseOnExec
  <2>2. TableInv' /\ Others(s) /\ \A k \in Kinds : number'[s][k] = number[s][k]
    BY <2>1, TableUntouched
  <2>3. StaysOut(s) /\ Shaped'
    BY <1>6, <2>2 DEF PrepareProtectWrite, Goto, FailsWith, Kill, StaysOut,
       Shaped,
       SpawnInv, SharedUnchanged, AnnouncedUnchanged, SetCloseOnExec
  <2>4. InPlace(s)'
    BY <1>6, <2>2 DEF PrepareProtectWrite, Goto, Kill, NoChild, Shaped,
       SpawnInv,
       InPlace, HoldsInPlace, PublishedInPlace, ChildInPlace, Kinds, MayHold,
       Looping, Preparing, Quiet, SharedUnchanged, AnnouncedUnchanged,
       SetCloseOnExec
  <2> QED BY <2>2, <2>3, <2>4, OtherPlaces
<1>7. CASE PrepareFails(s)
  BY <1>7, AbandonKeeps DEF PrepareFails, Preparing
<1>8. CASE Forkpty(s)
  <2>1. Free(0) # {}
    BY <1>8 DEF Forkpty, HasTwo
  <2>2. Lowest(0) \in Fd /\ files[Lowest(0)] = Closed
    BY <2>1, LowestFree DEF Free
  <2>3. number[s]["master"] = -1
    BY <1>8 DEF Forkpty, Goto, SpawnInv, InPlace, HoldsInPlace, Kinds, MayHold,
       Looping, Preparing
  <2>4. /\ TableInv' /\ Others(s)
        /\ number'[s] = [number[s] EXCEPT !["master"] = Lowest(0)]
    <3>1. Open(s, "master", Lowest(0)) /\ "master" \in Kinds
      BY <1>8 DEF Forkpty, Kinds
    <3> HIDE DEF Fd
    <3> QED BY <2>2, <2>3, <3>1, OpenKeeps DEF SpawnInv
  <2>5. \A k \in Kinds : k # "master" => number'[s][k] = number[s][k]
    <3>1. DOMAIN number[s] = Kinds
      BY DEF SpawnInv, TableInv, TableTyped
    <3> QED BY <2>4, <3>1
  <2>6. StaysOut(s) /\ Shaped'
    BY <1>8, <2>4 DEF Forkpty, Goto, StaysOut, Shaped, SpawnInv,
       SharedUnchanged, AnnouncedUnchanged
  <2>7. InPlace(s)'
    BY <1>8, <2>5 DEF Forkpty, Goto, Shaped, SpawnInv, InPlace, HoldsInPlace,
       PublishedInPlace, ChildInPlace, Kinds, MayHold, Looping, Preparing,
       Quiet, SharedUnchanged, AnnouncedUnchanged
  <2> QED BY <2>4, <2>6, <2>7, OtherPlaces
<1>9. CASE ForkptyFails(s)
  BY <1>9, AbandonKeeps DEF ForkptyFails, Preparing
<1>10. CASE Release(s)
  <2>1. {"write"} \in SUBSET Kinds /\ Close(s, {"write"})
    BY <1>10 DEF Release, Kinds
  <2>2. /\ TableInv' /\ Others(s)
        /\ \A k \in Kinds : number'[s][k] =
               IF k \in {"write"} THEN -1 ELSE number[s][k]
    BY <2>1, CloseKeeps DEF SpawnInv
  <2>3. StaysOut(s) /\ Shaped'
    BY <1>10, <2>2 DEF Release, Goto, FailsWith, Kill, StaysOut, Shaped,
       SpawnInv, SharedUnchanged, AnnouncedUnchanged
  <2>4. InPlace(s)'
    BY <1>10, <2>2 DEF Release, Goto, Kill, NoChild, Shaped, SpawnInv,
       InPlace, HoldsInPlace, PublishedInPlace, ChildInPlace, Kinds, MayHold,
       Looping, Preparing, Quiet, SharedUnchanged, AnnouncedUnchanged
  <2> QED BY <2>2, <2>3, <2>4, OtherPlaces
<1>11. CASE ProtectMaster(s)
  <2>1. UNCHANGED <<files, number>>
    BY <1>11 DEF ProtectMaster, FilesUnchanged, SetCloseOnExec
  <2>2. TableInv' /\ Others(s) /\ \A k \in Kinds : number'[s][k] = number[s][k]
    BY <2>1, TableUntouched
  <2>3. StaysOut(s) /\ Shaped'
    BY <1>11, <2>2 DEF ProtectMaster, Goto, FailsWith, Kill, StaysOut, Shaped,
       SpawnInv, SharedUnchanged, AnnouncedUnchanged, SetCloseOnExec
  <2>4. InPlace(s)'
    BY <1>11, <2>2 DEF ProtectMaster, Goto, Kill, NoChild, Shaped, SpawnInv,
       InPlace, HoldsInPlace, PublishedInPlace, ChildInPlace, Kinds, MayHold,
       Looping, Preparing, Quiet, SharedUnchanged, AnnouncedUnchanged,
       SetCloseOnExec
  <2> QED BY <2>2, <2>3, <2>4, OtherPlaces
<1>12. CASE ProtectMasterFails(s)
  <2>1. {"master", "read"} \in SUBSET Kinds /\ Close(s, {"master", "read"})
    BY <1>12 DEF ProtectMasterFails, Kinds
  <2>2. /\ TableInv' /\ Others(s)
        /\ \A k \in Kinds : number'[s][k] =
               IF k \in {"master", "read"} THEN -1 ELSE number[s][k]
    BY <2>1, CloseKeeps DEF SpawnInv
  <2>3. StaysOut(s) /\ Shaped'
    BY <1>12, <2>2 DEF ProtectMasterFails, Goto, FailsWith, Kill, StaysOut,
       Shaped,
       SpawnInv, SharedUnchanged, AnnouncedUnchanged
  <2>4. InPlace(s)'
    BY <1>12, <2>2 DEF ProtectMasterFails, Goto, Kill, NoChild, Shaped,
       SpawnInv,
       InPlace, HoldsInPlace, PublishedInPlace, ChildInPlace, Kinds, MayHold,
       Looping, Preparing, Quiet, SharedUnchanged, AnnouncedUnchanged
  <2> QED BY <2>2, <2>3, <2>4, OtherPlaces
<1> QED BY <1>1, <1>2, <1>3, <1>4, <1>5, <1>6, <1>7, <1>8, <1>9, <1>10, <1>11,
       <1>12 DEF Prepared

LEMMA ConfiguredKeeps ==
    ASSUME SpawnInv, NEW s \in Sessions, Configured(s)
    PROVE  SpawnInv'
<1>1. CASE OpenKqueue(s)
  <2>1. Free(0) # {}
    BY <1>1 DEF OpenKqueue, HasTwo
  <2>2. Lowest(0) \in Fd /\ files[Lowest(0)] = Closed
    BY <2>1, LowestFree DEF Free
  <2>3. number[s]["queue"] = -1
    BY <1>1 DEF OpenKqueue, Goto, SpawnInv, InPlace, HoldsInPlace, Kinds,
       MayHold,
       Looping, Preparing
  <2>4. /\ TableInv' /\ Others(s)
        /\ number'[s] = [number[s] EXCEPT !["queue"] = Lowest(0)]
    <3>1. Open(s, "queue", Lowest(0)) /\ "queue" \in Kinds
      BY <1>1 DEF OpenKqueue, Kinds
    <3> HIDE DEF Fd
    <3> QED BY <2>2, <2>3, <3>1, OpenKeeps DEF SpawnInv
  <2>5. \A k \in Kinds : k # "queue" => number'[s][k] = number[s][k]
    <3>1. DOMAIN number[s] = Kinds
      BY DEF SpawnInv, TableInv, TableTyped
    <3> QED BY <2>4, <3>1
  <2>6. StaysOut(s) /\ Shaped'
    BY <1>1, <2>4 DEF OpenKqueue, Goto, StaysOut, Shaped, SpawnInv,
       SharedUnchanged, AnnouncedUnchanged
  <2>7. InPlace(s)'
    BY <1>1, <2>5 DEF OpenKqueue, Goto, Shaped, SpawnInv, InPlace,
       HoldsInPlace,
       PublishedInPlace, ChildInPlace, Kinds, MayHold, Looping, Preparing,
       Quiet, SharedUnchanged, AnnouncedUnchanged
  <2> QED BY <2>4, <2>6, <2>7, OtherPlaces
<1>2. CASE KqueueFails(s)
  <2>1. UNCHANGED <<files, number>>
    BY <1>2 DEF KqueueFails, FilesUnchanged
  <2>2. TableInv' /\ Others(s) /\ \A k \in Kinds : number'[s][k] = number[s][k]
    BY <2>1, TableUntouched
  <2>3. StaysOut(s) /\ Shaped'
    BY <1>2, <2>2 DEF KqueueFails, Goto, FailsWith, Kill, StaysOut, Shaped,
       SpawnInv, SharedUnchanged, AnnouncedUnchanged
  <2>4. InPlace(s)'
    BY <1>2, <2>2 DEF KqueueFails, Goto, Kill, NoChild, Shaped, SpawnInv,
       InPlace, HoldsInPlace, PublishedInPlace, ChildInPlace, Kinds, MayHold,
       Looping, Preparing, Quiet, SharedUnchanged, AnnouncedUnchanged
  <2> QED BY <2>2, <2>3, <2>4, OtherPlaces
<1>3. CASE Register(s)
  <2>1. UNCHANGED <<files, number>>
    BY <1>3 DEF Register, FilesUnchanged
  <2>2. TableInv' /\ Others(s) /\ \A k \in Kinds : number'[s][k] = number[s][k]
    BY <2>1, TableUntouched
  <2>3. StaysOut(s) /\ Shaped'
    BY <1>3, <2>2 DEF Register, Goto, FailsWith, Kill, StaysOut, Shaped,
       SpawnInv, SharedUnchanged, AnnouncedUnchanged
  <2>4. InPlace(s)'
    BY <1>3, <2>2 DEF Register, Goto, Kill, NoChild, Shaped, SpawnInv,
       InPlace, HoldsInPlace, PublishedInPlace, ChildInPlace, Kinds, MayHold,
       Looping, Preparing, Quiet, SharedUnchanged, AnnouncedUnchanged
  <2> QED BY <2>2, <2>3, <2>4, OtherPlaces
<1>4. CASE RegisterFails(s)
  <2>1. {"queue"} \in SUBSET Kinds /\ Close(s, {"queue"})
    BY <1>4 DEF RegisterFails, Kinds
  <2>2. /\ TableInv' /\ Others(s)
        /\ \A k \in Kinds : number'[s][k] =
               IF k \in {"queue"} THEN -1 ELSE number[s][k]
    BY <2>1, CloseKeeps DEF SpawnInv
  <2>3. StaysOut(s) /\ Shaped'
    BY <1>4, <2>2 DEF RegisterFails, Goto, FailsWith, Kill, StaysOut, Shaped,
       SpawnInv, SharedUnchanged, AnnouncedUnchanged
  <2>4. InPlace(s)'
    BY <1>4, <2>2 DEF RegisterFails, Goto, Kill, NoChild, Shaped, SpawnInv,
       InPlace, HoldsInPlace, PublishedInPlace, ChildInPlace, Kinds, MayHold,
       Looping, Preparing, Quiet, SharedUnchanged, AnnouncedUnchanged
  <2> QED BY <2>2, <2>3, <2>4, OtherPlaces
<1>5. CASE Announce(s)
  <2>1. UNCHANGED <<files, number>>
    BY <1>5 DEF Announce, FilesUnchanged
  <2>2. TableInv' /\ Others(s) /\ \A k \in Kinds : number'[s][k] = number[s][k]
    BY <2>1, TableUntouched
  <2>3. StaysOut(s) /\ Shaped'
    BY <1>5, <2>2 DEF Announce, Goto, FailsWith, Kill, StaysOut, Shaped,
       SpawnInv, SharedUnchanged, AnnouncedUnchanged
  <2>4. InPlace(s)'
    BY <1>5, <2>2 DEF Announce, Goto, Kill, NoChild, Shaped, SpawnInv,
       InPlace, HoldsInPlace, PublishedInPlace, ChildInPlace, Kinds, MayHold,
       Looping, Preparing, Quiet, SharedUnchanged, AnnouncedUnchanged
  <2> QED BY <2>2, <2>3, <2>4, OtherPlaces
<1> QED BY <1>1, <1>2, <1>3, <1>4, <1>5 DEF Configured

LEMMA LoopKeeps ==
    ASSUME SpawnInv, NEW s \in Sessions, Begin(s) \/ EnterLoop(s)
    PROVE  SpawnInv'
<1>1. CASE Begin(s)
  <2>1. UNCHANGED <<files, number>>
    BY <1>1 DEF Begin, FilesUnchanged
  <2>2. TableInv' /\ Others(s) /\ \A k \in Kinds : number'[s][k] = number[s][k]
    BY <2>1, TableUntouched
  <2>3. StaysOut(s) /\ Shaped'
    BY <1>1, <2>2 DEF Begin, Goto, FailsWith, Kill, StaysOut, Shaped,
       SpawnInv, SharedUnchanged, AnnouncedUnchanged
  <2>4. InPlace(s)'
    BY <1>1, <2>2 DEF Begin, Goto, Kill, NoChild, Shaped, SpawnInv,
       InPlace, HoldsInPlace, PublishedInPlace, ChildInPlace, Kinds, MayHold,
       Looping, Preparing, Quiet, SharedUnchanged, AnnouncedUnchanged
  <2> QED BY <2>2, <2>3, <2>4, OtherPlaces
<1>2. CASE EnterLoop(s)
  <2>1. UNCHANGED <<files, number>>
    BY <1>2 DEF EnterLoop, FilesUnchanged
  <2>2. TableInv' /\ Others(s) /\ \A k \in Kinds : number'[s][k] = number[s][k]
    BY <2>1, TableUntouched
  <2>3. StaysOut(s) /\ Shaped'
    BY <1>2, <2>2 DEF EnterLoop, Goto, FailsWith, Kill, StaysOut, Shaped,
       SpawnInv, SharedUnchanged, AnnouncedUnchanged
  <2>4. InPlace(s)'
    BY <1>2, <2>2 DEF EnterLoop, Goto, Kill, NoChild, Shaped, SpawnInv,
       InPlace, HoldsInPlace, PublishedInPlace, ChildInPlace, Kinds, MayHold,
       Looping, Preparing, Quiet, SharedUnchanged, AnnouncedUnchanged
  <2> QED BY <2>2, <2>3, <2>4, OtherPlaces
<1> QED BY <1>1, <1>2

LEMMA SpawnSteps == SpawnInv /\ [SpawnNext]_spawnVars => SpawnInv'
<1> SUFFICES ASSUME SpawnInv, [SpawnNext]_spawnVars PROVE SpawnInv'
  OBVIOUS
<1>1. CASE SpawnNext
  <2>1. PICK s \in Sessions :
           Begin(s) \/ Reactor(s) \/ EnterLoop(s) \/ ChildSteps(s)
    BY <1>1 DEF SpawnNext
  <2> QED BY <2>1, LoopKeeps, PreparedKeeps, ExecutedKeeps, ConfiguredKeeps,
             EndedKeeps, ChildKeeps DEF Reactor
<1>2. CASE UNCHANGED spawnVars
  BY <1>2 DEF spawnVars, SpawnInv, TableInv, TableTyped, NumbersOpen,
     FilesNumbered, Shaped, InPlace, HoldsInPlace, PublishedInPlace,
     ChildInPlace
<1> QED BY <1>1, <1>2

-----------------------------------------------------------------------------
\* The descriptor table and the members of the sessions name each other, and
\* where a reactor stands bounds what its session holds, in every state.
THEOREM SpawnInductive == SpawnSpec => []SpawnInv
BY SpawnStarts, SpawnSteps, PTL DEF SpawnSpec

\* What another thread reads from a session is open and is that session's,
\* although every session of the process opens and closes descriptors with
\* the same numbers.
THEOREM PublishedSafe == SpawnSpec => []PublishedIsOwn
<1>1. SpawnInv => PublishedIsOwn
  <2> SUFFICES ASSUME SpawnInv, NEW s \in Sessions
               PROVE  /\ master_fd[s] # -1 =>
                             files[master_fd[s]] = File("master", s)
                      /\ kqueue_fd[s] # -1 =>
                             files[kqueue_fd[s]] = File("queue", s)
    BY DEF PublishedIsOwn
  <2>1. PublishedInPlace(s) /\ NumbersOpen
    BY DEF SpawnInv, InPlace, TableInv
  <2> QED BY <2>1 DEF PublishedInPlace, NumbersOpen, Kinds
<1> QED BY <1>1, SpawnInductive, PTL

\* An ended session leaves no descriptor and no child, whichever of its calls
\* failed, and whatever the other sessions do meanwhile.
THEOREM LeakSafe == SpawnSpec => []NothingLeaks
<1>1. SpawnInv => NothingLeaks
  <2> SUFFICES ASSUME SpawnInv, NEW s \in Sessions, pc[s] = "ended"
               PROVE  /\ \A f \in Fd : files[f].of # s
                      /\ child[s].status \in {"none", "reaped"}
    BY DEF NothingLeaks
  <2>1. InPlace(s) /\ FilesNumbered
    BY DEF SpawnInv, TableInv
  <2>2. \A k \in Kinds : number[s][k] = -1
    BY <2>1 DEF InPlace, HoldsInPlace, Kinds, MayHold, Looping, Preparing
  <2>3. \A f \in Fd : files[f].of # s
    BY <2>1, <2>2 DEF FilesNumbered
  <2>4. child[s].status \in {"none", "reaped"}
    BY <2>1 DEF InPlace, ChildInPlace, Quiet
  <2> QED BY <2>3, <2>4
<1> QED BY <1>1, SpawnInductive, PTL

-----------------------------------------------------------------------------
(* The error pipe tells the truth: from fork to exec the child has its      *)
(* write end, at a number the terminal does not take.                       *)

Beyond == Fd \ Std
MovedRead == {"moveWrite", "protectRead", "protectWrite", "forkpty"}
MovedWrite == {"protectRead", "protectWrite", "forkpty"}
Forked == {"release", "protectMaster", "publish", "checkExec"}
Confirmed == {"kqueue", "register", "announce", "control", "wait"}
Announced == {"control", "wait", "takeQueue", "closeQueue", "takeMaster",
              "closeMaster", "fail", "ended"}

PipeMoved(s) ==
    /\ pc[s] = "moveRead" =>
           number[s]["read"] \in Fd /\ number[s]["write"] \in Fd
    /\ pc[s] \in MovedRead =>
           number[s]["read"] \in Beyond /\ number[s]["write"] \in Fd
    /\ pc[s] \in MovedWrite => number[s]["write"] \in Beyond

ChildShaped(s) == DOMAIN child[s] = DOMAIN NoChild
HasTerminal(s) == \A f \in Std : child[s].files[f] = File("slave", s)
CanReport(s) ==
    /\ child[s].files[child[s].write] = File("write", s)
    /\ child[s].write \in Fd
    /\ child[s].read \in Beyond /\ child[s].close_on_exec \cap Std = {}
ChildTold(s) ==
    /\ child[s].status = "forked" => HasTerminal(s) /\ CanReport(s)
    /\ child[s].status = "execed" => HasTerminal(s)
    /\ child[s].status = "failed" => report[s]
    /\ child[s].status \in {"none", "forked", "execed", "failed", "dead",
                            "reaped"}

\* Past CheckExec() the child runs the program, or did.
Runs(s) == child[s].status \in {"execed", "dead", "reaped"}
ExecKnown(s) ==
    /\ pc[s] \in Forked => child[s].status \notin {"none", "reaped"}
    /\ pc[s] \in Confirmed => Runs(s)
    /\ started[s] => pc[s] \in Announced /\ Runs(s)
Told(s) == PipeMoved(s) /\ ChildShaped(s) /\ ChildTold(s) /\ ExecKnown(s)
TableShaped == /\ DOMAIN report = Sessions /\ DOMAIN started = Sessions
ExecInv == SpawnInv /\ TableShaped /\ \A s \in Sessions : Told(s)

ToldAlone(s) ==
    \A t \in Sessions : t # s =>
        /\ pc'[t] = pc[t] /\ number'[t] = number[t] /\ child'[t] = child[t]
        /\ report'[t] = report[t] /\ started'[t] = started[t]

LEMMA OthersTold ==
    ASSUME ExecInv, NEW s \in Sessions, SpawnInv', ToldAlone(s),
           TableShaped', Told(s)'
    PROVE  ExecInv'
<1>1. ASSUME NEW t \in Sessions, t # s
      PROVE  Told(t)'
  <2>1. /\ pc'[t] = pc[t] /\ number'[t] = number[t] /\ child'[t] = child[t]
        /\ report'[t] = report[t] /\ started'[t] = started[t]
    BY <1>1 DEF ToldAlone
  <2>2. Told(t)
    BY DEF ExecInv
  <2> QED BY <2>1, <2>2 DEF Told, PipeMoved, ChildShaped, ChildTold,
             HasTerminal, CanReport, ExecKnown, Runs
<1> QED BY <1>1 DEF ExecInv

\* A step of the reactor before the fork, or one that only reads the child.
LEMMA ReactorTells ==
    ASSUME ExecInv, NEW s \in Sessions, SpawnInv',
           UNCHANGED <<child, report>>, ToldAlone(s), TableShaped',
           PipeMoved(s)', ExecKnown(s)'
    PROVE  ExecInv'
<1>1. Told(s)
  BY DEF ExecInv
<1>2. ChildShaped(s)' /\ ChildTold(s)'
  BY <1>1 DEF Told, ChildShaped, ChildTold, HasTerminal, CanReport
<1> QED BY <1>2, OthersTold DEF Told

\* A step after which the child is reaped.
LEMMA ReapTells ==
    ASSUME ExecInv, NEW s \in Sessions, SpawnInv', Kill(s),
           UNCHANGED report, ToldAlone(s), TableShaped',
           pc'[s] \in {"fail", "takeQueue"}, started'[s] => started[s]
    PROVE  ExecInv'
<1>1. Told(s)
  BY DEF ExecInv
<1>2. child'[s] = [NoChild EXCEPT !.status = "reaped"]
  BY DEF Kill, ExecInv, SpawnInv, Shaped
<1>3. ChildShaped(s)'
  BY <1>2 DEF ChildShaped
<1>4. child'[s].status = "reaped"
  BY <1>2 DEF NoChild
<1>5. PipeMoved(s)' /\ ChildTold(s)' /\ ExecKnown(s)'
  BY <1>4 DEF PipeMoved, MovedRead, MovedWrite, ChildTold, ExecKnown, Runs,
     Forked, Confirmed, Announced
<1> QED BY <1>3, <1>5, OthersTold DEF Told

LEMMA ExecutedTells ==
    ASSUME ExecInv, SpawnInv', NEW s \in Sessions, Executed(s)
    PROVE  ExecInv'
<1>1. /\ DOMAIN pc = Sessions /\ DOMAIN child = Sessions
      /\ DOMAIN report = Sessions /\ DOMAIN started = Sessions
      /\ number \in [Sessions -> [Kinds -> Numbers]]
  BY DEF ExecInv, TableShaped, SpawnInv, Shaped, TableInv, TableTyped
<1>2. PipeMoved(s) /\ ExecKnown(s) /\ ChildTold(s)
  BY DEF ExecInv, Told
<1> USE DEF PipeMoved, ExecKnown
<1>3. CASE Publish(s)
  <2>1. ToldAlone(s) /\ TableShaped' /\ UNCHANGED <<child, report>>
    BY <1>3, <1>1 DEF Publish, ToldAlone, TableShaped, Goto, Close, Open,
       FilesUnchanged, AnnouncedUnchanged
  <2>2. PipeMoved(s)' /\ ExecKnown(s)'
    BY <1>3, <1>1, <1>2 DEF Publish, Goto, FilesUnchanged, AnnouncedUnchanged,
       MovedRead, MovedWrite, Forked, Confirmed, Announced,
       Runs
  <2> QED BY <2>1, <2>2, ReactorTells
<1>4. CASE ExecReports(s)
  <2>1. ToldAlone(s) /\ TableShaped' /\ UNCHANGED <<child, report>>
    BY <1>4, <1>1 DEF ExecReports, ToldAlone, TableShaped, Goto, Close, Open,
       FilesUnchanged, AnnouncedUnchanged, Close, Kinds
  <2>2. PipeMoved(s)' /\ ExecKnown(s)'
    BY <1>4, <1>1, <1>2 DEF ExecReports, Goto, FilesUnchanged,
       AnnouncedUnchanged,
       MovedRead, MovedWrite, Forked, Confirmed, Announced,
       Runs, Close, Kinds
  <2> QED BY <2>1, <2>2, ReactorTells
<1>5. CASE ExecSucceeds(s)
  <2>1. ToldAlone(s) /\ TableShaped' /\ UNCHANGED <<child, report>>
    BY <1>5, <1>1 DEF ExecSucceeds, ToldAlone, TableShaped, Goto, Close,
       AnnouncedUnchanged
  <2>2. child[s].status \notin {"forked", "failed"}
    BY <1>5, <1>2 DEF ExecSucceeds, ChildTold, CanReport, WriteEndOpen, Holds
  <2>3. pc[s] = "checkExec" /\ pc'[s] = "kqueue" /\ started' = started
    BY <1>5, <1>1 DEF ExecSucceeds, Goto, AnnouncedUnchanged
  <2>4. child[s].status \notin {"none", "reaped"}
    BY <1>2, <2>3 DEF Forked
  <2>5. PipeMoved(s)' /\ ExecKnown(s)'
    BY <1>2, <2>1, <2>2, <2>3, <2>4 DEF ChildTold, MovedRead, MovedWrite,
       Forked, Confirmed, Announced, Runs
  <2> QED BY <2>1, <2>5, ReactorTells
<1>6. CASE ExecTimesOut(s)
  <2>1. ToldAlone(s) /\ TableShaped' /\ UNCHANGED <<child, report>>
    BY <1>6, <1>1 DEF ExecTimesOut, ToldAlone, TableShaped, Goto, Close, Open,
       FilesUnchanged, AnnouncedUnchanged
  <2>2. PipeMoved(s)' /\ ExecKnown(s)'
    BY <1>6, <1>1, <1>2 DEF ExecTimesOut, Goto, FilesUnchanged,
       AnnouncedUnchanged,
       MovedRead, MovedWrite, Forked, Confirmed, Announced,
       Runs
  <2> QED BY <2>1, <2>2, ReactorTells
<1>7. CASE CheckExecFails(s)
  <2>1. ToldAlone(s) /\ TableShaped' /\ UNCHANGED <<child, report>>
    BY <1>7, <1>1 DEF CheckExecFails, ToldAlone, TableShaped, Goto, Close,
       Open,
       FilesUnchanged, AnnouncedUnchanged
  <2>2. PipeMoved(s)' /\ ExecKnown(s)'
    BY <1>7, <1>1, <1>2 DEF CheckExecFails, Goto, FilesUnchanged,
       AnnouncedUnchanged,
       MovedRead, MovedWrite, Forked, Confirmed, Announced,
       Runs
  <2> QED BY <2>1, <2>2, ReactorTells
<1>8. CASE TerminateAndReap(s)
  <2>1. /\ ToldAlone(s) /\ TableShaped' /\ Kill(s) /\ UNCHANGED report
        /\ pc'[s] \in {"fail", "takeQueue"} /\ started' = started
    BY <1>8, <1>1 DEF TerminateAndReap, ToldAlone, TableShaped, Goto, Close,
       Kill,
       FilesUnchanged, AnnouncedUnchanged
  <2> QED BY <2>1, ReapTells
<1> QED BY <1>3, <1>4, <1>5, <1>6, <1>7, <1>8 DEF Executed

LEMMA ConfiguredTells ==
    ASSUME ExecInv, SpawnInv', NEW s \in Sessions, Configured(s)
    PROVE  ExecInv'
<1>1. /\ DOMAIN pc = Sessions /\ DOMAIN child = Sessions
      /\ DOMAIN report = Sessions /\ DOMAIN started = Sessions
      /\ number \in [Sessions -> [Kinds -> Numbers]]
  BY DEF ExecInv, TableShaped, SpawnInv, Shaped, TableInv, TableTyped
<1>2. PipeMoved(s) /\ ExecKnown(s) /\ ChildTold(s)
  BY DEF ExecInv, Told
<1> USE DEF PipeMoved, ExecKnown
<1>3. CASE OpenKqueue(s)
  <2>1. ToldAlone(s) /\ TableShaped' /\ UNCHANGED <<child, report>>
    BY <1>3, <1>1 DEF OpenKqueue, ToldAlone, TableShaped, Goto, Close, Open,
       FilesUnchanged, AnnouncedUnchanged
  <2>2. PipeMoved(s)' /\ ExecKnown(s)'
    BY <1>3, <1>1, <1>2 DEF OpenKqueue, Goto, FilesUnchanged,
       AnnouncedUnchanged,
       MovedRead, MovedWrite, Forked, Confirmed, Announced,
       Runs
  <2> QED BY <2>1, <2>2, ReactorTells
<1>4. CASE KqueueFails(s)
  <2>1. ToldAlone(s) /\ TableShaped' /\ UNCHANGED <<child, report>>
    BY <1>4, <1>1 DEF KqueueFails, ToldAlone, TableShaped, Goto, Close, Open,
       FilesUnchanged, AnnouncedUnchanged
  <2>2. PipeMoved(s)' /\ ExecKnown(s)'
    BY <1>4, <1>1, <1>2 DEF KqueueFails, Goto, FilesUnchanged,
       AnnouncedUnchanged,
       MovedRead, MovedWrite, Forked, Confirmed, Announced,
       Runs
  <2> QED BY <2>1, <2>2, ReactorTells
<1>5. CASE Register(s)
  <2>1. ToldAlone(s) /\ TableShaped' /\ UNCHANGED <<child, report>>
    BY <1>5, <1>1 DEF Register, ToldAlone, TableShaped, Goto, Close, Open,
       FilesUnchanged, AnnouncedUnchanged
  <2>2. PipeMoved(s)' /\ ExecKnown(s)'
    BY <1>5, <1>1, <1>2 DEF Register, Goto, FilesUnchanged, AnnouncedUnchanged,
       MovedRead, MovedWrite, Forked, Confirmed, Announced,
       Runs
  <2> QED BY <2>1, <2>2, ReactorTells
<1>6. CASE RegisterFails(s)
  <2>1. ToldAlone(s) /\ TableShaped' /\ UNCHANGED <<child, report>>
    BY <1>6, <1>1 DEF RegisterFails, ToldAlone, TableShaped, Goto, Close, Open,
       FilesUnchanged, AnnouncedUnchanged
  <2>2. PipeMoved(s)' /\ ExecKnown(s)'
    BY <1>6, <1>1, <1>2 DEF RegisterFails, Goto, FilesUnchanged,
       AnnouncedUnchanged,
       MovedRead, MovedWrite, Forked, Confirmed, Announced,
       Runs
  <2> QED BY <2>1, <2>2, ReactorTells
<1>7. CASE Announce(s)
  <2>1. ToldAlone(s) /\ TableShaped' /\ UNCHANGED <<child, report>>
    BY <1>7, <1>1 DEF Announce, ToldAlone, TableShaped, Goto, Close, Open,
       FilesUnchanged, AnnouncedUnchanged
  <2>2. PipeMoved(s)' /\ ExecKnown(s)'
    BY <1>7, <1>1, <1>2 DEF Announce, Goto, FilesUnchanged, AnnouncedUnchanged,
       MovedRead, MovedWrite, Forked, Confirmed, Announced,
       Runs
  <2> QED BY <2>1, <2>2, ReactorTells
<1> QED BY <1>3, <1>4, <1>5, <1>6, <1>7 DEF Configured

LEMMA EndedTells ==
    ASSUME ExecInv, SpawnInv', NEW s \in Sessions, Ended(s)
    PROVE  ExecInv'
<1>1. /\ DOMAIN pc = Sessions /\ DOMAIN child = Sessions
      /\ DOMAIN report = Sessions /\ DOMAIN started = Sessions
      /\ number \in [Sessions -> [Kinds -> Numbers]]
  BY DEF ExecInv, TableShaped, SpawnInv, Shaped, TableInv, TableTyped
<1>2. PipeMoved(s) /\ ExecKnown(s) /\ ChildTold(s)
  BY DEF ExecInv, Told
<1> USE DEF PipeMoved, ExecKnown
<1>3. CASE ExitIsReaped(s)
  <2>1. /\ ToldAlone(s) /\ TableShaped' /\ Kill(s) /\ UNCHANGED report
        /\ pc'[s] \in {"fail", "takeQueue"} /\ started' = started
    BY <1>3, <1>1 DEF ExitIsReaped, ToldAlone, TableShaped, Goto, Close, Kill,
       FilesUnchanged, AnnouncedUnchanged
  <2> QED BY <2>1, ReapTells
<1>4. CASE LoopFails(s)
  <2>1. /\ ToldAlone(s) /\ TableShaped' /\ Kill(s) /\ UNCHANGED report
        /\ pc'[s] \in {"fail", "takeQueue"} /\ started' = started
    BY <1>4, <1>1 DEF LoopFails, ToldAlone, TableShaped, Goto, Close, Kill,
       FilesUnchanged, AnnouncedUnchanged
  <2> QED BY <2>1, ReapTells
<1>5. CASE TakeQueue(s)
  <2>1. ToldAlone(s) /\ TableShaped' /\ UNCHANGED <<child, report>>
    BY <1>5, <1>1 DEF TakeQueue, ToldAlone, TableShaped, Goto, Close, Open,
       FilesUnchanged, AnnouncedUnchanged
  <2>2. PipeMoved(s)' /\ ExecKnown(s)'
    BY <1>5, <1>1, <1>2 DEF TakeQueue, Goto, FilesUnchanged,
       AnnouncedUnchanged,
       MovedRead, MovedWrite, Forked, Confirmed, Announced,
       Runs
  <2> QED BY <2>1, <2>2, ReactorTells
<1>6. CASE CloseQueue(s)
  <2>1. ToldAlone(s) /\ TableShaped' /\ UNCHANGED <<child, report>>
    BY <1>6, <1>1 DEF CloseQueue, ToldAlone, TableShaped, Goto, Close, Open,
       FilesUnchanged, AnnouncedUnchanged
  <2>2. PipeMoved(s)' /\ ExecKnown(s)'
    BY <1>6, <1>1, <1>2 DEF CloseQueue, Goto, FilesUnchanged,
       AnnouncedUnchanged,
       MovedRead, MovedWrite, Forked, Confirmed, Announced,
       Runs
  <2> QED BY <2>1, <2>2, ReactorTells
<1>7. CASE TakeMaster(s)
  <2>1. ToldAlone(s) /\ TableShaped' /\ UNCHANGED <<child, report>>
    BY <1>7, <1>1 DEF TakeMaster, ToldAlone, TableShaped, Goto, Close, Open,
       FilesUnchanged, AnnouncedUnchanged
  <2>2. PipeMoved(s)' /\ ExecKnown(s)'
    BY <1>7, <1>1, <1>2 DEF TakeMaster, Goto, FilesUnchanged,
       AnnouncedUnchanged,
       MovedRead, MovedWrite, Forked, Confirmed, Announced,
       Runs
  <2> QED BY <2>1, <2>2, ReactorTells
<1>8. CASE CloseMaster(s)
  <2>1. ToldAlone(s) /\ TableShaped' /\ UNCHANGED <<child, report>>
    BY <1>8, <1>1 DEF CloseMaster, ToldAlone, TableShaped, Goto, Close, Open,
       FilesUnchanged, AnnouncedUnchanged
  <2>2. PipeMoved(s)' /\ ExecKnown(s)'
    BY <1>8, <1>1, <1>2 DEF CloseMaster, Goto, FilesUnchanged,
       AnnouncedUnchanged,
       MovedRead, MovedWrite, Forked, Confirmed, Announced,
       Runs
  <2> QED BY <2>1, <2>2, ReactorTells
<1>9. CASE FinishError(s)
  <2>1. ToldAlone(s) /\ TableShaped' /\ UNCHANGED <<child, report>>
    BY <1>9, <1>1 DEF FinishError, ToldAlone, TableShaped, Goto, Close, Open,
       FilesUnchanged, AnnouncedUnchanged
  <2>2. PipeMoved(s)' /\ ExecKnown(s)'
    BY <1>9, <1>1, <1>2 DEF FinishError, Goto, FilesUnchanged,
       AnnouncedUnchanged,
       MovedRead, MovedWrite, Forked, Confirmed, Announced,
       Runs
  <2> QED BY <2>1, <2>2, ReactorTells
<1> QED BY <1>3, <1>4, <1>5, <1>6, <1>7, <1>8, <1>9 DEF Ended

LEMMA LoopTells ==
    ASSUME ExecInv, SpawnInv', NEW s \in Sessions, Begin(s) \/ EnterLoop(s)
    PROVE  ExecInv'
<1>1. /\ DOMAIN pc = Sessions /\ DOMAIN child = Sessions
      /\ DOMAIN report = Sessions /\ DOMAIN started = Sessions
      /\ number \in [Sessions -> [Kinds -> Numbers]]
  BY DEF ExecInv, TableShaped, SpawnInv, Shaped, TableInv, TableTyped
<1>2. PipeMoved(s) /\ ExecKnown(s) /\ ChildTold(s)
  BY DEF ExecInv, Told
<1> USE DEF PipeMoved, ExecKnown
<1>3. CASE Begin(s)
  <2>1. ToldAlone(s) /\ TableShaped' /\ UNCHANGED <<child, report>>
    BY <1>3, <1>1 DEF Begin, ToldAlone, TableShaped, Goto, Close, Open,
       FilesUnchanged, AnnouncedUnchanged
  <2>2. PipeMoved(s)' /\ ExecKnown(s)'
    BY <1>3, <1>1, <1>2 DEF Begin, Goto, FilesUnchanged, AnnouncedUnchanged,
       MovedRead, MovedWrite, Forked, Confirmed, Announced,
       Runs
  <2> QED BY <2>1, <2>2, ReactorTells
<1>4. CASE EnterLoop(s)
  <2>1. ToldAlone(s) /\ TableShaped' /\ UNCHANGED <<child, report>>
    BY <1>4, <1>1 DEF EnterLoop, ToldAlone, TableShaped, Goto, Close, Open,
       FilesUnchanged, AnnouncedUnchanged
  <2>2. PipeMoved(s)' /\ ExecKnown(s)'
    BY <1>4, <1>1, <1>2 DEF EnterLoop, Goto, FilesUnchanged,
       AnnouncedUnchanged,
       MovedRead, MovedWrite, Forked, Confirmed, Announced,
       Runs
  <2> QED BY <2>1, <2>2, ReactorTells
<1> QED BY <1>3, <1>4

LEMMA AbandonTells ==
    ASSUME ExecInv, SpawnInv', NEW s \in Sessions, pc[s] \in Preparing,
           AbandonPipe(s)
    PROVE  ExecInv'
<1>1. /\ DOMAIN pc = Sessions /\ DOMAIN child = Sessions
      /\ DOMAIN report = Sessions /\ DOMAIN started = Sessions
      /\ number \in [Sessions -> [Kinds -> Numbers]]
  BY DEF ExecInv, TableShaped, SpawnInv, Shaped, TableInv, TableTyped
<1>2. PipeMoved(s) /\ ExecKnown(s) /\ ChildTold(s)
  BY DEF ExecInv, Told
<1> USE DEF PipeMoved, ExecKnown
<1>3. ToldAlone(s) /\ TableShaped' /\ UNCHANGED <<child, report>>
  BY <1>1 DEF AbandonPipe, ToldAlone, TableShaped, Close, AnnouncedUnchanged
<1>4. PipeMoved(s)' /\ ExecKnown(s)'
  BY <1>1, <1>2 DEF AbandonPipe, AnnouncedUnchanged, Preparing, MovedRead,
     MovedWrite, Forked, Confirmed, Announced
<1> QED BY <1>3, <1>4, ReactorTells

LEMMA PreparedTells ==
    ASSUME ExecInv, SpawnInv', NEW s \in Sessions, Prepared(s)
    PROVE  ExecInv'
<1>1. /\ DOMAIN pc = Sessions /\ DOMAIN child = Sessions
      /\ DOMAIN report = Sessions /\ DOMAIN started = Sessions
      /\ number \in [Sessions -> [Kinds -> Numbers]]
  BY DEF ExecInv, TableShaped, SpawnInv, Shaped, TableInv, TableTyped
<1>2. PipeMoved(s) /\ ExecKnown(s) /\ ChildTold(s)
  BY DEF ExecInv, Told
<1> USE DEF PipeMoved, ExecKnown
<1>3. CASE MakePipe(s)
  <2>1. Lowest(0) \in Fd /\ Second \in Fd
    <3>1. HasTwo
      BY <1>3 DEF MakePipe
    <3> QED BY <3>1, TwoFree DEF Free
  <2>2. /\ pc' = [pc EXCEPT ![s] = "moveRead"] /\ pc[s] = "pipe"
        /\ number' = [number EXCEPT ![s]["read"] = Lowest(0),
                                    ![s]["write"] = Second]
        /\ UNCHANGED <<child, report, started>>
    BY <1>3 DEF MakePipe, Goto, AnnouncedUnchanged
  <2>3. /\ number'[s]["read"] = Lowest(0) /\ number'[s]["write"] = Second
        /\ \A r \in Sessions : r # s => number'[r] = number[r]
    BY <1>1, <2>2 DEF Kinds
  <2>4. ToldAlone(s) /\ TableShaped'
    BY <1>1, <2>2, <2>3 DEF ToldAlone, TableShaped
  <2>5. PipeMoved(s)' /\ ExecKnown(s)'
    BY <1>1, <1>2, <2>1, <2>2, <2>3 DEF MovedRead, MovedWrite, Forked,
       Confirmed,
       Announced, Runs
  <2> QED BY <2>2, <2>4, <2>5, ReactorTells
<1>4. CASE PipeFails(s)
  <2>1. ToldAlone(s) /\ TableShaped' /\ UNCHANGED <<child, report>>
    BY <1>4, <1>1 DEF PipeFails, ToldAlone, TableShaped, Goto, Close, Open,
       FilesUnchanged, AnnouncedUnchanged
  <2>2. PipeMoved(s)' /\ ExecKnown(s)'
    BY <1>4, <1>1, <1>2 DEF PipeFails, Goto, FilesUnchanged,
       AnnouncedUnchanged,
       MovedRead, MovedWrite, Forked, Confirmed, Announced,
       Runs
  <2> QED BY <2>1, <2>2, ReactorTells
<1>5. CASE PrepareMoveRead(s)
  <2> DEFINE old == number[s]["read"]
             new == Lowest(3)
  <2> HIDE DEF old, new
  <2>1. \/ /\ ~NeedsMove(old) /\ pc' = [pc EXCEPT ![s] = "moveWrite"]
           /\ number' = number
        \/ /\ Free(3) # {} /\ pc' = [pc EXCEPT ![s] = "moveWrite"]
           /\ number' = [number EXCEPT ![s]["read"] = new]
        \/ AbandonPipe(s)
    BY <1>5 DEF PrepareMoveRead, Move, Goto, FilesUnchanged, old, new
  <2>2. pc[s] = "moveRead" /\ UNCHANGED <<child, report, started>>
    BY <1>5 DEF PrepareMoveRead, Move, Goto, AbandonPipe, AnnouncedUnchanged
  <2>3. CASE ~NeedsMove(old) /\ pc' = [pc EXCEPT ![s] = "moveWrite"]
             /\ number' = number
    <3>1. ToldAlone(s) /\ TableShaped'
      BY <1>1, <2>2, <2>3 DEF ToldAlone, TableShaped
    <3>2. PipeMoved(s)' /\ ExecKnown(s)'
      BY <1>1, <1>2, <2>2, <2>3 DEF MovedRead, MovedWrite, Forked, Confirmed,
         Announced, Runs, NeedsMove, Beyond, old
    <3> QED BY <2>2, <3>1, <3>2, ReactorTells
  <2>4. CASE /\ Free(3) # {} /\ pc' = [pc EXCEPT ![s] = "moveWrite"]
             /\ number' = [number EXCEPT ![s]["read"] = new]
    <3>1. new \in Beyond
      BY <2>4, LowestFree DEF Free, Beyond, new
    <3>2. /\ number'[s]["read"] = new
          /\ number'[s]["write"] = number[s]["write"]
          /\ \A r \in Sessions : r # s => number'[r] = number[r]
      BY <1>1, <2>4 DEF Kinds
    <3>3. ToldAlone(s) /\ TableShaped'
      BY <1>1, <2>2, <2>4, <3>2 DEF ToldAlone, TableShaped
    <3>4. PipeMoved(s)' /\ ExecKnown(s)'
      BY <1>1, <1>2, <2>2, <2>4, <3>1, <3>2 DEF MovedRead, MovedWrite, Forked,
         Confirmed, Announced, Runs, Beyond
    <3> QED BY <2>2, <3>3, <3>4, ReactorTells
  <2>5. CASE AbandonPipe(s)
    BY <2>2, <2>5, AbandonTells DEF Preparing
  <2> QED BY <2>1, <2>3, <2>4, <2>5
<1>6. CASE PrepareMoveWrite(s)
  <2> DEFINE old == number[s]["write"]
             new == Lowest(3)
  <2> HIDE DEF old, new
  <2>1. \/ /\ ~NeedsMove(old) /\ pc' = [pc EXCEPT ![s] = "protectRead"]
           /\ number' = number
        \/ /\ Free(3) # {} /\ pc' = [pc EXCEPT ![s] = "protectRead"]
           /\ number' = [number EXCEPT ![s]["write"] = new]
        \/ AbandonPipe(s)
    BY <1>6 DEF PrepareMoveWrite, Move, Goto, FilesUnchanged, old, new
  <2>2. pc[s] = "moveWrite" /\ UNCHANGED <<child, report, started>>
    BY <1>6 DEF PrepareMoveWrite, Move, Goto, AbandonPipe, AnnouncedUnchanged
  <2>3. CASE ~NeedsMove(old) /\ pc' = [pc EXCEPT ![s] = "protectRead"]
             /\ number' = number
    <3>1. ToldAlone(s) /\ TableShaped'
      BY <1>1, <2>2, <2>3 DEF ToldAlone, TableShaped
    <3>2. PipeMoved(s)' /\ ExecKnown(s)'
      BY <1>1, <1>2, <2>2, <2>3 DEF MovedRead, MovedWrite, Forked, Confirmed,
         Announced, Runs, NeedsMove, Beyond, old
    <3> QED BY <2>2, <3>1, <3>2, ReactorTells
  <2>4. CASE /\ Free(3) # {} /\ pc' = [pc EXCEPT ![s] = "protectRead"]
             /\ number' = [number EXCEPT ![s]["write"] = new]
    <3>1. new \in Beyond
      BY <2>4, LowestFree DEF Free, Beyond, new
    <3>2. /\ number'[s]["write"] = new
          /\ number'[s]["read"] = number[s]["read"]
          /\ \A r \in Sessions : r # s => number'[r] = number[r]
      BY <1>1, <2>4 DEF Kinds
    <3>3. ToldAlone(s) /\ TableShaped'
      BY <1>1, <2>2, <2>4, <3>2 DEF ToldAlone, TableShaped
    <3>4. PipeMoved(s)' /\ ExecKnown(s)'
      BY <1>1, <1>2, <2>2, <2>4, <3>1, <3>2 DEF MovedRead, MovedWrite, Forked,
         Confirmed, Announced, Runs, Beyond
    <3> QED BY <2>2, <3>3, <3>4, ReactorTells
  <2>5. CASE AbandonPipe(s)
    BY <2>2, <2>5, AbandonTells DEF Preparing
  <2> QED BY <2>1, <2>3, <2>4, <2>5
<1>7. CASE PrepareProtectRead(s)
  <2>1. ToldAlone(s) /\ TableShaped' /\ UNCHANGED <<child, report>>
    BY <1>7, <1>1 DEF PrepareProtectRead, ToldAlone, TableShaped, Goto, Close,
       Open,
       FilesUnchanged, AnnouncedUnchanged, SetCloseOnExec
  <2>2. PipeMoved(s)' /\ ExecKnown(s)'
    BY <1>7, <1>1, <1>2 DEF PrepareProtectRead, Goto, FilesUnchanged,
       AnnouncedUnchanged,
       MovedRead, MovedWrite, Forked, Confirmed, Announced,
       Runs, SetCloseOnExec
  <2> QED BY <2>1, <2>2, ReactorTells
<1>8. CASE PrepareProtectWrite(s)
  <2>1. ToldAlone(s) /\ TableShaped' /\ UNCHANGED <<child, report>>
    BY <1>8, <1>1 DEF PrepareProtectWrite, ToldAlone, TableShaped, Goto,
       Close, Open,
       FilesUnchanged, AnnouncedUnchanged, SetCloseOnExec
  <2>2. PipeMoved(s)' /\ ExecKnown(s)'
    BY <1>8, <1>1, <1>2 DEF PrepareProtectWrite, Goto, FilesUnchanged,
       AnnouncedUnchanged,
       MovedRead, MovedWrite, Forked, Confirmed, Announced,
       Runs, SetCloseOnExec
  <2> QED BY <2>1, <2>2, ReactorTells
<1>9. CASE PrepareFails(s)
  BY <1>9, AbandonTells DEF PrepareFails, Preparing
<1>10. CASE Forkpty(s)
  <2>1. /\ pc[s] = "forkpty" /\ pc' = [pc EXCEPT ![s] = "release"]
        /\ UNCHANGED <<report, started>>
        /\ number' = [number EXCEPT ![s]["master"] = Lowest(0)]
        /\ child' = [child EXCEPT ![s] = child'[s]]
    BY <1>1, <1>10 DEF Forkpty, Goto, Open, AnnouncedUnchanged
  <2>2. /\ DOMAIN child'[s] = DOMAIN NoChild
        /\ child'[s].status = "forked"
        /\ child'[s].close_on_exec = close_on_exec \ Std
        /\ child'[s].read = number[s]["read"]
        /\ child'[s].write = number[s]["write"]
        /\ \A f \in Fd : child'[s].files[f] = Inherited(s, f)
    BY <1>1, <1>10 DEF Forkpty, NoChild
  <2>3. ToldAlone(s) /\ TableShaped'
    BY <1>1, <2>1 DEF ToldAlone, TableShaped
  <2>4. number[s]["read"] \in Beyond /\ number[s]["write"] \in Beyond
    BY <1>2, <2>1 DEF MovedRead, MovedWrite
  <2>5. files[number[s]["write"]] = File("write", s)
    BY <2>4 DEF ExecInv, SpawnInv, TableInv, NumbersOpen, Beyond, Kinds
  <2>6. Inherited(s, number[s]["write"]) = File("write", s)
    BY <2>4, <2>5, FileParts DEF Inherited, Beyond
  <2>7. CanReport(s)'
    BY <2>2, <2>4, <2>6 DEF CanReport, Beyond
  <2>8. HasTerminal(s)'
    BY <2>2 DEF HasTerminal, Inherited
  <2>9. PipeMoved(s)' /\ ExecKnown(s)'
    BY <1>1, <1>2, <2>1, <2>2 DEF MovedRead, MovedWrite, Forked, Confirmed,
       Announced, Runs
  <2>10. Told(s)'
    BY <2>2, <2>7, <2>8, <2>9 DEF Told, ChildShaped, ChildTold
  <2> QED BY <2>3, <2>10, OthersTold
<1>11. CASE ForkptyFails(s)
  BY <1>11, AbandonTells DEF ForkptyFails, Preparing
<1>12. CASE Release(s)
  <2>1. ToldAlone(s) /\ TableShaped' /\ UNCHANGED <<child, report>>
    BY <1>12, <1>1 DEF Release, ToldAlone, TableShaped, Goto, Close, Open,
       FilesUnchanged, AnnouncedUnchanged
  <2>2. PipeMoved(s)' /\ ExecKnown(s)'
    BY <1>12, <1>1, <1>2 DEF Release, Goto, FilesUnchanged, AnnouncedUnchanged,
       MovedRead, MovedWrite, Forked, Confirmed, Announced,
       Runs
  <2> QED BY <2>1, <2>2, ReactorTells
<1>13. CASE ProtectMaster(s)
  <2>1. ToldAlone(s) /\ TableShaped' /\ UNCHANGED <<child, report>>
    BY <1>13, <1>1 DEF ProtectMaster, ToldAlone, TableShaped, Goto, Close,
       Open,
       FilesUnchanged, AnnouncedUnchanged, SetCloseOnExec
  <2>2. PipeMoved(s)' /\ ExecKnown(s)'
    BY <1>13, <1>1, <1>2 DEF ProtectMaster, Goto, FilesUnchanged,
       AnnouncedUnchanged,
       MovedRead, MovedWrite, Forked, Confirmed, Announced,
       Runs, SetCloseOnExec
  <2> QED BY <2>1, <2>2, ReactorTells
<1>14. CASE ProtectMasterFails(s)
  <2>1. /\ ToldAlone(s) /\ TableShaped' /\ Kill(s) /\ UNCHANGED report
        /\ pc'[s] \in {"fail", "takeQueue"} /\ started' = started
    BY <1>14, <1>1 DEF ProtectMasterFails, ToldAlone, TableShaped, Goto,
       Close, Kill,
       FilesUnchanged, AnnouncedUnchanged
  <2> QED BY <2>1, ReapTells
<1> QED BY <1>3, <1>4, <1>5, <1>6, <1>7, <1>8, <1>9, <1>10, <1>11, <1>12,
       <1>13, <1>14 DEF Prepared

LEMMA ChildTells ==
    ASSUME ExecInv, SpawnInv', NEW s \in Sessions, ChildSteps(s)
    PROVE  ExecInv'
<1>1. /\ DOMAIN child = Sessions /\ DOMAIN report = Sessions
      /\ DOMAIN started = Sessions /\ ChildShaped(s)
  BY DEF ExecInv, TableShaped, SpawnInv, Shaped, Told
<1>2. PipeMoved(s) /\ ExecKnown(s) /\ ChildTold(s)
  BY DEF ExecInv, Told
<1>3. /\ pc' = pc /\ number' = number /\ started' = started
      /\ PipeMoved(s)'
  BY <1>2 DEF ChildSteps, ChildExecs, ChildFails, ChildEnds, ReactorUnchanged,
     FilesUnchanged, AnnouncedUnchanged, PipeMoved
<1>4. ToldAlone(s) /\ TableShaped'
  BY <1>1, <1>3 DEF ChildSteps, ChildExecs, ChildFails, ChildEnds, ToldAlone,
     TableShaped
<1>5. CASE ChildExecs(s)
  <2> DEFINE gone == child[s].close_on_exec \cup {child[s].read}
  <2>1. /\ child[s].status = "forked" /\ report' = report
        /\ child' = [child EXCEPT
                        ![s].status = "execed",
                        ![s].close_on_exec = {},
                        ![s].files = [f \in Fd |-> IF f \in gone THEN Closed
                                                   ELSE @[f]]]
    BY <1>5 DEF ChildExecs
  <2>2. \A f \in Std : f \in Fd /\ f \notin gone
    BY <1>2, <2>1 DEF ChildTold, CanReport, Beyond
  <2> HIDE DEF gone
  <2>3. /\ DOMAIN child'[s] = DOMAIN NoChild /\ child'[s].status = "execed"
        /\ \A f \in Fd : f \notin gone =>
               child'[s].files[f] = child[s].files[f]
    BY <1>1, <2>1 DEF ChildShaped, NoChild
  <2>4. HasTerminal(s)'
    <3> HIDE DEF Std, Fd
    <3> QED BY <1>2, <2>1, <2>2, <2>3 DEF ChildTold, HasTerminal
  <2>5. ChildShaped(s)' /\ ChildTold(s)' /\ ExecKnown(s)'
    BY <1>2, <1>3, <2>1, <2>3, <2>4 DEF ChildShaped, ChildTold, ExecKnown, Runs
  <2> QED BY <1>3, <1>4, <2>5, OthersTold DEF Told
<1>6. CASE ChildFails(s)
  <2>1. /\ child[s].status = "forked" /\ report'[s]
        /\ child' = [child EXCEPT ![s] = [NoChild EXCEPT !.status = "failed"]]
    BY <1>1, <1>2, <1>6 DEF ChildFails, ChildTold, CanReport
  <2>2. DOMAIN child'[s] = DOMAIN NoChild /\ child'[s].status = "failed"
    BY <1>1, <2>1 DEF NoChild
  <2>3. ChildShaped(s)' /\ ChildTold(s)' /\ ExecKnown(s)'
    BY <1>2, <1>3, <2>1, <2>2 DEF ChildShaped, ChildTold, ExecKnown, Runs
  <2> QED BY <1>3, <1>4, <2>3, OthersTold DEF Told
<1>7. CASE ChildEnds(s)
  <2>1. /\ child[s].status = "execed"
        /\ child' = [child EXCEPT ![s] = [NoChild EXCEPT !.status = "dead"]]
    BY <1>7 DEF ChildEnds
  <2>2. DOMAIN child'[s] = DOMAIN NoChild /\ child'[s].status = "dead"
    BY <1>1, <2>1 DEF NoChild
  <2>3. ChildShaped(s)' /\ ChildTold(s)' /\ ExecKnown(s)'
    BY <1>2, <1>3, <2>1, <2>2 DEF ChildShaped, ChildTold, ExecKnown, Runs
  <2> QED BY <1>3, <1>4, <2>3, OthersTold DEF Told
<1> QED BY <1>5, <1>6, <1>7 DEF ChildSteps

LEMMA ExecStarts == SpawnInit => ExecInv
BY SpawnStarts DEF SpawnInit, ExecInv, TableShaped, Told, PipeMoved, MovedRead,
   MovedWrite, ChildShaped, ChildTold, ExecKnown, Forked, Confirmed, Announced,
   NoChild

LEMMA ExecSteps == ExecInv /\ [SpawnNext]_spawnVars => ExecInv'
<1> SUFFICES ASSUME ExecInv, [SpawnNext]_spawnVars PROVE ExecInv'
  OBVIOUS
<1>1. SpawnInv'
  BY SpawnSteps DEF ExecInv
<1>2. CASE SpawnNext
  <2>1. PICK s \in Sessions :
           Begin(s) \/ Reactor(s) \/ EnterLoop(s) \/ ChildSteps(s)
    BY <1>2 DEF SpawnNext
  <2> QED BY <1>1, <2>1, LoopTells, PreparedTells, ExecutedTells,
             ConfiguredTells, EndedTells, ChildTells DEF Reactor
<1>3. CASE UNCHANGED spawnVars
  BY <1>1, <1>3 DEF spawnVars, ExecInv, TableShaped, Told, PipeMoved,
     ChildShaped, ChildTold, HasTerminal, CanReport, ExecKnown, Runs
<1> QED BY <1>2, <1>3

\* STARTED is emitted for a child that runs the program and for no other, on
\* its own terminal: the error pipe cannot be lost to the terminal's numbers
\* or to the sessions that fork at the same time.
THEOREM StartedSafe == SpawnSpec => []StartedIsTrue
<1>1. ExecInv => StartedIsTrue
  BY DEF ExecInv, Told, ExecKnown, ChildTold, HasTerminal, Runs, StartedIsTrue
<1> QED BY <1>1, ExecStarts, ExecSteps, PTL DEF SpawnSpec

-----------------------------------------------------------------------------
(* The rest of the types.                                                   *)

StatesTyped ==
    /\ pc \in [Sessions -> Places]
    /\ state \in [Sessions -> {"created", "running", "finished"}]
    /\ error \in [Sessions -> {"none", "system", "timeout", "child"}]
    /\ started \in [Sessions -> BOOLEAN]
    /\ report \in [Sessions -> BOOLEAN]
SharedTyped ==
    /\ master_fd \in [Sessions -> Numbers]
    /\ kqueue_fd \in [Sessions -> Numbers]
ChildrenTyped == child \in [Sessions -> ChildStates]
\* A descriptor that is about to be protected is one.
MasterHeld(s) ==
    pc[s] \in {"release", "protectMaster"} => number[s]["master"] \in Fd
FlagsHeld == close_on_exec \subseteq Fd /\ \A s \in Sessions : MasterHeld(s)

\* A step of one session.
SpawnStep(s) == Begin(s) \/ Reactor(s) \/ EnterLoop(s) \/ ChildSteps(s)

LEMMA StatesKept ==
    ASSUME StatesTyped, NEW s \in Sessions, SpawnStep(s)
    PROVE  StatesTyped'
<1> DEFINE Fails == {"none", "system", "timeout", "child"}
           Stays == /\ pc' \in [Sessions -> Places]
                    /\ error' \in [Sessions -> Fails]
<1>1. ASSUME NEW from, NEW to \in Places, Goto(s, from, to)
      PROVE  pc' \in [Sessions -> Places]
  BY <1>1 DEF Goto, StatesTyped
<1>2. ASSUME NEW what \in Fails, FailsWith(s, what)
      PROVE  error' \in [Sessions -> Fails]
  BY <1>2 DEF FailsWith, StatesTyped
<1>3. UNCHANGED error => error' \in [Sessions -> Fails]
  BY DEF StatesTyped
<1>4. ASSUME AbandonPipe(s)
      PROVE  Stays
  BY <1>2, <1>4 DEF AbandonPipe, StatesTyped, Places
<1>5. ASSUME NEW end, NEW from, NEW to \in Places, Move(s, end, from, to)
      PROVE  Stays
  BY <1>1, <1>3, <1>4, <1>5 DEF Move
<1>6. ASSUME NEW end, NEW from, NEW to \in Places, SetCloseOnExec(s, end, from, to)
      PROVE  Stays
  BY <1>1, <1>3, <1>6 DEF SetCloseOnExec
<1>7. CASE Prepared(s)
  <2>1. Stays
    BY <1>1, <1>2, <1>3, <1>4, <1>5, <1>6, <1>7
       DEF Prepared, MakePipe, PipeFails, PrepareMoveRead, PrepareMoveWrite,
           PrepareProtectRead, PrepareProtectWrite, PrepareFails, Forkpty,
           ForkptyFails, Release, ProtectMaster, ProtectMasterFails, Places
  <2>2. UNCHANGED <<state, started, report>>
    BY <1>7 DEF Prepared, MakePipe, PipeFails, PrepareMoveRead, PrepareMoveWrite,
           PrepareProtectRead, PrepareProtectWrite, PrepareFails, Forkpty,
           ForkptyFails, Release, ProtectMaster, ProtectMasterFails, Move,
           SetCloseOnExec, AbandonPipe, AnnouncedUnchanged
  <2> QED BY <2>1, <2>2 DEF StatesTyped
<1>8. CASE Executed(s)
  <2>1. Stays
    BY <1>1, <1>2, <1>3, <1>8
       DEF Executed, Publish, ExecReports, ExecSucceeds, ExecTimesOut,
           CheckExecFails, TerminateAndReap, Places
  <2>2. UNCHANGED <<state, started, report>>
    BY <1>8 DEF Executed, Publish, ExecReports, ExecSucceeds, ExecTimesOut,
           CheckExecFails, TerminateAndReap, AnnouncedUnchanged
  <2> QED BY <2>1, <2>2 DEF StatesTyped
<1>9. CASE Configured(s)
  <2>1. Stays
    BY <1>1, <1>2, <1>3, <1>9
       DEF Configured, OpenKqueue, KqueueFails, Register, RegisterFails, Announce,
           Places
  <2>2. UNCHANGED <<state, report>> /\ started' \in [Sessions -> BOOLEAN]
    BY <1>9 DEF Configured, OpenKqueue, KqueueFails, Register, RegisterFails,
           Announce, AnnouncedUnchanged, StatesTyped
  <2> QED BY <2>1, <2>2 DEF StatesTyped
<1>10. CASE Ended(s)
  <2>1. Stays
    BY <1>1, <1>2, <1>3, <1>10
       DEF Ended, ExitIsReaped, LoopFails, TakeQueue, CloseQueue, TakeMaster,
           CloseMaster, FinishError, Places
  <2>2. /\ UNCHANGED <<started, report>>
        /\ state' \in [Sessions -> {"created", "running", "finished"}]
    BY <1>10 DEF Ended, ExitIsReaped, LoopFails, TakeQueue, CloseQueue, TakeMaster,
           CloseMaster, FinishError, AnnouncedUnchanged, StatesTyped
  <2> QED BY <2>1, <2>2 DEF StatesTyped
<1>11. CASE Begin(s) \/ EnterLoop(s)
  <2>1. Stays
    BY <1>1, <1>3, <1>11 DEF Begin, EnterLoop, Places
  <2> QED BY <1>11, <2>1 DEF Begin, EnterLoop, AnnouncedUnchanged, StatesTyped
<1>12. CASE ChildSteps(s)
  <2>1. UNCHANGED <<pc, error, state, started>>
    BY <1>12 DEF ChildSteps, ChildExecs, ChildFails, ChildEnds, ReactorUnchanged,
           AnnouncedUnchanged
  <2>2. report' \in [Sessions -> BOOLEAN]
    BY <1>12 DEF ChildSteps, ChildExecs, ChildFails, ChildEnds, StatesTyped
  <2> QED BY <2>1, <2>2 DEF StatesTyped
<1> QED BY <1>7, <1>8, <1>9, <1>10, <1>11, <1>12 DEF SpawnStep, Reactor

LEMMA SharedKept ==
    ASSUME TableTyped, SharedTyped, NEW s \in Sessions, SpawnStep(s)
    PROVE  SharedTyped'
<1>1. number[s]["master"] \in Numbers /\ number[s]["queue"] \in Numbers
  BY DEF TableTyped, Kinds
<1>2. CASE Publish(s) \/ Register(s) \/ TakeQueue(s) \/ TakeMaster(s)
  BY <1>1, <1>2 DEF Publish, Register, TakeQueue, TakeMaster, SharedTyped, Numbers
<1>3. CASE SharedUnchanged
  BY <1>3 DEF SharedUnchanged, SharedTyped
<1>4. CASE Prepared(s)
  <2>1. SharedUnchanged
    BY <1>4 DEF Prepared, MakePipe, PipeFails, PrepareMoveRead, PrepareMoveWrite,
           PrepareProtectRead, PrepareProtectWrite, PrepareFails, Forkpty,
           ForkptyFails, Release, ProtectMaster, ProtectMasterFails, Move,
           SetCloseOnExec, AbandonPipe
  <2> QED BY <1>3, <2>1
<1>5. CASE Executed(s)
  BY <1>2, <1>3, <1>5 DEF Executed, ExecReports, ExecSucceeds, ExecTimesOut,
     CheckExecFails, TerminateAndReap
<1>6. CASE Configured(s)
  BY <1>2, <1>3, <1>6 DEF Configured, OpenKqueue, KqueueFails, RegisterFails,
     Announce
<1>7. CASE Ended(s)
  BY <1>2, <1>3, <1>7 DEF Ended, ExitIsReaped, LoopFails, CloseQueue,
     CloseMaster, FinishError
<1>8. CASE Begin(s) \/ EnterLoop(s)
  BY <1>3, <1>8 DEF Begin, EnterLoop
<1>9. CASE ChildSteps(s)
  BY <1>3, <1>9 DEF ChildSteps, ChildExecs, ChildFails, ChildEnds,
     ReactorUnchanged
<1> QED BY <1>4, <1>5, <1>6, <1>7, <1>8, <1>9 DEF SpawnStep, Reactor

\* A forked child has the host's entries; a reaped or failed one has none.
LEMMA ChildrenKept ==
    ASSUME TableTyped, close_on_exec \subseteq Fd, ChildrenTyped,
           NEW s \in Sessions, SpawnStep(s)
    PROVE  ChildrenTyped'
<1> DEFINE Statuses == {"none", "forked", "execed", "failed", "dead", "reaped"}
<1>1. ASSUME NEW status \in Statuses
      PROVE  [NoChild EXCEPT !.status = status] \in ChildStates
  BY DEF NoChild, NoFiles, ChildStates, ChildFiles, Files, Numbers
<1>2. Kill(s) => ChildrenTyped'
  BY <1>1 DEF Kill, ChildrenTyped
<1>3. UNCHANGED child => ChildrenTyped'
  BY DEF ChildrenTyped
<1>4. CASE Forkpty(s)
  <2> DEFINE forked == [status |-> "forked",
                        files |-> [f \in Fd |-> Inherited(s, f)],
                        close_on_exec |-> close_on_exec \ Std,
                        read |-> number[s]["read"],
                        write |-> number[s]["write"]]
  <2>1. [f \in Fd |-> Inherited(s, f)] \in [Fd -> ChildFiles]
    BY DEF TableTyped, Inherited, ChildFiles, Files, File
  <2>2. number[s]["read"] \in Numbers /\ number[s]["write"] \in Numbers
    BY DEF TableTyped, Kinds
  <2>3. forked \in ChildStates
    BY <2>1, <2>2 DEF ChildStates
  <2>4. child' = [child EXCEPT ![s] = forked]
    BY <1>4 DEF Forkpty
  <2> HIDE DEF forked
  <2> QED BY <2>3, <2>4 DEF ChildrenTyped
<1>5. CASE ChildExecs(s)
  <2> DEFINE gone == child[s].close_on_exec \cup {child[s].read}
             left == [f \in Fd |-> IF f \in gone THEN Closed ELSE child[s].files[f]]
  <2>1. child[s] \in ChildStates
    BY DEF ChildrenTyped
  <2>2. left \in [Fd -> ChildFiles]
    <3>1. child[s].files \in [Fd -> ChildFiles] /\ Closed \in ChildFiles
      BY <2>1 DEF ChildStates, ChildFiles, Files
    <3> QED BY <3>1
  <2>3. child' = [child EXCEPT ![s].status = "execed",
                               ![s].close_on_exec = {},
                               ![s].files = [f \in Fd |->
                                   IF f \in gone THEN Closed ELSE @[f]]]
    BY <1>5 DEF ChildExecs
  <2> DEFINE first == [child[s] EXCEPT !.status = "execed"]
             second == [first EXCEPT !.close_on_exec = {}]
             execed == [second EXCEPT !.files = left]
  <2>4. first \in ChildStates /\ first.files = child[s].files
    BY <2>1 DEF ChildStates
  <2>5. second \in ChildStates /\ second.files = child[s].files
    <3> HIDE DEF first
    <3> QED BY <2>4 DEF ChildStates
  <2>6. execed \in ChildStates
    <3> HIDE DEF first, second, left
    <3> QED BY <2>2, <2>5 DEF ChildStates
  <2>7. child' = [child EXCEPT ![s] = execed]
    BY <2>1, <2>3 DEF ChildStates, ChildrenTyped
  <2> HIDE DEF execed
  <2> QED BY <2>6, <2>7 DEF ChildrenTyped
<1>6. CASE ChildFails(s) \/ ChildEnds(s)
  BY <1>1, <1>6 DEF ChildFails, ChildEnds, ChildrenTyped
<1>7. CASE Prepared(s)
  BY <1>2, <1>3, <1>4, <1>7
     DEF Prepared, MakePipe, PipeFails, PrepareMoveRead, PrepareMoveWrite,
         PrepareProtectRead, PrepareProtectWrite, PrepareFails, ForkptyFails,
         Release, ProtectMaster, ProtectMasterFails, Move, SetCloseOnExec,
         AbandonPipe
<1>8. CASE Executed(s) \/ Configured(s)
  BY <1>2, <1>3, <1>8
     DEF Executed, Publish, ExecReports, ExecSucceeds, ExecTimesOut,
         CheckExecFails, TerminateAndReap, Configured, OpenKqueue, KqueueFails,
         Register, RegisterFails, Announce
<1>9. CASE Ended(s) \/ Begin(s) \/ EnterLoop(s)
  BY <1>2, <1>3, <1>9
     DEF Ended, ExitIsReaped, LoopFails, TakeQueue, CloseQueue, TakeMaster,
         CloseMaster, FinishError, Begin, EnterLoop
<1> QED BY <1>5, <1>6, <1>7, <1>8, <1>9 DEF SpawnStep, Reactor, ChildSteps

\* What is protected is a descriptor of the pipe or the terminal that is open.
LEMMA FlagsKept ==
    ASSUME ExecInv, StatesTyped, FlagsHeld, NEW s \in Sessions, SpawnStep(s)
    PROVE  FlagsHeld'
<1>1. /\ number \in [Sessions -> [Kinds -> Numbers]]
      /\ pc \in [Sessions -> Places]
  BY DEF ExecInv, SpawnInv, TableInv, TableTyped, StatesTyped
<1>2. /\ PipeMoved(s) /\ MasterHeld(s) /\ close_on_exec \subseteq Fd
      /\ number[s] \in [Kinds -> Numbers] /\ Kinds = {"read", "write", "master", "queue"}
  BY <1>1 DEF ExecInv, Told, FlagsHeld, Kinds
<1> DEFINE Alone == \A t \in Sessions : t # s =>
                       pc'[t] = pc[t] /\ number'[t] = number[t]
           Held == pc'[s] \in {"release", "protectMaster"} =>
                       number'[s]["master"] \in Fd
           Flags == close_on_exec' \subseteq Fd
<1>3. ASSUME NEW from, NEW to, Goto(s, from, to)
      PROVE  /\ pc[s] = from /\ pc'[s] = to
             /\ \A t \in Sessions : t # s => pc'[t] = pc[t]
  BY <1>1, <1>3 DEF Goto
<1>4. ASSUME NEW kinds, Close(s, kinds)
      PROVE  /\ \A t \in Sessions : t # s => number'[t] = number[t]
             /\ \A k \in Kinds : k \notin kinds => number'[s][k] = number[s][k]
             /\ Flags
  BY <1>1, <1>2, <1>4 DEF Close
<1>5. UNCHANGED number => \A t \in Sessions : number'[t] = number[t]
  OBVIOUS
<1>6. ASSUME FilesUnchanged
      PROVE  UNCHANGED number /\ Flags
  BY <1>2, <1>6 DEF FilesUnchanged
<1>7. ASSUME AbandonPipe(s)
      PROVE  Alone /\ Held /\ Flags
  BY <1>1, <1>4, <1>7 DEF AbandonPipe
<1>8. ASSUME NEW end \in Kinds, NEW from, NEW to, Move(s, end, from, to),
             to \notin {"release", "protectMaster"}
      PROVE  Alone /\ Held /\ Flags
  <2>1. CASE AbandonPipe(s)
    BY <1>7, <2>1
  <2>2. CASE FilesUnchanged /\ Goto(s, from, to)
    BY <1>3, <1>6, <1>8, <2>2
  <2>3. CASE /\ Free(3) # {} /\ Goto(s, from, to)
             /\ close_on_exec' = (close_on_exec \ {number[s][end]}) \cup {Lowest(3)}
             /\ number' = [number EXCEPT ![s][end] = Lowest(3)]
    <3>1. Lowest(3) \in Fd
      BY <2>3, LowestFree DEF Free
    <3> QED BY <1>1, <1>2, <1>3, <1>8, <2>3, <3>1
  <2> QED BY <1>8, <2>1, <2>2, <2>3 DEF Move
<1>9. ASSUME NEW end \in Kinds, NEW from, NEW to, SetCloseOnExec(s, end, from, to),
             number[s][end] \in Fd, to \notin {"release", "protectMaster"}
      PROVE  Alone /\ Held /\ Flags
  BY <1>2, <1>3, <1>9 DEF SetCloseOnExec
<1>10. SUFFICES Alone /\ Held /\ Flags
  <2>1. ASSUME Alone, Held, NEW t \in Sessions
        PROVE  MasterHeld(t)'
    BY <2>1 DEF FlagsHeld, MasterHeld
  <2> QED BY <2>1 DEF FlagsHeld
<1>11. CASE Forkpty(s)
  <2>1. Lowest(0) \in Fd
    BY <1>11, TwoFree DEF Forkpty, Free
  <2>2. number' = [number EXCEPT ![s]["master"] = Lowest(0)]
    BY <1>11 DEF Forkpty, Open
  <2>3. Alone /\ Held
    BY <1>1, <1>2, <1>3, <1>11, <2>1, <2>2 DEF Forkpty
  <2> QED BY <1>2, <1>11, <2>3 DEF Forkpty
<1>12. CASE Release(s)
  <2>1. number[s]["master"] \in Fd
    BY <1>2, <1>3, <1>12 DEF Release, MasterHeld
  <2> QED BY <1>2, <1>3, <1>4, <1>12, <2>1 DEF Release
<1>13. CASE PrepareProtectRead(s) \/ PrepareProtectWrite(s) \/ ProtectMaster(s)
  <2>1. PrepareProtectRead(s) => number[s]["read"] \in Fd
    BY <1>2, <1>3 DEF PrepareProtectRead, SetCloseOnExec, PipeMoved, MovedRead,
       Beyond
  <2>2. PrepareProtectWrite(s) => number[s]["write"] \in Fd
    BY <1>2, <1>3 DEF PrepareProtectWrite, SetCloseOnExec, PipeMoved, MovedWrite,
       Beyond
  <2>3. ProtectMaster(s) => number[s]["master"] \in Fd
    BY <1>2, <1>3 DEF ProtectMaster, SetCloseOnExec, MasterHeld
  <2> QED BY <1>2, <1>9, <1>13, <2>1, <2>2, <2>3
          DEF PrepareProtectRead, PrepareProtectWrite, ProtectMaster
<1>14. CASE MakePipe(s)
  <2>1. /\ UNCHANGED close_on_exec /\ Goto(s, "pipe", "moveRead")
        /\ number' = [number EXCEPT ![s]["read"] = Lowest(0),
                                    ![s]["write"] = Second]
    BY <1>14 DEF MakePipe
  <2> QED BY <1>1, <1>2, <1>3, <2>1
<1>15. CASE \/ PipeFails(s) \/ PrepareMoveRead(s) \/ PrepareMoveWrite(s)
            \/ PrepareFails(s) \/ ForkptyFails(s) \/ ProtectMasterFails(s)
  BY <1>2, <1>3, <1>4, <1>6, <1>7, <1>8, <1>15
     DEF PipeFails, PrepareMoveRead, PrepareMoveWrite, PrepareFails, ForkptyFails,
         ProtectMasterFails
<1>16. CASE Executed(s)
  BY <1>3, <1>4, <1>6, <1>16
     DEF Executed, Publish, ExecReports, ExecSucceeds, ExecTimesOut,
         CheckExecFails, TerminateAndReap
<1>17. CASE Configured(s)
  <2>1. CASE OpenKqueue(s)
    <3>1. /\ UNCHANGED close_on_exec /\ Goto(s, "kqueue", "register")
          /\ number' = [number EXCEPT ![s]["queue"] = Lowest(0)]
      BY <2>1 DEF OpenKqueue, Open
    <3> QED BY <1>1, <1>2, <1>3, <3>1
  <2> QED BY <1>3, <1>4, <1>6, <1>17, <2>1
          DEF Configured, KqueueFails, Register, RegisterFails, Announce
<1>18. CASE Ended(s)
  BY <1>3, <1>4, <1>6, <1>18
     DEF Ended, ExitIsReaped, LoopFails, TakeQueue, CloseQueue, TakeMaster,
         CloseMaster, FinishError
<1>19. CASE Begin(s) \/ EnterLoop(s)
  BY <1>3, <1>6, <1>19 DEF Begin, EnterLoop
<1>20. CASE ChildSteps(s)
  <2>1. UNCHANGED <<pc, number, close_on_exec>>
    BY <1>20 DEF ChildSteps, ChildExecs, ChildFails, ChildEnds, ReactorUnchanged,
       FilesUnchanged
  <2> QED BY <1>2, <2>1 DEF MasterHeld
<1> QED BY <1>11, <1>12, <1>13, <1>14, <1>15, <1>16, <1>17, <1>18, <1>19, <1>20
        DEF SpawnStep, Reactor, Prepared

\* Every reachable state of the descriptor table, the reactors and the children
\* is well typed; no call is given the number of a descriptor that is not open.
THEOREM SpawnTypeCorrect == SpawnSpec => []SpawnTypeOK
<1> DEFINE Rest == StatesTyped /\ SharedTyped /\ ChildrenTyped /\ FlagsHeld
<1>1. SpawnInit => Rest
  <2> SUFFICES ASSUME SpawnInit PROVE Rest
    OBVIOUS
  <2>1. NoChild \in ChildStates
    BY DEF NoChild, NoFiles, ChildStates, ChildFiles, Files, Numbers
  <2>2. StatesTyped /\ SharedTyped /\ FlagsHeld
    BY DEF SpawnInit, StatesTyped, SharedTyped, FlagsHeld, MasterHeld, Places,
       Numbers
  <2> QED BY <2>1, <2>2 DEF SpawnInit, ChildrenTyped
<1>2. ExecInv /\ Rest /\ [SpawnNext]_spawnVars => Rest'
  <2> SUFFICES ASSUME ExecInv, Rest, [SpawnNext]_spawnVars PROVE Rest'
    OBVIOUS
  <2>1. CASE UNCHANGED spawnVars
    BY <2>1 DEF spawnVars, StatesTyped, SharedTyped, ChildrenTyped, FlagsHeld,
       MasterHeld
  <2>2. CASE SpawnNext
    <3>1. PICK s \in Sessions : SpawnStep(s)
      BY <2>2 DEF SpawnNext, SpawnStep
    <3>2. TableTyped /\ close_on_exec \subseteq Fd
      BY DEF ExecInv, SpawnInv, TableInv, FlagsHeld
    <3> QED BY <3>1, <3>2, StatesKept, SharedKept, ChildrenKept, FlagsKept
  <2> QED BY <2>1, <2>2
<1>3. ExecInv /\ Rest => SpawnTypeOK
  BY DEF ExecInv, SpawnInv, TableInv, TableTyped, StatesTyped, SharedTyped,
     ChildrenTyped, FlagsHeld, SpawnTypeOK
<1> HIDE DEF Rest
<1> QED BY <1>1, <1>2, <1>3, ExecStarts, ExecSteps, PTL DEF SpawnSpec
=============================================================================
